-------------------------------- MODULE Session --------------------------------
(***************************************************************************)
(* The protection session of the product: the trusted composer's draft,    *)
(* the versions frozen from it, and one serial queue of operations over    *)
(* the release runtime, the managed service, the observers of the chain    *)
(* and the adapter.                                                        *)
(*                                                                         *)
(* Requests arrive at any time and update the draft at once, outside the   *)
(* queue; the operations behind them wait their turn and await others for  *)
(* seconds.  Each await is a phase of the operation at the queue's head.   *)
(* The runtime's own memory is `journal`: a call of it succeeds or throws  *)
(* and changes nothing (module Release has its disk and its crashes, after *)
(* which a new session knows no version).                                  *)
(***************************************************************************)
EXTENDS Naturals, Sequences, SequencesExt

CONSTANTS
  Texts,         \* valid composer texts, by their digest
  Modes,         \* protection modes in use
  Transactions,  \* transaction identifiers
  MaxRevision,   \* bound on edit revisions
  MaxVersions,   \* bound on frozen versions
  MaxAttempts,   \* bound on dispatches of one version
  MaxQueue,      \* bound on operations waiting
  MaxRequests,   \* bound on operations ever asked for
  None

ASSUME SessionAssumption ==
  /\ Modes \subseteq {"Continuous", "Sealed", "Always Protect"}
  /\ {MaxRevision, MaxVersions, MaxAttempts, MaxQueue, MaxRequests} \subseteq Nat
  /\ None \notin Transactions \cup Texts

VARIABLES
  scope,     \* the conversation: not enrolled, eligible, or revoked
  draft,     \* #draft
  versions,  \* #versions, by their order
  journal,   \* what the runtime remembers of each version
  queue,     \* #tail: the operations asked for and not ended
  phase,     \* the await at which the first of them stands
  answer,    \* what the adapter answered it
  ended,     \* operations ended, which bounds the requests
  handed,    \* history: how often each version was handed to the provider's page
  granted    \* history: how often a person's approval authorized each version

vars == <<scope, draft, versions, journal, queue, phase, answer, ended, handed, granted>>

Outcomes  == {"SUBMISSION_OBSERVED", "FAILED_BEFORE_EGRESS", "OUTCOME_UNKNOWN"}
Anchors   == {"PENDING", "SOURCE_CORROBORATED", "CONSENSUS_VERIFIED"}
Revisions == 0 .. MaxRevision
Ids       == 1 .. MaxVersions
Phases    == {"waiting", "sealing", "submitting", "collecting", "validating", "confirming",
              "retrying", "cancelling", "consuming", "dispatching", "answering", "recording"}

Draft   == [rev : Revisions, text : Texts]
Try     == [no : 1 .. MaxAttempts, state : Outcomes]
Version == [rev : Revisions, text : Texts, mode : Modes,
            state : Outcomes \cup {"PENDING", "SEALED_NOT_SENT", "CANCELLED"},
            anchor : Anchors, transaction : Transactions \cup {None},
            attempt : Try \cup {None}, assurance : Seq(Anchors)]
Record  == [confirmed : BOOLEAN, authorized : BOOLEAN, cancelled : BOOLEAN,
            tries : 0 .. MaxAttempts, last : Outcomes \cup {None, "DISPATCHING"}]

NewVersion(d, mode) ==
  [rev |-> d.rev, text |-> d.text, mode |-> mode, state |-> "PENDING", anchor |-> "PENDING",
   transaction |-> None, attempt |-> None, assurance |-> <<>>]
NewRecord == [confirmed |-> FALSE, authorized |-> FALSE, cancelled |-> FALSE, tries |-> 0, last |-> None]

Init ==
  /\ scope = "unenrolled" /\ draft = None
  /\ versions = <<>> /\ journal = <<>>
  /\ queue = <<>> /\ phase = "waiting" /\ answer = None
  /\ ended = 0 /\ handed = <<>> /\ granted = <<>>

-----------------------------------------------------------------------------
(* Requests: the draft moves at once, the operation is queued.             *)

memory == <<versions, journal>>
turn == <<phase, answer>>
history == <<ended, handed, granted>>

\* updateDraft: never back, and one text per revision.
Accepts(d) == draft # None => d.rev > draft.rev \/ d = draft

\* assertCurrentDraft, and the request's own text against the version's.
IsDraft(v) == draft = [rev |-> v.rev, text |-> v.text]
IsVersion(d, v) == d = [rev |-> v.rev, text |-> v.text]
Eligible == scope = "eligible"

Asks(request) ==
  /\ Len(queue) < MaxQueue /\ ended + Len(queue) < MaxRequests
  /\ queue' = Append(queue, request)
  /\ UNCHANGED <<scope, memory, turn, history>>

Enroll ==
  /\ scope = "unenrolled"
  /\ scope' = "eligible"
  /\ UNCHANGED <<draft, memory, queue, turn, history>>

\* The adapter invalidates the enrollment; the session takes no other.
Revoke ==
  /\ scope = "eligible"
  /\ scope' = "revoked"
  /\ UNCHANGED <<draft, memory, queue, turn, history>>

UpdateDraft(d) ==
  /\ scope # "unenrolled" /\ Accepts(d) /\ d # draft
  /\ draft' = d
  /\ UNCHANGED <<scope, memory, queue, turn, history>>

Freeze(d, mode) ==
  /\ scope # "unenrolled" /\ Accepts(d)
  /\ Len(versions) + Cardinality({i \in DOMAIN queue : queue[i].kind = "freeze"}) < MaxVersions
  /\ draft' = d
  /\ Asks([kind |-> "freeze", id |-> None, draft |-> d, mode |-> mode])

\* confirmFast names a transaction; anchorManaged asks the service for one. The text that comes
\* with the confirmation of a continuous version is not looked at.
Confirm(id, d, managed) ==
  /\ IF versions[id].mode = "Continuous" THEN IsVersion(d, versions[id]) /\ UNCHANGED draft
     ELSE Accepts(d) /\ draft' = d
  /\ Asks([kind |-> "confirm", id |-> id, draft |-> d, managed |-> managed])

Release(id, d) ==
  /\ Accepts(d) /\ draft' = d
  /\ Asks([kind |-> "release", id |-> id, draft |-> d])

Retry(id, d, prior) ==
  /\ Accepts(d) /\ draft' = d
  /\ Asks([kind |-> "retry", id |-> id, draft |-> d, prior |-> prior])

Cancel(id) == Asks([kind |-> "cancel", id |-> id]) /\ UNCHANGED draft
UpgradeConsensus(id) == Asks([kind |-> "upgrade", id |-> id]) /\ UNCHANGED draft

-----------------------------------------------------------------------------
(* The operation at the head of the queue.                                 *)

Op == Head(queue)
At(where) == queue # <<>> /\ phase = where

Goes(next) == phase' = next /\ UNCHANGED <<queue, answer, ended>>
Ends == queue' = Tail(queue) /\ phase' = "waiting" /\ answer' = None /\ ended' = ended + 1

\* releaseVersion, up to the call of the runtime.
ToRuntime == IF Eligible THEN Goes("consuming") ELSE Ends

\* A plausible bug in Pending, used only to test the properties.
PendingUnlessFast(v) == v.anchor # "SOURCE_CORROBORATED"
Pending(v) == v.anchor = "PENDING"

\* The checks an operation makes when its turn comes.
MayConfirm(v) ==
  /\ v.state # "CANCELLED" /\ Pending(v)
  /\ v.mode # "Continuous" => IsDraft(v) /\ IsVersion(Op.draft, v) /\ Eligible
MayRelease(v) == v.mode # "Continuous" /\ IsVersion(Op.draft, v) /\ Eligible
MayCancel(v) == v.attempt = None
MayUpgrade(v) ==
  /\ v.anchor # "CONSENSUS_VERIFIED"
  /\ v.mode = "Continuous" \/ Contains(v.assurance, "SOURCE_CORROBORATED")
May ==
  CASE Op.kind = "freeze" -> Eligible
    [] Op.kind = "confirm" -> MayConfirm(versions[Op.id])
    [] Op.kind \in {"release", "retry"} -> MayRelease(versions[Op.id])
    [] Op.kind = "cancel" -> MayCancel(versions[Op.id])
    [] Op.kind = "upgrade" -> MayUpgrade(versions[Op.id])

\* What a confirmation looks at again before evidence is collected.
Collects(v) ==
  IF (IF v.mode = "Continuous" THEN v.attempt # None ELSE Eligible /\ IsVersion(Op.draft, v))
  THEN Goes("collecting") ELSE Ends

Begin ==
  /\ At("waiting") /\ May /\ Op.kind # "upgrade"
  /\ CASE Op.kind = "freeze" -> Goes("sealing")
       [] Op.kind = "confirm" -> IF Op.managed THEN Goes("submitting") ELSE Collects(versions[Op.id])
       [] Op.kind = "release" -> Goes("consuming")
       [] Op.kind = "retry" -> Goes("retrying")
       [] Op.kind = "cancel" -> Goes("cancelling")
  /\ UNCHANGED <<scope, draft, memory, handed, granted>>

\* An early check throws, or the vault does not take what the operation would record.
Refused ==
  /\ At("waiting")
  /\ ~May \/ Op.kind \in {"freeze", "upgrade"}
  /\ Ends
  /\ UNCHANGED <<scope, draft, memory, handed, granted>>

\* A plausible bug in Throws, used only to test the properties.
ThrowsInTime ==
  /\ queue # <<>> /\ phase \notin {"waiting", "submitting", "collecting", "dispatching", "answering"}
  /\ Ends
  /\ UNCHANGED <<scope, draft, memory, handed, granted>>
\* An awaited call throws: the runtime could not write, evidence is missing, late or rejected.
\* An outcome that could not be recorded leaves its attempt DISPATCHING in the runtime.
Throws ==
  /\ queue # <<>> /\ phase \notin {"waiting", "submitting", "dispatching", "answering"}
  /\ Ends
  /\ UNCHANGED <<scope, draft, memory, handed, granted>>

\* The version is known from here; a continuous one is released in the same operation.
Sealed ==
  LET v == NewVersion(Op.draft, Op.mode) IN
  /\ At("sealing")
  /\ versions' = Append(versions, v) /\ journal' = Append(journal, NewRecord)
  /\ handed' = Append(handed, 0)
  /\ granted' = Append(granted, IF v.mode = "Continuous" THEN 1 ELSE 0)
  /\ IF v.mode = "Continuous" /\ Eligible
     THEN /\ queue' = [queue EXCEPT ![1].id = Len(versions) + 1]
          /\ phase' = "consuming" /\ UNCHANGED <<answer, ended>>
     ELSE Ends
  /\ UNCHANGED <<scope, draft>>

\* The transaction a version keeps once the service answered with tx: another one is refused.
Saves(v, tx) == IF v.transaction # None THEN v.transaction ELSE tx

\* The service answers, or fails (None): without a saved transaction there is nothing to observe.
Submitted(tx) ==
  LET v == versions[Op.id]
      saved == [v EXCEPT !.transaction = Saves(v, tx)] IN
  /\ At("submitting")
  /\ versions' = [versions EXCEPT ![Op.id] = saved]
  /\ IF saved.transaction = None THEN Ends ELSE Collects(saved)
  /\ UNCHANGED <<scope, draft, journal, handed, granted>>

\* The observers agree in time; the draft may have been edited meanwhile.
Collected ==
  LET v == versions[Op.id] IN
  /\ At("collecting")
  /\ IF v.mode = "Continuous" THEN Goes("validating")
     ELSE IF IsDraft(v) /\ Eligible THEN Goes("confirming") ELSE Ends
  /\ UNCHANGED <<scope, draft, memory, handed, granted>>

Assured(v, anchor) == [v EXCEPT !.anchor = anchor, !.assurance = Append(@, anchor)]

\* Evidence for a version that was already sent.
Validated ==
  /\ At("validating")
  /\ versions' = [versions EXCEPT ![Op.id] = Assured(@, "SOURCE_CORROBORATED")]
  /\ Ends
  /\ UNCHANGED <<scope, draft, journal, handed, granted>>

\* runtime.confirm verifies the evidence and authorizes; Always Protect releases at once.
Confirmed ==
  LET v == versions[Op.id]
      j == journal[Op.id] IN
  /\ At("confirming")
  /\ ~j.confirmed /\ ~j.cancelled
  /\ journal' = [journal EXCEPT ![Op.id].confirmed = TRUE, ![Op.id].authorized = TRUE]
  /\ versions' = [versions EXCEPT ![Op.id] =
       [Assured(@, "SOURCE_CORROBORATED") EXCEPT !.state = "SEALED_NOT_SENT"]]
  /\ granted' = [granted EXCEPT ![Op.id] = @ + 1]
  /\ IF v.mode = "Always Protect" THEN ToRuntime ELSE Ends
  /\ UNCHANGED <<scope, draft, handed>>

\* runtime.retry: of the version's last attempt, when it failed or its outcome is unknown.
Retried ==
  LET j == journal[Op.id] IN
  /\ At("retrying")
  /\ j.tries > 0 /\ Op.prior = j.tries
  /\ j.last \in {"OUTCOME_UNKNOWN", "FAILED_BEFORE_EGRESS"} /\ ~j.authorized /\ ~j.cancelled
  /\ journal' = [journal EXCEPT ![Op.id].authorized = TRUE]
  /\ granted' = [granted EXCEPT ![Op.id] = @ + 1]
  /\ ToRuntime
  /\ UNCHANGED <<scope, draft, versions, handed>>

\* A plausible bug in Cancels, used only to test the properties.
CancelsAttempted(j) == ~j.cancelled
\* runtime.cancel excludes what it has ever dispatched, whatever the session remembers.
Cancels(j) == j.tries = 0 /\ ~j.cancelled

Cancelled ==
  /\ At("cancelling") /\ Cancels(journal[Op.id])
  /\ journal' = [journal EXCEPT ![Op.id].cancelled = TRUE, ![Op.id].authorized = FALSE]
  /\ versions' = [versions EXCEPT ![Op.id].state = "CANCELLED"]
  /\ Ends
  /\ UNCHANGED <<scope, draft, handed, granted>>

Upgraded ==
  /\ At("waiting") /\ Op.kind = "upgrade" /\ May
  /\ versions' = [versions EXCEPT ![Op.id] = Assured(@, "CONSENSUS_VERIFIED")]
  /\ Ends
  /\ UNCHANGED <<scope, draft, journal, handed, granted>>

\* A plausible bug in Releases, used only to test the properties.
ReleasesConfirmed(v, j) == IF v.mode = "Continuous" THEN j.tries = 0 ELSE ~j.cancelled /\ j.confirmed
\* What runtime.release and runtime.releaseContinuous ask of a version.
Releases(v, j) ==
  IF v.mode = "Continuous" THEN j.tries = 0 ELSE ~j.cancelled /\ j.confirmed /\ j.authorized

Consumed ==
  LET j == journal[Op.id] IN
  /\ At("consuming")
  /\ Releases(versions[Op.id], j) /\ j.tries < MaxAttempts
  /\ journal' = [journal EXCEPT ![Op.id] =
       [j EXCEPT !.authorized = FALSE, !.tries = j.tries + 1, !.last = "DISPATCHING"]]
  /\ Goes("dispatching")
  /\ UNCHANGED <<scope, draft, versions, handed, granted>>

\* A plausible bug in Dispatch, used only to test the properties.
DispatchUnchecked ==
  /\ At("dispatching")
  /\ handed' = [handed EXCEPT ![Op.id] = @ + 1]
  /\ Goes("answering")
  /\ UNCHANGED <<scope, draft, memory, granted>>
\* The injected dispatch: an edited draft or a revoked conversation refuses.
Dispatch ==
  /\ At("dispatching")
  /\ IF IsDraft(versions[Op.id]) /\ Eligible
     THEN /\ handed' = [handed EXCEPT ![Op.id] = @ + 1]
          /\ Goes("answering")
     ELSE /\ phase' = "recording" /\ answer' = "FAILED_BEFORE_EGRESS"
          /\ UNCHANGED <<queue, ended, handed>>
  /\ UNCHANGED <<scope, draft, memory, granted>>

Answered(outcome) ==
  /\ At("answering")
  /\ phase' = "recording" /\ answer' = outcome
  /\ UNCHANGED <<scope, draft, memory, queue, ended, handed, granted>>

\* A plausible bug in Recorded, used only to test the properties: the version keeps its state.
RecordedAtFirst ==
  /\ At("recording")
  /\ journal' = [journal EXCEPT ![Op.id].last = answer]
  /\ versions' = [versions EXCEPT ![Op.id] =
       IF @.attempt # None THEN @
       ELSE [@ EXCEPT !.attempt = [no |-> journal[Op.id].tries, state |-> answer], !.state = answer]]
  /\ Ends
  /\ UNCHANGED <<scope, draft, handed, granted>>
\* The outcome is durable; the version takes it over, whether or not its event is captured.
Recorded ==
  /\ At("recording")
  /\ journal' = [journal EXCEPT ![Op.id].last = answer]
  /\ versions' = [versions EXCEPT ![Op.id] =
       [@ EXCEPT !.attempt = [no |-> journal[Op.id].tries, state |-> answer], !.state = answer]]
  /\ Ends
  /\ UNCHANGED <<scope, draft, handed, granted>>

-----------------------------------------------------------------------------

Person ==
  \/ Enroll \/ Revoke
  \/ \E d \in Draft : UpdateDraft(d) \/ \E mode \in Modes : Freeze(d, mode)
  \/ \E id \in DOMAIN versions :
       \/ \E d \in Draft : \/ \E managed \in BOOLEAN : Confirm(id, d, managed)
                           \/ Release(id, d)
                           \/ \E prior \in 1 .. MaxAttempts : Retry(id, d, prior)
       \/ Cancel(id) \/ UpgradeConsensus(id)

Progress ==
  \/ Begin \/ Refused \/ Throws \/ Sealed \/ Collected \/ Validated \/ Confirmed \/ Retried
  \/ Cancelled \/ Upgraded \/ Consumed \/ Dispatch \/ Recorded
  \/ \E tx \in Transactions \cup {None} : Submitted(tx)
  \/ \E outcome \in Outcomes : Answered(outcome)

Next == Person \/ Progress
Spec == Init /\ [][Next]_vars

\* What ends every await whatever others do: the deadlines of the service and of the observers,
\* the runtime's own file operations, and the adapter (DispatchEnds of Bridge).
Deadline == \/ Begin \/ Refused \/ Throws \/ Dispatch \/ Submitted(None) \/ Answered("OUTCOME_UNKNOWN")

FairSpec == Spec /\ WF_vars(Deadline)

-----------------------------------------------------------------------------
(* Properties.                                                             *)

TypeOK ==
  /\ scope \in {"unenrolled", "eligible", "revoked"}
  /\ draft \in Draft \cup {None}
  /\ versions \in Seq(Version) /\ Len(versions) <= MaxVersions
  /\ journal \in Seq(Record) /\ Len(journal) = Len(versions)
  /\ Len(queue) <= MaxQueue /\ (queue = <<>> => phase = "waiting")
  /\ phase \in Phases /\ answer \in Outcomes \cup {None} /\ (answer # None => phase = "recording")
  /\ ended \in 0 .. MaxRequests
  /\ handed \in Seq(Nat) /\ granted \in Seq(Nat)

\* The version under way, which the memory of the session may be behind of.
Busy(id) == queue # <<>> /\ phase # "waiting" /\ Op.id = id

\* A text goes to the page only while it is the latest the person wrote: an edit made while its
\* release, or the collection of its evidence, was waiting keeps it back (session.mjs:44).
OnlyTheLatestIsSent ==
  [][\A id \in DOMAIN versions : handed'[id] > handed[id] => IsDraft(versions[id])]_vars

\* A version acknowledged as cancelled was never handed to the page and never will be, although
\* the session may have forgotten an attempt whose outcome could not be written: then the
\* runtime's own guard refuses (session.mjs:299, runtime.mjs:134).
CancelledIsUnsent ==
  \A id \in DOMAIN versions : journal[id].cancelled => handed[id] = 0 /\ versions[id].state = "CANCELLED"

\* Each hand-over of a version has an approval of its own (a confirmation or an explicit retry;
\* the freeze, for a continuous one), a protected version shows its evidence before it, and a version
\* acknowledged as cancelled is never sent.
SentAsApproved ==
  /\ CancelledIsUnsent
  /\ \A id \in DOMAIN versions :
       /\ handed[id] <= granted[id]
       /\ versions[id].mode # "Continuous" /\ handed[id] > 0 => Contains(versions[id].assurance, "SOURCE_CORROBORATED")

\* What the session shows of a version at rest is what the runtime knows: the last attempt and
\* its outcome, unless that could not be written and the attempt is DISPATCHING until a restart;
\* the confirmation; the cancellation.
ViewIsJournal ==
  /\ TypeOK
  /\ \A id \in DOMAIN versions : ~Busy(id) =>
       LET v == versions[id]
           j == journal[id] IN
       /\ \/ j.last = "DISPATCHING"
          \/ v.attempt = IF j.tries = 0 THEN None ELSE [no |-> j.tries, state |-> j.last]
       /\ v.mode # "Continuous" => (j.confirmed <=> v.anchor # "PENDING")
       /\ j.cancelled <=> v.state = "CANCELLED"

\* Assurance only grows, each degree once, and the sponsored transaction a version names never
\* changes, so a retried submission cannot be taken for another (session.mjs:186, 199, 310).
Degree == [PENDING |-> 0, SOURCE_CORROBORATED |-> 1, CONSENSUS_VERIFIED |-> 2]
AssuranceGrows ==
  [][\A id \in DOMAIN versions :
       LET before == versions[id]
           after == versions'[id] IN
       /\ after.assurance # before.assurance => Degree[after.anchor] > Degree[before.anchor]
       /\ Degree[after.anchor] >= Degree[before.anchor]
       /\ before.transaction # None => after.transaction = before.transaction]_vars

\* No step sends a text out of date, or takes back what a version was told of its evidence.
VersionsHold == OnlyTheLatestIsSent /\ AssuranceGrows

\* No operation holds the queue for ever, so a shutdown that drains it ends once nothing more is
\* asked for (session.mjs:337).
DrainEnds == queue # <<>> ~> queue = <<>>
=============================================================================
