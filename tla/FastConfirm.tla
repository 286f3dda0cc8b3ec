------------------------------ MODULE FastConfirm ------------------------------
(***************************************************************************)
(* Fast confirmation of one anchored payload: two configured operators are *)
(* observed at once, each by a child process, under one wait budget        *)
(* (collectFastEvidence, observeAlgodOperator, cmd/fastobserve), and the   *)
(* evidence is checked by a native verifier (proof/fast.go).               *)
(*                                                                         *)
(* The clock is discrete.  An answer, the timer and a child's end reach    *)
(* the runtime in any order and as late as may be.  One party may lie: an  *)
(* organization, or whoever answers at a host, the application's own       *)
(* service included; what it answers is anything at all.                   *)
(***************************************************************************)
EXTENDS Archive

CONSTANTS
  FullWait,      \* FAST_CONFIRM_WAIT_MS; a caller may leave less
  ObserverWait,  \* an observer's own budget, shorter
  Latest         \* bound on the clock

VARIABLES
  operators, \* the two configured operators
  liar,      \* the organization or host that lies, or None
  wait,      \* the budget of this collection
  now,       \* time since it began
  observer,  \* the two observers
  evidence,  \* what was collected
  outcome    \* None, or how it ended

fastVars == <<operators, liar, wait, now, observer, evidence, outcome>>

ASSUME FastAssumption ==
  /\ {FullWait, ObserverWait, Latest} \subseteq Nat \ {0} /\ ObserverWait < FullWait /\ FullWait < Latest
  /\ None \notin {"collected", "PENDING", "INVALID", "AUTHORIZED", "UNAVAILABLE", "elsewhere"}

Application == "service.example"
Operator(id, organization, host) == [id |-> id, organization |-> organization, host |-> host]
\* Configurations: proper, or with something the operators, or one and the application, share.
Configurations ==
  LET first == Operator("one", "Red", "red.example") IN
  {<<first, Operator("two", "Blue", "blue.example")>>, <<first, Operator("two", "Red", "blue.example")>>,
   <<first, Operator("two", "Blue", "red.example")>>, <<first, Operator("two", "Blue", Application)>>,
   <<first, Operator("one", "Blue", "blue.example")>>}
Parties == {None, "Red", "Blue", "red.example", "blue.example", Application}

NearRounds == 1 .. Interval \* rounds in which the transaction is confirmed or said to be
Starting == [at |-> "pending", round |-> 0, header |-> Header(0, "nobody")]
Gone(o) == [o EXCEPT !.at = "gone"]
Running == {"pending", "block", "proof"}

FastInit ==
  /\ operators \in Configurations /\ liar \in Parties /\ wait \in 1 .. FullWait
  /\ now = 0 /\ observer = [i \in 1 .. 2 |-> Starting] /\ evidence = None /\ outcome = None

Lies(i) == liar # None /\ liar \in {operators[i].organization, operators[i].host}

Tick ==
  /\ outcome = None /\ now < Latest
  /\ now' = now + 1
  /\ UNCHANGED <<batch, placed, operators, liar, wait, observer, evidence, outcome>>

\* The network confirms the transaction.
Confirmed(round) ==
  /\ placed = 0 /\ outcome = None
  /\ placed' = round
  /\ UNCHANGED <<batch, operators, liar, wait, now, observer, evidence, outcome>>

-----------------------------------------------------------------------------
(* An observer: three reads of one operator, in order.                     *)

Reads(i, from, to) ==
  /\ observer[i].at = from /\ now <= ObserverWait
  /\ observer' = [observer EXCEPT ![i] = to]
  /\ UNCHANGED <<batch, placed, operators, liar, wait, now, evidence, outcome>>

\* PendingTransactionInformation: the round it was confirmed in.
ReadPending(i) ==
  \E round \in IF Lies(i) THEN NearRounds ELSE {placed} \ {0} :
    Reads(i, "pending", [observer[i] EXCEPT !.at = "block", !.round = round])

\* Block: the header of that round; nothing compares its own round with the one asked for.
ReadBlock(i) ==
  \E header \in IF Lies(i) THEN {h \in Headers : h.round \in NearRounds} ELSE {Block(observer[i].round)} :
    Reads(i, "block", [observer[i] EXCEPT !.at = "proof", !.header = header])

\* GetTransactionProof: the transaction is in that block's payset; the observation is written.
ReadProof(i) ==
  /\ observer[i].at = "proof" /\ Commits(observer[i].header, Payload)
  /\ Reads(i, "proof", [observer[i] EXCEPT !.at = "written"])

\* Any read fails, or the operator has not confirmed, or the observer's budget is over.
ObserverFails(i) ==
  /\ observer[i].at \in Running
  /\ observer' = [observer EXCEPT ![i] = [Starting EXCEPT !.at = "failed"]]
  /\ UNCHANGED <<batch, placed, operators, liar, wait, now, evidence, outcome>>

-----------------------------------------------------------------------------
(* The collector.                                                          *)

\* A plausible bug in Abandons, used only to test the properties.
AbandonsRunning(result) == outcome' = result /\ UNCHANGED observer
\* The race is over: the controller is aborted, which kills what still runs.
Abandons(result) == outcome' = result /\ observer' = [i \in 1 .. 2 |-> Gone(Starting)]

\* Both observations are there: too late is looked at once more; the cryptographic parts are the first one's.
AllAnswered ==
  IF now > wait THEN Abandons("PENDING") /\ UNCHANGED evidence
  ELSE /\ evidence' = [header |-> observer[1].header, sources |-> [i \in 1 .. 2 |-> Gone(observer[i])], elapsed |-> now]
       /\ Abandons("collected")

\* A plausible bug in ChildCloses, used only to test the properties.
ChildClosesAnyhow(i) ==
  /\ outcome = None /\ observer[i].at \in {"failed", "written"}
  /\ IF observer[3 - i].at = "answered" THEN AllAnswered
     ELSE observer' = [observer EXCEPT ![i].at = "answered"] /\ UNCHANGED <<evidence, outcome>>
  /\ UNCHANGED <<batch, placed, operators, liar, wait, now>>
\* A child has closed: its failure ends the collection, its answer may be the last one.
ChildCloses(i) ==
  /\ outcome = None
  /\ \/ observer[i].at = "failed" /\ Abandons("PENDING") /\ UNCHANGED evidence
     \/ /\ observer[i].at = "written"
        /\ IF observer[3 - i].at = "answered" THEN AllAnswered
           ELSE observer' = [observer EXCEPT ![i].at = "answered"] /\ UNCHANGED <<evidence, outcome>>
  /\ UNCHANGED <<batch, placed, operators, liar, wait, now>>

TimerFires ==
  /\ outcome = None /\ now >= wait
  /\ Abandons("PENDING")
  /\ UNCHANGED <<batch, placed, operators, liar, wait, now, evidence>>

\* A plausible bug in Independent, used only to test the properties.
IndependentById == operators[1].id # operators[2].id
\* verifyFast: operators, organizations and hosts differ, from the application's host too.
Independent ==
  /\ operators[1].id # operators[2].id /\ operators[1].organization # operators[2].organization
  /\ Cardinality({operators[1].host, operators[2].host, Application}) = 3

\* verifyFast: the transaction is in the header, which is the one both operators reported.
Corroborates(collected) ==
  /\ Commits(collected.header, Payload)
  /\ \A i \in 1 .. 2 : collected.sources[i].header = collected.header /\ collected.sources[i].round = collected.header.round

\* verifyFastConfirmation; the verifier may not be there.
Verified ==
  /\ outcome = "collected"
  /\ outcome' \in {IF evidence.elapsed > FullWait THEN "PENDING"
                   ELSE IF Independent /\ Corroborates(evidence) THEN "AUTHORIZED" ELSE "INVALID", "UNAVAILABLE"}
  /\ UNCHANGED <<batch, placed, operators, liar, wait, now, observer, evidence>>

FastNext ==
  \/ Tick \/ (\E round \in NearRounds : Confirmed(round))
  \/ \E i \in 1 .. 2 : ReadPending(i) \/ ReadBlock(i) \/ ReadProof(i) \/ ObserverFails(i) \/ ChildCloses(i)
  \/ TimerFires \/ Verified

\* The clock runs, an expired timer fires, and the verifier has a deadline.
FastFairness == WF_<<placed, fastVars>>(Tick) /\ WF_<<placed, fastVars>>(TimerFires) /\ WF_<<placed, fastVars>>(Verified)

-----------------------------------------------------------------------------
(* Properties.                                                             *)

\* Evidence that authorizes a release names the very block the transaction is in and came within
\* the budget, as long as at most one party lies: one operator, one organization, one host, or the
\* application's own service. And two honest operators that are configured as they must be never
\* make it invalid: it is authorized, or pending and may be tried again (verifyFast, the elapsed
\* check of collectFastEvidence).
ConfirmationSound ==
  /\ outcome = "AUTHORIZED" => evidence.header = Block(placed) /\ evidence.elapsed <= wait
  /\ liar = None /\ Independent => outcome # "INVALID"

\* However the operators behave, the collection ends, and no observer runs on after it.
CollectionEnds ==
  /\ outcome = None ~> outcome \notin {None, "collected"}
  /\ [](outcome # None => \A i \in 1 .. 2 : observer[i].at \notin Running)
=============================================================================
