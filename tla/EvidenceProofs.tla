---------------------------- MODULE EvidenceProofs ----------------------------
(***************************************************************************)
(* Why evidence that authorizes a release names the true block, why a      *)
(* batch's proofs are exact and why a recipient's verdicts are earned: for *)
(* every interval, budget, batch and bundle of the model, and every answer *)
(* of a lying party.                                                       *)
(*                                                                         *)
(* Fast confirmation: what an honest observer holds is what the network    *)
(* holds (Truthful), what was collected is what the observers held         *)
(* (Gathered), and of two independent operators one is honest, so that     *)
(* headers that agree are the network's own.                               *)
(*                                                                         *)
(* Batches: a tree's root fixes its leaves and their number's shape, by    *)
(* induction over the claimed size (Inducts), so that only a record's own  *)
(* path folds to the root.                                                 *)
(*                                                                         *)
(* Bundles: a chain of links that starts at the checkpoint is the          *)
(* network's own or broken (OwnOnly), so that what verify accepts is what  *)
(* the network holds; and a verdict, cached or not, is the one of its own  *)
(* reference (PInv).                                                       *)
(***************************************************************************)
EXTENDS Evidence, FiniteSetTheorems, SequenceTheorems, WellFoundedInduction, TLAPS

Stages == Running \cup {"written", "answered", "failed", "gone"}
SomeHeader == [round : Nat, by : {"network", "forger", "nobody"}]
Observation == [at : Stages, round : Nat, header : SomeHeader]

LEMMA Constants ==
  /\ FullWait \in Nat /\ ObserverWait \in Nat /\ Latest \in Nat /\ Interval \in Nat /\ Rounds \in Nat
  BY FastAssumption, ArchiveAssumption

\* An honest operator reports the transaction where it is, and that block's own header.
True(i) ==
  /\ observer[i].at \in {"block", "proof", "written", "answered"} => placed # 0 /\ observer[i].round = placed
  /\ observer[i].at \in {"proof", "written", "answered"} => observer[i].header = Block(placed)

\* The transaction was not confirmed, or was in one of the near rounds, and stays there.
Shaped ==
  /\ operators \in Configurations /\ wait \in Nat /\ now \in Nat /\ placed \in Nat
  /\ observer \in [1 .. 2 -> Observation]

Truthful == \A i \in 1 .. 2 : ~Lies(i) => True(i)

Verdicts == {"collected", "AUTHORIZED", "INVALID"}

\* What was collected is what the two observers held, in time.
Gathered ==
  /\ outcome \in {None, "PENDING", "UNAVAILABLE"} \cup Verdicts
  /\ outcome \in Verdicts =>
       /\ evidence.elapsed \in Nat /\ evidence.elapsed <= wait
       /\ evidence.header = evidence.sources[1].header
       /\ \A i \in 1 .. 2 : ~Lies(i) =>
            /\ placed # 0 /\ evidence.sources[i].round = placed
            /\ evidence.sources[i].header = Block(placed)

\* Only independent operators that agree authorize, and such operators are never found invalid.
Judged ==
  /\ outcome = "AUTHORIZED" => Independent /\ Corroborates(evidence)
  /\ outcome = "INVALID" => ~(Independent /\ Corroborates(evidence))

Quiet == outcome # None => \A i \in 1 .. 2 : observer[i].at \notin Running

IInv == Quiet /\ (outcome = "elsewhere" \/ (Shaped /\ Truthful /\ Gathered /\ Judged))

LEMMA BlockType == ASSUME NEW round \in Nat PROVE Block(round) \in SomeHeader
  BY DEF Block, Header, SomeHeader

LEMMA StartingType == Starting \in Observation /\ Gone(Starting) \in Observation /\ Gone(Starting).at = "gone"
  BY DEF Starting, Gone, Header, Observation, SomeHeader, Stages, Running
LEMMA InitInv == Init => IInv
  <1>1. CASE Confirming
    <2>1. operators \in Configurations /\ wait \in 1 .. FullWait /\ now = 0 /\ placed = 0
          /\ observer = [i \in 1 .. 2 |-> Starting] /\ outcome = None
      BY <1>1 DEF Confirming, FastInit
    <2>2. Shaped BY <2>1, Constants, StartingType DEF Shaped
    <2>3. Truthful BY <2>1 DEF Truthful, True, Starting
    <2>4. None \notin Verdicts BY FastAssumption, Zenon DEF Verdicts
    <2>5. Gathered BY <2>1, <2>4 DEF Gathered
    <2>6. Judged BY <2>1, <2>4 DEF Judged, Verdicts
    <2>7. Quiet BY <2>1 DEF Quiet
    <2> QED BY <2>2, <2>3, <2>5, <2>6, <2>7 DEF IInv
  <1>2. CASE Receiving
    <2>1. outcome = "elsewhere" /\ \A i \in 1 .. 2 : observer[i].at = "gone"
      BY <1>2, StartingType DEF Receiving
    <2> QED BY <2>1 DEF IInv, Quiet, Running
  <1> QED BY <1>1, <1>2 DEF Init

\* A step of the observers or the network before the collection ended.
LEMMA Observing ==
  ASSUME Quiet, Gathered, Judged, outcome' = outcome, evidence' = evidence, wait' = wait,
         UNCHANGED <<operators, liar, batch>>, placed' = placed \/ outcome = None,
         \A i \in 1 .. 2 : observer'[i].at \in Running => observer[i].at \in Running
  PROVE  Quiet' /\ Gathered' /\ Judged'
  <1>1. Quiet' BY DEF Quiet
  <1>2. None \notin Verdicts BY FastAssumption, Zenon DEF Verdicts
  <1>3. CASE outcome = None
    <2>1. Gathered' BY <1>2, <1>3 DEF Gathered
    <2>2. Judged' BY <1>2, <1>3 DEF Judged, Verdicts
    <2> QED BY <1>1, <2>1, <2>2
  <1>4. CASE placed' = placed
    <2>1. Gathered' BY <1>4 DEF Gathered, Lies, Block
    <2>2. Independent' <=> Independent BY DEF Independent
    <2>3. Corroborates(evidence)' <=> Corroborates(evidence)
      BY <1>4 DEF Corroborates, Commits, Payload
    <2>4. Judged' BY <2>2, <2>3 DEF Judged
    <2> QED BY <1>1, <2>1, <2>4
  <1> QED BY <1>3, <1>4

\* The collection ends without evidence.
LEMMA Abandoning ==
  ASSUME Shaped, NEW result \in {"PENDING", "UNAVAILABLE"}, Abandons(result),
         UNCHANGED <<operators, liar, wait, now, placed>>
  PROVE  IInv'
  <1>1. outcome' = result /\ observer' = [i \in 1 .. 2 |-> Gone(Starting)] BY DEF Abandons
  <1>2. Shaped' BY <1>1, StartingType DEF Shaped
  <1>3. \A i \in 1 .. 2 : observer'[i].at = "gone" BY <1>1, StartingType
  <1>4. Truthful' BY <1>3 DEF Truthful, True
  <1>5. Quiet' BY <1>3 DEF Quiet, Running
  <1>6. Gathered' /\ Judged' BY <1>1 DEF Gathered, Judged, Verdicts
  <1> QED BY <1>2, <1>4, <1>5, <1>6 DEF IInv

\* One observer moves on to an observation o that is true if its operator is honest.
LEMMA ObserverMoves ==
  ASSUME Shaped, Truthful, Gathered, Judged, Quiet, NEW i \in 1 .. 2, NEW o \in Observation,
         observer[i].at \in Running, observer' = [observer EXCEPT ![i] = o],
         UNCHANGED <<batch, placed, operators, liar, wait, now, evidence, outcome>>,
         ~Lies(i) => (o.at \in {"block", "proof", "written"} => placed # 0 /\ o.round = placed),
         ~Lies(i) => (o.at \in {"proof", "written"} => o.header = Block(placed)),
         o.at # "answered"
  PROVE  IInv'
  <1>1. Shaped' BY DEF Shaped
  <1>2. observer'[i] = o /\ \A k \in (1 .. 2) \ {i} : observer'[k] = observer[k] BY DEF Shaped
  <1>3. Truthful'
    <2> SUFFICES ASSUME NEW k \in 1 .. 2, ~Lies(k)' PROVE True(k)'
      BY DEF Truthful
    <2>1. ~Lies(k) BY DEF Lies
    <2>2. CASE k = i BY <1>2, <2>1, <2>2 DEF True, Block
    <2>3. CASE k # i BY <1>2, <2>1, <2>3 DEF Truthful, True, Block
    <2> QED BY <2>2, <2>3
  <1>4. \A k \in 1 .. 2 : observer'[k].at \in Running => observer[k].at \in Running
    BY <1>2
  <1>5. Quiet' /\ Gathered' /\ Judged' BY <1>4, Observing
  <1> QED BY <1>1, <1>3, <1>5 DEF IInv

LEMMA ReadsKeep ==
  ASSUME Shaped, Truthful, Gathered, Judged, Quiet, NEW i \in 1 .. 2,
         ReadPending(i) \/ ReadBlock(i) \/ ReadProof(i) \/ ObserverFails(i)
  PROVE  IInv'
  <1>0. observer[i] \in Observation /\ placed \in Nat BY DEF Shaped
  <1>1. CASE ReadPending(i)
    <2>1. PICK round \in IF Lies(i) THEN NearRounds ELSE {placed} \ {0} :
            Reads(i, "pending", [observer[i] EXCEPT !.at = "block", !.round = round])
      BY <1>1 DEF ReadPending
    <2> DEFINE o == [observer[i] EXCEPT !.at = "block", !.round = round]
    <2>2. round \in Nat BY <1>0, <2>1, Constants DEF NearRounds
    <2>3. o \in Observation /\ o.at = "block" /\ o.round = round
      BY <1>0, <2>2 DEF Observation, Stages, Running
    <2>4. ~Lies(i) => placed # 0 /\ round = placed BY <2>1
    <2>5. /\ observer[i].at \in Running /\ observer' = [observer EXCEPT ![i] = o]
          /\ UNCHANGED <<batch, placed, operators, liar, wait, now, evidence, outcome>>
      BY <2>1 DEF Reads, Running
    <2> HIDE DEF o
    <2> QED BY <2>3, <2>4, <2>5, ObserverMoves
  <1>2. CASE ReadBlock(i)
    <2>1. PICK header \in IF Lies(i) THEN {h \in Headers : h.round \in NearRounds} ELSE {Block(observer[i].round)} :
            Reads(i, "block", [observer[i] EXCEPT !.at = "proof", !.header = header])
      BY <1>2 DEF ReadBlock
    <2> DEFINE o == [observer[i] EXCEPT !.at = "proof", !.header = header]
    <2>2. header \in SomeHeader
      <3>1. CASE Lies(i)
        <4>1. header \in Headers BY <2>1, <3>1
        <4> QED BY <4>1, Constants DEF Headers, Header, SomeHeader
      <3>2. CASE ~Lies(i)
        <4>1. header = Block(observer[i].round) BY <2>1, <3>2
        <4>2. observer[i].round \in Nat BY <1>0 DEF Observation
        <4> QED BY <4>1, <4>2, BlockType
      <3> QED BY <3>1, <3>2
    <2>3. o \in Observation /\ o.at = "proof" /\ o.round = observer[i].round /\ o.header = header
      BY <1>0, <2>2 DEF Observation, Stages, Running
    <2>4. /\ observer[i].at = "block" /\ observer[i].at \in Running /\ observer' = [observer EXCEPT ![i] = o]
          /\ UNCHANGED <<batch, placed, operators, liar, wait, now, evidence, outcome>>
      BY <2>1 DEF Reads, Running
    <2>5. ~Lies(i) => placed # 0 /\ o.round = placed BY <2>3, <2>4 DEF Truthful, True
    <2>6. ~Lies(i) => o.header = Block(placed) BY <2>1, <2>3, <2>5
    <2> HIDE DEF o
    <2> QED BY <2>3, <2>4, <2>5, <2>6, ObserverMoves
  <1>3. CASE ReadProof(i)
    <2> DEFINE o == [observer[i] EXCEPT !.at = "written"]
    <2>1. /\ observer[i].at = "proof" /\ observer[i].at \in Running /\ observer' = [observer EXCEPT ![i] = o]
          /\ UNCHANGED <<batch, placed, operators, liar, wait, now, evidence, outcome>>
      BY <1>3 DEF ReadProof, Reads, Running
    <2>2. o \in Observation /\ o.at = "written" /\ o.round = observer[i].round /\ o.header = observer[i].header
      BY <1>0 DEF Observation, Stages
    <2>3. ~Lies(i) => placed # 0 /\ o.round = placed /\ o.header = Block(placed)
      BY <2>1, <2>2 DEF Truthful, True
    <2> HIDE DEF o
    <2> QED BY <2>1, <2>2, <2>3, ObserverMoves
  <1>4. CASE ObserverFails(i)
    <2> DEFINE o == [Starting EXCEPT !.at = "failed"]
    <2>1. /\ observer[i].at \in Running /\ observer' = [observer EXCEPT ![i] = o]
          /\ UNCHANGED <<batch, placed, operators, liar, wait, now, evidence, outcome>>
      BY <1>4 DEF ObserverFails
    <2>2. o \in Observation /\ o.at = "failed"
      BY StartingType DEF Observation, Stages
    <2> HIDE DEF o
    <2> QED BY <2>1, <2>2, ObserverMoves
  <1> QED BY <1>1, <1>2, <1>3, <1>4
\* The last of the two answers: too late, or the evidence is what both hold.
LEMMA Collecting ==
  ASSUME Shaped, Truthful, \A i \in 1 .. 2 : observer[i].at \in {"written", "answered"},
         AllAnswered, UNCHANGED <<batch, placed, operators, liar, wait, now>>
  PROVE  IInv'
  <1>1. CASE now > wait
    <2>1. Abandons("PENDING") BY <1>1 DEF AllAnswered
    <2> QED BY <2>1, Abandoning
  <1>2. CASE ~(now > wait)
    <2>1. /\ evidence' = [header |-> observer[1].header, sources |-> [i \in 1 .. 2 |-> Gone(observer[i])],
                          elapsed |-> now]
          /\ Abandons("collected")
      BY <1>2 DEF AllAnswered
    <2>2. outcome' = "collected" /\ observer' = [i \in 1 .. 2 |-> Gone(Starting)]
      BY <2>1 DEF Abandons
    <2>3. Shaped' BY <2>2, StartingType DEF Shaped
    <2>4. \A i \in 1 .. 2 : observer'[i].at = "gone" BY <2>2, StartingType
    <2>5. Truthful' /\ Quiet' BY <2>4 DEF Truthful, True, Quiet, Running
    <2>6. ASSUME NEW i \in 1 .. 2
          PROVE  /\ evidence'.sources[i].header = observer[i].header
                 /\ evidence'.sources[i].round = observer[i].round
      <3>1. evidence'.sources[i] = Gone(observer[i]) BY <2>1
      <3>2. observer[i] \in Observation BY DEF Shaped
      <3>3. Gone(observer[i]).header = observer[i].header /\ Gone(observer[i]).round = observer[i].round
        BY <3>2 DEF Gone, Observation
      <3> QED BY <3>1, <3>3
    <2>7. evidence'.elapsed = now /\ evidence'.header = observer[1].header BY <2>1
    <2>8. now \in Nat /\ wait \in Nat BY DEF Shaped
    <2>9. evidence'.elapsed \in Nat /\ evidence'.elapsed <= wait BY <1>2, <2>7, <2>8
    <2>10. evidence'.header = evidence'.sources[1].header BY <2>6, <2>7
    <2>11. ASSUME NEW i \in 1 .. 2, ~Lies(i)'
           PROVE  /\ placed # 0 /\ evidence'.sources[i].round = placed
                  /\ evidence'.sources[i].header = Block(placed)
      <3>1. True(i) BY <2>11 DEF Truthful, Lies
      <3> QED BY <2>6, <3>1 DEF True
    <2>12. Gathered' BY <2>2, <2>9, <2>10, <2>11 DEF Gathered, Verdicts, Block
    <2>13. Judged' BY <2>2 DEF Judged
    <2> QED BY <2>3, <2>5, <2>12, <2>13 DEF IInv
  <1> QED BY <1>1, <1>2

LEMMA ClosesKeeps ==
  ASSUME Shaped, Truthful, Gathered, Judged, Quiet, NEW i \in 1 .. 2, ChildCloses(i)
  PROVE  IInv'
  <1>1. outcome = None /\ UNCHANGED <<batch, placed, operators, liar, wait, now>>
    BY DEF ChildCloses
  <1>2. CASE Abandons("PENDING") BY <1>1, <1>2, Abandoning
  <1>3. CASE observer[i].at = "written" /\ observer[3 - i].at = "answered" /\ AllAnswered
    <2>1. \A k \in 1 .. 2 : k = i \/ k = 3 - i OBVIOUS
    <2>2. \A k \in 1 .. 2 : observer[k].at \in {"written", "answered"} BY <1>3, <2>1
    <2> QED BY <1>1, <1>3, <2>2, Collecting
  <1>4. CASE /\ observer[i].at = "written" /\ observer' = [observer EXCEPT ![i].at = "answered"]
             /\ UNCHANGED <<evidence, outcome>>
    <2>0. observer[i] \in Observation BY DEF Shaped
    <2> DEFINE o == [observer[i] EXCEPT !.at = "answered"]
    <2>1. o \in Observation /\ o.at = "answered" /\ o.round = observer[i].round /\ o.header = observer[i].header
      BY <2>0 DEF Observation, Stages
    <2>2. observer' = [observer EXCEPT ![i] = o] BY <1>4
    <2> HIDE DEF o
    <2>3. observer'[i] = o /\ \A k \in (1 .. 2) \ {i} : observer'[k] = observer[k] BY <2>2 DEF Shaped
    <2>4. Shaped' BY <1>1, <2>1, <2>2 DEF Shaped
    <2>5. Truthful'
      <3> SUFFICES ASSUME NEW k \in 1 .. 2, ~Lies(k)' PROVE True(k)'
        BY DEF Truthful
      <3>1. True(k) BY <1>1 DEF Truthful, Lies
      <3>2. CASE k = i BY <1>1, <1>4, <2>1, <2>3, <3>1, <3>2 DEF True, Block
      <3>3. CASE k # i BY <1>1, <2>3, <3>1, <3>3 DEF True, Block
      <3> QED BY <3>2, <3>3
    <2>6. \A k \in 1 .. 2 : observer'[k].at \in Running => observer[k].at \in Running
      BY <2>1, <2>3 DEF Running
    <2>7. Quiet' /\ Gathered' /\ Judged' BY <1>1, <1>4, <2>6, Observing
    <2> QED BY <2>4, <2>5, <2>7 DEF IInv
  <1> QED BY <1>2, <1>3, <1>4 DEF ChildCloses

\* Two independent operators that tell the truth are corroborated.
LEMMA HonestAgree ==
  ASSUME Shaped, Gathered, outcome \in Verdicts, liar = None
  PROVE  Corroborates(evidence)
  <1>1. \A i \in 1 .. 2 : ~Lies(i) BY DEF Lies
  <1>2. \A i \in 1 .. 2 : evidence.sources[i].round = placed /\ evidence.sources[i].header = Block(placed)
    BY <1>1 DEF Gathered
  <1>3. evidence.header = Block(placed) BY <1>2 DEF Gathered
  <1>4. Block(placed).round = placed BY DEF Block, Header
  <1>5. Commits(evidence.header, Payload) BY <1>3, <1>4 DEF Commits
  <1> QED BY <1>2, <1>3, <1>4, <1>5 DEF Corroborates

\* Of two independent operators the liar is behind one at most.
LEMMA OneIsHonest ==
  ASSUME Shaped, Independent
  PROVE  \E i \in 1 .. 2 : ~Lies(i)
  <1>1. operators[1].organization # operators[2].organization BY DEF Independent
  <1>2. operators[1].host # operators[2].host
    <2>1. SUFFICES ASSUME operators[1].host = operators[2].host PROVE FALSE
      OBVIOUS
    <2>2. {operators[1].host, operators[2].host, Application} = {operators[1].host, Application}
      BY <2>1
    <2>3. Cardinality({operators[1].host, Application}) # 3
      <3> DEFINE one == {operators[1].host}
      <3>1. IsFiniteSet(one) /\ Cardinality(one) = 1 BY FS_Singleton
      <3>2. Cardinality(one \cup {Application}) \in {1, 2} BY <3>1, FS_AddElement
      <3>3. one \cup {Application} = {operators[1].host, Application} OBVIOUS
      <3> QED BY <3>2, <3>3
    <2> QED BY <2>2, <2>3 DEF Independent
  <1>3. operators[1].organization # operators[2].host /\ operators[2].organization # operators[1].host
    BY DEF Shaped, Configurations, Operator, Application
  <1>4. SUFFICES ASSUME Lies(1), Lies(2) PROVE FALSE
    OBVIOUS
  <1>5. liar \in {operators[1].organization, operators[1].host}
        /\ liar \in {operators[2].organization, operators[2].host}
    BY <1>4 DEF Lies
  <1> QED BY <1>1, <1>2, <1>3, <1>5

LEMMA VerifiedKeeps ==
  ASSUME Shaped, Truthful, Gathered, Judged, Quiet, Verified
  PROVE  IInv'
  <1>1. /\ outcome = "collected"
        /\ UNCHANGED <<batch, placed, operators, liar, wait, now, observer, evidence>>
        /\ outcome' \in {IF evidence.elapsed > FullWait THEN "PENDING"
                         ELSE IF Independent /\ Corroborates(evidence) THEN "AUTHORIZED" ELSE "INVALID",
                         "UNAVAILABLE"}
    BY DEF Verified
  <1>2. /\ outcome' \in {"PENDING", "AUTHORIZED", "INVALID", "UNAVAILABLE"}
        /\ outcome' = "AUTHORIZED" => Independent /\ Corroborates(evidence)
        /\ outcome' = "INVALID" => ~(Independent /\ Corroborates(evidence))
    BY <1>1
  <1>3. Shaped' BY <1>1 DEF Shaped
  <1>4. Truthful' BY <1>1 DEF Truthful, Lies, True, Block
  <1>5. Gathered' BY <1>1, <1>2 DEF Gathered, Verdicts, Lies, Block
  <1>6. Independent' <=> Independent BY <1>1 DEF Independent
  <1>7. Corroborates(evidence)' <=> Corroborates(evidence) BY <1>1 DEF Corroborates, Commits, Payload
  <1>8. Judged' BY <1>2, <1>6, <1>7 DEF Judged
  <1>9. outcome # None BY <1>1, FastAssumption, Zenon
  <1>10. Quiet' BY <1>1, <1>9 DEF Quiet
  <1> QED BY <1>3, <1>4, <1>5, <1>8, <1>10 DEF IInv

LEMMA StepInv == IInv /\ [Next]_vars => IInv'
  <1> SUFFICES ASSUME IInv, [Next]_vars PROVE IInv'
    OBVIOUS
  <1>1. CASE outcome = "elsewhere"
    <2>1. outcome' = outcome /\ observer' = observer BY <1>1 DEF Next, vars, fastVars
    <2> QED BY <1>1, <2>1 DEF IInv, Quiet
  <1>2. CASE outcome # "elsewhere" /\ FastNext
    <2>0. Shaped /\ Truthful /\ Gathered /\ Judged /\ Quiet BY <1>2 DEF IInv
    <2>1. CASE Tick
      <3>1. /\ now' = now + 1
            /\ UNCHANGED <<batch, placed, operators, liar, wait, observer, evidence, outcome>>
        BY <2>1 DEF Tick
      <3>2. Shaped' BY <2>0, <3>1 DEF Shaped
      <3>3. Truthful' BY <2>0, <3>1 DEF Truthful, Lies, True, Block
      <3>4. Quiet' /\ Gathered' /\ Judged' BY <2>0, <3>1, Observing
      <3> QED BY <3>2, <3>3, <3>4 DEF IInv
    <2>2. ASSUME NEW round \in NearRounds, Confirmed(round) PROVE IInv'
      <3>1. /\ placed = 0 /\ placed' = round /\ outcome = None
            /\ UNCHANGED <<batch, operators, liar, wait, now, observer, evidence, outcome>>
        BY <2>2 DEF Confirmed
      <3>2. round \in Nat BY Constants DEF NearRounds
      <3>3. Shaped' BY <2>0, <3>1, <3>2 DEF Shaped
      <3>4. Truthful' BY <2>0, <3>1 DEF Truthful, Lies, True
      <3>5. Quiet' /\ Gathered' /\ Judged' BY <2>0, <3>1, Observing
      <3> QED BY <3>3, <3>4, <3>5 DEF IInv
    <2>3. ASSUME NEW i \in 1 .. 2, ReadPending(i) \/ ReadBlock(i) \/ ReadProof(i) \/ ObserverFails(i)
          PROVE  IInv'
      BY <2>0, <2>3, ReadsKeep
    <2>4. ASSUME NEW i \in 1 .. 2, ChildCloses(i) PROVE IInv'
      BY <2>0, <2>4, ClosesKeeps
    <2>5. CASE TimerFires
      <3>1. Abandons("PENDING") /\ UNCHANGED <<operators, liar, wait, now, placed>>
        BY <2>5 DEF TimerFires
      <3> QED BY <2>0, <3>1, Abandoning
    <2>6. CASE Verified BY <2>0, <2>6, VerifiedKeeps
    <2> QED BY <1>2, <2>1, <2>2, <2>3, <2>4, <2>5, <2>6 DEF FastNext
  <1>3. CASE outcome # "elsewhere" /\ UNCHANGED vars
    <2>0. Shaped /\ Truthful /\ Gathered /\ Judged /\ Quiet BY <1>3 DEF IInv
    <2>1. UNCHANGED <<batch, placed, operators, liar, wait, now, observer, evidence, outcome>>
      BY <1>3 DEF vars, fastVars
    <2>2. Shaped' BY <2>0, <2>1 DEF Shaped
    <2>3. Truthful' BY <2>0, <2>1 DEF Truthful, Lies, True, Block
    <2>4. Quiet' /\ Gathered' /\ Judged' BY <2>0, <2>1, Observing
    <2> QED BY <2>2, <2>3, <2>4 DEF IInv
  <1> QED BY <1>1, <1>2, <1>3 DEF Next

LEMMA Always == Spec => []IInv
  <1> QED BY InitInv, StepInv, PTL DEF Spec
-----------------------------------------------------------------------------
\* For every interval, budget and whatever one party answers, at whatever time answers, timer and
\* ends arrive: evidence that authorizes names the block the transaction is in and came within the
\* budget, and two honest operators are never found invalid (verifyFast, collectFastEvidence).
THEOREM AuthorizedIsTrue == Spec => []ConfirmationSound
  <1>1. ASSUME IInv PROVE ConfirmationSound
    <2>1. CASE outcome = "elsewhere" BY <2>1 DEF ConfirmationSound
    <2>2. CASE Shaped /\ Gathered /\ Judged
      <3>1. ASSUME outcome = "AUTHORIZED"
            PROVE  evidence.header = Block(placed) /\ evidence.elapsed <= wait
        <4>1. Independent /\ Corroborates(evidence) BY <2>2, <3>1 DEF Judged
        <4>2. PICK i \in 1 .. 2 : ~Lies(i) BY <2>2, <4>1, OneIsHonest
        <4>3. evidence.sources[i].header = evidence.header BY <4>1 DEF Corroborates
        <4>4. evidence.sources[i].header = Block(placed) /\ evidence.elapsed <= wait
          BY <2>2, <3>1, <4>2 DEF Gathered, Verdicts
        <4> QED BY <4>3, <4>4
      <3>2. ASSUME liar = None, Independent PROVE outcome # "INVALID"
        BY <2>2, <3>2, HonestAgree DEF Judged, Verdicts
      <3> QED BY <3>1, <3>2 DEF ConfirmationSound
    <2> QED BY <1>1, <2>1, <2>2 DEF IInv
  <1>2. IInv => ConfirmationSound BY <1>1
  <1> QED BY <1>2, Always, PTL

\* Once a collection has ended no observer runs on, neither the one that lost the race nor one that
\* failed (Abandons).
THEOREM NobodyRunsOn == Spec => [](outcome # None => \A i \in 1 .. 2 : observer[i].at \notin Running)
  <1> DEFINE Ended == outcome # None => \A i \in 1 .. 2 : observer[i].at \notin Running
  <1>1. IInv => Ended
    <2> SUFFICES ASSUME IInv PROVE Ended
      OBVIOUS
    <2> QED BY DEF IInv, Quiet
  <1> QED BY <1>1, Always, PTL
-----------------------------------------------------------------------------
(* Batches and inclusion proofs.                                           *)

\* Course-of-values induction, for sets of numbers.
LEMMA Inducts ==
  ASSUME NEW S, S \subseteq Nat, \A n \in Nat : (\A m \in 0 .. n - 1 : m \in S) => n \in S
  PROVE  \A n \in Nat : n \in S
  <1> DEFINE less == OpToRel(<, Nat)
  <1> DEFINE T == Nat \ S
  <1>1. SUFFICES ASSUME T # {} PROVE FALSE
    OBVIOUS
  <1>2. IsWellFoundedOn(less, Nat) BY NatLessThanWellFounded, Zenon
  <1>3. \A x, y \in Nat : y < x => <<y, x>> \in less BY DEF OpToRel
  <1> HIDE DEF less
  <1>4. PICK x \in T : \A y \in T : <<y, x>> \notin less BY <1>1, <1>2, WFMin
  <1>5. \A m \in 0 .. x - 1 : m \in S
    <2> SUFFICES ASSUME NEW m \in 0 .. x - 1, m \notin S PROVE FALSE
      OBVIOUS
    <2>1. m \in T /\ m < x /\ x \in Nat /\ m \in Nat BY <1>4
    <2> QED BY <1>3, <1>4, <2>1
  <1> QED BY <1>4, <1>5

LEMMA Most == MaxBatchSize = 512
  BY DEF MaxBatchSize

\* The split of two or more is the one power of two that is below and at least half.
LEMMA SplitIs ==
  ASSUME NEW n \in 2 .. MaxBatchSize
  PROVE  /\ split(n) \in Widths /\ split(n) \in 1 .. n - 1 /\ n <= 2 * split(n)
         /\ \A w \in Widths : w < n /\ n <= 2 * w => split(n) = w
  <1> DEFINE S == {w \in Widths : w < n}
  <1>1. PICK x \in Widths : x < n /\ n <= 2 * x BY Most DEF Widths
  <1>2. \A y \in S : y <= x BY <1>1 DEF Widths
  <1>3. split(n) \in S /\ \A y \in S : split(n) >= y
    <2>1. \E z \in S : \A y \in S : z >= y BY <1>1, <1>2 DEF Widths
    <2> QED BY <2>1, Zenon DEF split, Max
  <1>4. split(n) = x BY <1>1, <1>2, <1>3 DEF Widths
  <1> QED BY <1>1, <1>4 DEF Widths

LEMMA LeafInjective == \A a, b : leaf(a) = leaf(b) => a = b
  BY DEF leaf
LEMMA BranchInjective == \A a, b, c, d : branch(a, b) = branch(c, d) => a = c /\ b = d
  BY DEF branch
LEMMA LeafIsNoBranch == \A a, b, c : leaf(a) # branch(b, c)
  BY DEF leaf, branch
LEMMA NotTruncated == \A a, b : leaf(a) # <<"truncated">> /\ branch(a, b) # <<"truncated">>
  BY DEF leaf, branch
-----------------------------------------------------------------------------
(* The recursions have solutions, so that each slice is what its halves make of it. *)

Batch(e) == Len(e) \in Nat /\ Len(e) <= MaxBatchSize

RootOf(e, of, from, to) ==
  IF to <= from THEN <<"empty">>
  ELSE IF to = from + 1 THEN leaf(e[to])
  ELSE branch(of[<<from, Middle(from, to)>>], of[<<Middle(from, to), to>>])

LEMMA MiddleIs ==
  ASSUME NEW from \in Nat, NEW to \in Nat, to > from + 1, to - from <= MaxBatchSize
  PROVE  Middle(from, to) \in from + 1 .. to - 1
  <1>1. to - from \in 2 .. MaxBatchSize OBVIOUS
  <1>2. split(to - from) \in 1 .. (to - from) - 1 BY <1>1, SplitIs
  <1> QED BY <1>2 DEF Middle

LEMMA RootExists ==
  ASSUME NEW e, Batch(e)
  PROVE  \E of : of = [part \in Parts(e) |-> RootOf(e, of, part[1], part[2])]
  <1> DEFINE L == Len(e)
             Solves(of, n) == \A from, to \in 0 .. L : to - from <= n => of[<<from, to>>] = RootOf(e, of, from, to)
             S == {n \in Nat : \E of : Solves(of, n)}
  <1>0. L \in Nat /\ L <= MaxBatchSize BY DEF Batch
  <1>1. ASSUME NEW n \in Nat, \A m \in 0 .. n - 1 : m \in S PROVE n \in S
    <2>1. \E of : n > 0 => Solves(of, n - 1)
      <3>1. CASE n > 0
        <4>1. n - 1 \in 0 .. n - 1 BY <3>1
        <4>2. n - 1 \in S BY <1>1, <4>1
        <4> QED BY <4>2
      <3> QED BY <3>1
    <2>2. PICK of : n > 0 => Solves(of, n - 1) BY <2>1
    <2> DEFINE more == [part \in Parts(e) |-> RootOf(e, of, part[1], part[2])]
    <2>3. ASSUME NEW from \in 0 .. L, NEW to \in 0 .. L
          PROVE  more[<<from, to>>] = RootOf(e, of, from, to)
      <3>1. <<from, to>> \in Parts(e) BY DEF Parts
      <3> QED BY <3>1
    <2> HIDE DEF more
    <2>4. Solves(more, n)
      <3> SUFFICES ASSUME NEW from \in 0 .. L, NEW to \in 0 .. L, to - from <= n
                   PROVE  more[<<from, to>>] = RootOf(e, more, from, to)
        OBVIOUS
      <3>1. CASE to <= from + 1 BY <1>0, <2>3, <3>1 DEF RootOf
      <3>2. CASE to > from + 1
        <4> DEFINE mid == Middle(from, to)
        <4>1. mid \in from + 1 .. to - 1 BY <1>0, <3>2, MiddleIs, Most
        <4> HIDE DEF mid
        <4>2. mid \in 0 .. L /\ mid - from <= n - 1 /\ to - mid <= n - 1 /\ n > 0 BY <1>0, <3>2, <4>1
        <4>3. Solves(of, n - 1) BY <2>2, <4>2
        <4>4. of[<<from, mid>>] = RootOf(e, of, from, mid) /\ of[<<mid, to>>] = RootOf(e, of, mid, to)
          BY <4>2, <4>3
        <4>5. more[<<from, mid>>] = of[<<from, mid>>] /\ more[<<mid, to>>] = of[<<mid, to>>]
          BY <2>3, <4>2, <4>4
        <4>6. RootOf(e, more, from, to) = RootOf(e, of, from, to) BY <4>5 DEF RootOf, mid
        <4> QED BY <2>3, <4>6
      <3> QED BY <1>0, <3>1, <3>2
    <2> QED BY <2>4
  <1> HIDE DEF Solves
  <1>2. \A n \in Nat : n \in S
    <2>1. S \subseteq Nat OBVIOUS
    <2> HIDE DEF S
    <2> QED BY <1>1, <2>1, Inducts
  <1>3. PICK of : Solves(of, L) BY <1>0, <1>2
  <1> DEFINE all == [part \in Parts(e) |-> of[part]]
  <1>4. ASSUME NEW from \in 0 .. L, NEW to \in 0 .. L
        PROVE  all[<<from, to>>] = of[<<from, to>>]
    <2>1. <<from, to>> \in Parts(e) BY DEF Parts
    <2> QED BY <2>1
  <1>5. ASSUME NEW from \in 0 .. L, NEW to \in 0 .. L
        PROVE  all[<<from, to>>] = RootOf(e, all, from, to)
    <2>1. of[<<from, to>>] = RootOf(e, of, from, to) BY <1>0, <1>3 DEF Solves
    <2>2. RootOf(e, all, from, to) = RootOf(e, of, from, to)
      <3>1. CASE to <= from + 1 BY <3>1, <1>0 DEF RootOf
      <3>2. CASE to > from + 1
        <4>0. from \in Nat /\ to \in Nat /\ to - from <= MaxBatchSize BY <1>0, Most
        <4>1. Middle(from, to) \in from + 1 .. to - 1 BY <3>2, <4>0, MiddleIs
        <4>2. Middle(from, to) \in 0 .. L BY <1>0, <4>1
        <4> HIDE DEF all
        <4> QED BY <1>4, <4>2 DEF RootOf
      <3> QED BY <1>0, <3>1, <3>2
    <2> QED BY <1>4, <2>1, <2>2
  <1>6. \A part \in Parts(e) : all[part] = RootOf(e, all, part[1], part[2])
    <2> HIDE DEF all
    <2> QED BY <1>5 DEF Parts
  <1>7. all = [part \in Parts(e) |-> all[part]] OBVIOUS
  <1> HIDE DEF all
  <1>8. all = [part \in Parts(e) |-> RootOf(e, all, part[1], part[2])] BY <1>6, <1>7
  <1> QED BY <1>8

SliceRoot(e, from, to) == root(e)[<<from, to>>]

\* A slice's root is the hash of nothing, of its leaf, or of its halves' roots (root).
LEMMA RootIs ==
  ASSUME NEW e, Batch(e), NEW from \in 0 .. Len(e), NEW to \in 0 .. Len(e)
  PROVE  /\ to <= from => SliceRoot(e, from, to) = <<"empty">>
         /\ to = from + 1 => SliceRoot(e, from, to) = leaf(e[to])
         /\ to > from + 1 => SliceRoot(e, from, to) = branch(SliceRoot(e, from, Middle(from, to)), SliceRoot(e, Middle(from, to), to))
  <1> DEFINE Solution(of) == of = [part \in Parts(e) |-> RootOf(e, of, part[1], part[2])]
  <1>1. root(e) = CHOOSE of : Solution(of) BY Zenon DEF root, RootOf
  <1>2. \E of : Solution(of) BY RootExists
  <1>3. Solution(root(e)) BY <1>1, <1>2, Zenon
  <1>4. <<from, to>> \in Parts(e) BY DEF Parts
  <1>5. SliceRoot(e, from, to) = RootOf(e, root(e), from, to) BY <1>3, <1>4 DEF SliceRoot
  <1> QED BY <1>5 DEF RootOf, SliceRoot, Batch

LEMMA SliceIs ==
  ASSUME NEW D, NEW e \in Seq(D), NEW a \in 0 .. Len(e), NEW b \in a .. Len(e)
  PROVE  /\ SubSeq(e, a + 1, b) \in Seq(D) /\ Len(SubSeq(e, a + 1, b)) = b - a
         /\ \A i \in 1 .. b - a : SubSeq(e, a + 1, b)[i] = e[a + i]
  <1>1. a + 1 \in Int /\ b \in Int BY LenProperties
  <1>2. \A i \in a + 1 .. b : e[i] \in D BY ElementOfSeq, LenProperties
  <1>3. /\ SubSeq(e, a + 1, b) \in Seq(D)
        /\ Len(SubSeq(e, a + 1, b)) = IF a + 1 <= b THEN b - (a + 1) + 1 ELSE 0
        /\ \A i \in 1 .. b - (a + 1) + 1 : SubSeq(e, a + 1, b)[i] = e[a + 1 + i - 1]
    BY <1>1, <1>2, SubSeqProperties
  <1>4. Len(e) \in Nat /\ a \in Nat /\ b \in Nat /\ a <= b BY LenProperties
  <1>5. b - (a + 1) + 1 = b - a /\ (IF a + 1 <= b THEN b - (a + 1) + 1 ELSE 0) = b - a BY <1>4
  <1>6. \A i \in 1 .. b - a : a + 1 + i - 1 = a + i BY <1>4
  <1> QED BY <1>3, <1>5, <1>6

\* A slice has the root it has as a batch of its own (merkleRoot of a slice in inclusion).
LEMMA SliceRootIs ==
  ASSUME NEW D, NEW e \in Seq(D), Batch(e), NEW a \in 0 .. Len(e), NEW b \in a .. Len(e)
  PROVE  merkleRoot(SubSeq(e, a + 1, b)) = SliceRoot(e, a, b)
  <1> DEFINE s == SubSeq(e, a + 1, b)
             S == {n \in Nat : \A from, to \in 0 .. b - a : to - from <= n => SliceRoot(s, from, to) = SliceRoot(e, a + from, a + to)}
  <1>0. Len(e) \in Nat /\ Len(e) <= MaxBatchSize /\ a \in Nat /\ b \in Nat /\ a <= b /\ b <= Len(e)
    BY DEF Batch
  <1>1. s \in Seq(D) /\ Len(s) = b - a /\ \A i \in 1 .. b - a : s[i] = e[a + i]
    BY SliceIs
  <1>2. Batch(s) BY <1>0, <1>1, Most DEF Batch
  <1> HIDE DEF s
  <1>3. ASSUME NEW n \in Nat, \A m \in 0 .. n - 1 : m \in S PROVE n \in S
    <2> SUFFICES ASSUME NEW from \in 0 .. b - a, NEW to \in 0 .. b - a, to - from <= n
                 PROVE  SliceRoot(s, from, to) = SliceRoot(e, a + from, a + to)
      OBVIOUS
    <2>0. from \in Nat /\ to \in Nat /\ a + from \in 0 .. Len(e) /\ a + to \in 0 .. Len(e) BY <1>0
    <2>1. CASE to <= from
      <3>1. a + to <= a + from BY <1>0, <2>0, <2>1
      <3>2. SliceRoot(s, from, to) = <<"empty">> BY <1>1, <1>2, <2>1, RootIs
      <3>3. SliceRoot(e, a + from, a + to) = <<"empty">> BY <2>0, <3>1, RootIs
      <3> QED BY <3>2, <3>3
    <2>2. CASE to = from + 1
      <3>1. a + to = (a + from) + 1 /\ to \in 1 .. b - a BY <1>0, <2>0, <2>2
      <3>2. s[to] = e[a + to] BY <1>1, <3>1
      <3>3. SliceRoot(s, from, to) = leaf(s[to]) BY <1>1, <1>2, <2>2, RootIs
      <3>4. SliceRoot(e, a + from, a + to) = leaf(e[a + to]) BY <2>0, <3>1, RootIs
      <3> QED BY <3>2, <3>3, <3>4
    <2>3. CASE to > from + 1
      <3> DEFINE mid == Middle(from, to)
      <3>1. mid \in from + 1 .. to - 1
        <4>1. to - from <= MaxBatchSize BY <1>0, <2>0, Most
        <4> QED BY <2>0, <2>3, <4>1, MiddleIs
      <3>2. Middle(a + from, a + to) = a + mid
        <4>1. (a + to) - (a + from) = to - from BY <1>0, <2>0
        <4>2. split(to - from) \in Nat
          <5>1. to - from \in 2 .. MaxBatchSize BY <1>0, <2>0, <2>3, Most
          <5>2. split(to - from) \in 1 .. (to - from) - 1 BY <5>1, SplitIs
          <5> QED BY <5>2
        <4> QED BY <1>0, <2>0, <4>1, <4>2 DEF Middle
      <3> HIDE DEF mid
      <3>3. mid \in 0 .. b - a /\ n - 1 \in 0 .. n - 1 /\ mid - from <= n - 1 /\ to - mid <= n - 1
            /\ a + to > (a + from) + 1
        BY <1>0, <2>0, <2>3, <3>1
      <3>4. SliceRoot(s, from, mid) = SliceRoot(e, a + from, a + mid) /\ SliceRoot(s, mid, to) = SliceRoot(e, a + mid, a + to)
        BY <1>3, <3>3
      <3>5. SliceRoot(s, from, to) = branch(SliceRoot(s, from, mid), SliceRoot(s, mid, to))
        BY <1>1, <1>2, <2>3, RootIs DEF mid
      <3>6. SliceRoot(e, a + from, a + to) = branch(SliceRoot(e, a + from, a + mid), SliceRoot(e, a + mid, a + to))
        BY <2>0, <3>2, <3>3, RootIs
      <3> QED BY <3>4, <3>5, <3>6
    <2> QED BY <2>0, <2>1, <2>2, <2>3
  <1>4. \A n \in Nat : n \in S
    <2>1. S \subseteq Nat OBVIOUS
    <2> HIDE DEF S
    <2> QED BY <1>3, <2>1, Inducts
  <1>5. b - a \in Nat /\ 0 \in 0 .. b - a /\ b - a \in 0 .. b - a BY <1>0
  <1>6. b - a \in S BY <1>4, <1>5
  <1>7. (b - a) - 0 <= b - a BY <1>0
  <1>8. SliceRoot(s, 0, b - a) = SliceRoot(e, a + 0, a + (b - a)) BY <1>5, <1>6, <1>7
  <1>9. a + 0 = a /\ a + (b - a) = b BY <1>0
  <1> QED BY <1>1, <1>8, <1>9 DEF merkleRoot, SliceRoot, s

-----------------------------------------------------------------------------
(* reconstruct.                                                            *)

UpOf(d, s, up, n, index) ==
  LET k     == split(n)
      child == IF index < k THEN up[<<k, index>>] ELSE up[<<n - k, index - k>>]
  IN IF n = 1 THEN [hash |-> leaf(d), used |-> 0]
     ELSE IF child.used >= Len(s) THEN [hash |-> <<"truncated">>, used |-> Len(s) + 1]
     ELSE [hash |-> IF index < k THEN branch(child.hash, s[child.used + 1])
                                 ELSE branch(s[child.used + 1], child.hash),
           used |-> child.used + 1]

Places(size) == (1 .. size) \X (0 .. size - 1)

\* Where a place's child is, in a smaller tree.
LEMMA ChildIs ==
  ASSUME NEW size \in 1 .. MaxBatchSize, NEW n \in 2 .. size, NEW index \in 0 .. size - 1
  PROVE  /\ split(n) \in 1 .. n - 1
         /\ index < split(n) => <<split(n), index>> \in Places(size)
         /\ ~(index < split(n)) =>
              n - split(n) \in 1 .. n - 1 /\ index - split(n) \in 0 .. size - 1
              /\ <<n - split(n), index - split(n)>> \in Places(size)
  <1>1. n \in 2 .. MaxBatchSize BY Most
  <1>2. split(n) \in 1 .. n - 1 BY <1>1, SplitIs
  <1>3. split(n) \in 1 .. size BY <1>2
  <1>4. ASSUME ~(index < split(n))
        PROVE n - split(n) \in 1 .. n - 1 /\ index - split(n) \in 0 .. size - 1 /\ n - split(n) \in 1 .. size
    BY <1>2, <1>4
  <1> QED BY <1>2, <1>3, <1>4 DEF Places

Agree(f, g, n, size) == \A m \in 1 .. n - 1, i \in 0 .. size - 1 : f[<<m, i>>] = g[<<m, i>>]

LEMMA UpReads ==
  ASSUME NEW d, NEW s, NEW size \in 1 .. MaxBatchSize, NEW n \in 2 .. size, NEW index \in 0 .. size - 1, NEW f, NEW g,
         Agree(f, g, n, size)
  PROVE  UpOf(d, s, f, n, index) = UpOf(d, s, g, n, index)
  <1>1. CASE index < split(n)
    <2>1. split(n) \in 1 .. n - 1 BY ChildIs
    <2>2. f[<<split(n), index>>] = g[<<split(n), index>>] BY <2>1 DEF Agree
    <2> QED BY <1>1, <2>2 DEF UpOf
  <1>2. CASE ~(index < split(n))
    <2>1. n - split(n) \in 1 .. n - 1 /\ index - split(n) \in 0 .. size - 1 BY <1>2, ChildIs
    <2>2. f[<<n - split(n), index - split(n)>>] = g[<<n - split(n), index - split(n)>>] BY <2>1 DEF Agree
    <2> QED BY <1>2, <2>2 DEF UpOf
  <1> QED BY <1>1, <1>2

LEMMA UpExists ==
  ASSUME NEW d, NEW s, NEW size \in 1 .. MaxBatchSize
  PROVE  \E up : up = [place \in Places(size) |-> UpOf(d, s, up, place[1], place[2])]
  <1> DEFINE Solves(up, n) == \A m \in 1 .. size, index \in 0 .. size - 1 :
                                m <= n => up[<<m, index>>] = UpOf(d, s, up, m, index)
             S == {n \in Nat : \E up : Solves(up, n)}
  <1>1. ASSUME NEW n \in Nat, \A m \in 0 .. n - 1 : m \in S PROVE n \in S
    <2>1. \E up : n > 0 => Solves(up, n - 1)
      <3>1. CASE n > 0
        <4>1. n - 1 \in 0 .. n - 1 BY <3>1
        <4>2. n - 1 \in S BY <1>1, <4>1
        <4> QED BY <4>2
      <3> QED BY <3>1
    <2>2. PICK up : n > 0 => Solves(up, n - 1) BY <2>1
    <2> DEFINE more == [place \in Places(size) |-> UpOf(d, s, up, place[1], place[2])]
    <2>3. ASSUME NEW m \in 1 .. size, NEW index \in 0 .. size - 1
          PROVE  more[<<m, index>>] = UpOf(d, s, up, m, index)
      <3>1. <<m, index>> \in Places(size) BY DEF Places
      <3> QED BY <3>1
    <2> HIDE DEF more
    <2>4. Solves(more, n)
      <3> SUFFICES ASSUME NEW m \in 1 .. size, NEW index \in 0 .. size - 1, m <= n
                   PROVE  more[<<m, index>>] = UpOf(d, s, more, m, index)
        OBVIOUS
      <3>1. CASE m = 1 BY <2>3, <3>1 DEF UpOf
      <3>2. CASE m \in 2 .. size
        <4>1. Solves(up, n - 1) BY <2>2, <3>2
        <4>2. \A j \in 1 .. m - 1, i \in 0 .. size - 1 : up[<<j, i>>] = more[<<j, i>>]
          <5> SUFFICES ASSUME NEW j \in 1 .. m - 1, NEW i \in 0 .. size - 1 PROVE up[<<j, i>>] = more[<<j, i>>]
            OBVIOUS
          <5>1. j \in 1 .. size /\ j <= n - 1 BY <3>2
          <5>2. up[<<j, i>>] = UpOf(d, s, up, j, i) BY <4>1, <5>1
          <5>3. more[<<j, i>>] = UpOf(d, s, up, j, i) BY <2>3, <5>1
          <5> QED BY <5>2, <5>3
        <4>3. Agree(up, more, m, size) BY <4>2 DEF Agree
        <4>4. UpOf(d, s, up, m, index) = UpOf(d, s, more, m, index) BY <3>2, <4>3, UpReads
        <4> QED BY <2>3, <4>4
      <3> QED BY <3>1, <3>2
    <2> QED BY <2>4
  <1> HIDE DEF Solves
  <1>2. \A n \in Nat : n \in S
    <2>1. S \subseteq Nat OBVIOUS
    <2> HIDE DEF S
    <2> QED BY <1>1, <2>1, Inducts
  <1>3. PICK up : Solves(up, size)
    <2>1. size \in Nat OBVIOUS
    <2> QED BY <1>2, <2>1
  <1> DEFINE all == [place \in Places(size) |-> up[place]]
  <1>4. ASSUME NEW m \in 1 .. size, NEW index \in 0 .. size - 1
        PROVE  all[<<m, index>>] = up[<<m, index>>]
    <2>1. <<m, index>> \in Places(size) BY DEF Places
    <2> QED BY <2>1
  <1>5. all = [place \in Places(size) |-> all[place]] OBVIOUS
  <1> HIDE DEF all
  <1>6. ASSUME NEW m \in 1 .. size, NEW index \in 0 .. size - 1
        PROVE  all[<<m, index>>] = UpOf(d, s, all, m, index)
    <2>1. up[<<m, index>>] = UpOf(d, s, up, m, index) BY <1>3 DEF Solves
    <2>2. CASE m = 1 BY <1>4, <2>1, <2>2 DEF UpOf
    <2>3. CASE m \in 2 .. size
      <3>1. \A j \in 1 .. m - 1, i \in 0 .. size - 1 : up[<<j, i>>] = all[<<j, i>>]
        <4> SUFFICES ASSUME NEW j \in 1 .. m - 1, NEW i \in 0 .. size - 1 PROVE up[<<j, i>>] = all[<<j, i>>]
          OBVIOUS
        <4>1. j \in 1 .. size BY <2>3
        <4> QED BY <1>4, <4>1
      <3>2. Agree(up, all, m, size) BY <3>1 DEF Agree
      <3>3. UpOf(d, s, up, m, index) = UpOf(d, s, all, m, index) BY <2>3, <3>2, UpReads
      <3> QED BY <1>4, <2>1, <3>3
    <2> QED BY <2>2, <2>3
  <1>7. \A place \in Places(size) : all[place] = UpOf(d, s, all, place[1], place[2])
    BY <1>6 DEF Places
  <1>8. all = [place \in Places(size) |-> UpOf(d, s, all, place[1], place[2])] BY <1>5, <1>7
  <1> QED BY <1>8

Raised(d, s, size, n, index) == reconstruct(d, s, size)[<<n, index>>]

LEMMA UpIs ==
  ASSUME NEW d, NEW s, NEW size \in 1 .. MaxBatchSize, NEW n \in 1 .. size, NEW index \in 0 .. size - 1
  PROVE  Raised(d, s, size, n, index) = UpOf(d, s, reconstruct(d, s, size), n, index)
  <1> DEFINE Solution(up) == up = [place \in Places(size) |-> UpOf(d, s, up, place[1], place[2])]
  <1>1. reconstruct(d, s, size) = CHOOSE up : Solution(up) BY Zenon DEF reconstruct, UpOf, Places
  <1>2. \E up : Solution(up) BY UpExists
  <1>3. Solution(reconstruct(d, s, size)) BY <1>1, <1>2, Zenon
  <1>4. <<n, index>> \in Places(size) BY DEF Places
  <1> HIDE DEF Places
  <1> QED BY <1>3, <1>4 DEF Raised
-----------------------------------------------------------------------------
(* path.                                                                   *)

PathOf(e, position, within, from, to) ==
  IF to <= from + 1 THEN <<>>
  ELSE IF position < Middle(from, to)
  THEN Append(within[<<from, Middle(from, to)>>], merkleRoot(SubSeq(e, Middle(from, to) + 1, to)))
  ELSE Append(within[<<Middle(from, to), to>>], merkleRoot(SubSeq(e, from + 1, Middle(from, to))))

LEMMA PathExists ==
  ASSUME NEW e, NEW position, Batch(e)
  PROVE  \E of : of = [part \in Parts(e) |-> PathOf(e, position, of, part[1], part[2])]
  <1> DEFINE L == Len(e)
             Solves(of, n) == \A from, to \in 0 .. L : to - from <= n => of[<<from, to>>] = PathOf(e, position, of, from, to)
             S == {n \in Nat : \E of : Solves(of, n)}
  <1>0. L \in Nat /\ L <= MaxBatchSize BY DEF Batch
  <1>1. ASSUME NEW n \in Nat, \A m \in 0 .. n - 1 : m \in S PROVE n \in S
    <2>1. \E of : n > 0 => Solves(of, n - 1)
      <3>1. CASE n > 0
        <4>1. n - 1 \in 0 .. n - 1 BY <3>1
        <4>2. n - 1 \in S BY <1>1, <4>1
        <4> QED BY <4>2
      <3> QED BY <3>1
    <2>2. PICK of : n > 0 => Solves(of, n - 1) BY <2>1
    <2> DEFINE more == [part \in Parts(e) |-> PathOf(e, position, of, part[1], part[2])]
    <2>3. ASSUME NEW from \in 0 .. L, NEW to \in 0 .. L
          PROVE  more[<<from, to>>] = PathOf(e, position, of, from, to)
      <3>1. <<from, to>> \in Parts(e) BY DEF Parts
      <3> QED BY <3>1
    <2> HIDE DEF more
    <2>4. Solves(more, n)
      <3> SUFFICES ASSUME NEW from \in 0 .. L, NEW to \in 0 .. L, to - from <= n
                   PROVE  more[<<from, to>>] = PathOf(e, position, more, from, to)
        OBVIOUS
      <3>1. CASE to <= from + 1 BY <1>0, <2>3, <3>1 DEF PathOf
      <3>2. CASE to > from + 1
        <4> DEFINE mid == Middle(from, to)
        <4>1. mid \in from + 1 .. to - 1 BY <1>0, <3>2, MiddleIs, Most
        <4> HIDE DEF mid
        <4>2. mid \in 0 .. L /\ mid - from <= n - 1 /\ to - mid <= n - 1 /\ n > 0 BY <1>0, <3>2, <4>1
        <4>3. Solves(of, n - 1) BY <2>2, <4>2
        <4>4. of[<<from, mid>>] = PathOf(e, position, of, from, mid) /\ of[<<mid, to>>] = PathOf(e, position, of, mid, to)
          BY <4>2, <4>3
        <4>5. more[<<from, mid>>] = of[<<from, mid>>] /\ more[<<mid, to>>] = of[<<mid, to>>]
          BY <2>3, <4>2, <4>4
        <4>6. PathOf(e, position, more, from, to) = PathOf(e, position, of, from, to) BY <4>5 DEF PathOf, mid
        <4> QED BY <2>3, <4>6
      <3> QED BY <1>0, <3>1, <3>2
    <2> QED BY <2>4
  <1> HIDE DEF Solves
  <1>2. \A n \in Nat : n \in S
    <2>1. S \subseteq Nat OBVIOUS
    <2> HIDE DEF S
    <2> QED BY <1>1, <2>1, Inducts
  <1>3. PICK of : Solves(of, L) BY <1>0, <1>2
  <1> DEFINE all == [part \in Parts(e) |-> of[part]]
  <1>4. ASSUME NEW from \in 0 .. L, NEW to \in 0 .. L
        PROVE  all[<<from, to>>] = of[<<from, to>>]
    <2>1. <<from, to>> \in Parts(e) BY DEF Parts
    <2> QED BY <2>1
  <1>5. ASSUME NEW from \in 0 .. L, NEW to \in 0 .. L
        PROVE  all[<<from, to>>] = PathOf(e, position, all, from, to)
    <2>1. of[<<from, to>>] = PathOf(e, position, of, from, to) BY <1>0, <1>3 DEF Solves
    <2>2. PathOf(e, position, all, from, to) = PathOf(e, position, of, from, to)
      <3>1. CASE to <= from + 1 BY <3>1, <1>0 DEF PathOf
      <3>2. CASE to > from + 1
        <4>0. from \in Nat /\ to \in Nat /\ to - from <= MaxBatchSize BY <1>0, Most
        <4>1. Middle(from, to) \in from + 1 .. to - 1 BY <3>2, <4>0, MiddleIs
        <4>2. Middle(from, to) \in 0 .. L BY <1>0, <4>1
        <4> HIDE DEF all
        <4> QED BY <1>4, <4>2 DEF PathOf
      <3> QED BY <1>0, <3>1, <3>2
    <2> QED BY <1>4, <2>1, <2>2
  <1>6. \A part \in Parts(e) : all[part] = PathOf(e, position, all, part[1], part[2])
    <2> HIDE DEF all
    <2> QED BY <1>5 DEF Parts
  <1>7. all = [part \in Parts(e) |-> all[part]] OBVIOUS
  <1> HIDE DEF all
  <1>8. all = [part \in Parts(e) |-> PathOf(e, position, all, part[1], part[2])] BY <1>6, <1>7
  <1> QED BY <1>8

SlicePath(e, position, from, to) == path(e, position)[<<from, to>>]

\* The path in a slice is the one in the half with the position, and the other half's root (path).
LEMMA PathIs ==
  ASSUME NEW D, NEW e \in Seq(D), Batch(e), NEW position, NEW from \in 0 .. Len(e), NEW to \in 0 .. Len(e)
  PROVE  /\ to <= from + 1 => SlicePath(e, position, from, to) = <<>>
         /\ to > from + 1 /\ position < Middle(from, to) =>
              SlicePath(e, position, from, to) = Append(SlicePath(e, position, from, Middle(from, to)), SliceRoot(e, Middle(from, to), to))
         /\ to > from + 1 /\ ~(position < Middle(from, to)) =>
              SlicePath(e, position, from, to) = Append(SlicePath(e, position, Middle(from, to), to), SliceRoot(e, from, Middle(from, to)))
  <1> DEFINE Solution(within) == within = [part \in Parts(e) |-> PathOf(e, position, within, part[1], part[2])]
             mid == Middle(from, to)
  <1>1. path(e, position) = CHOOSE within : Solution(within) BY Zenon DEF path, PathOf
  <1>2. \E within : Solution(within) BY PathExists
  <1>3. Solution(path(e, position)) BY <1>1, <1>2, Zenon
  <1>4. <<from, to>> \in Parts(e) BY DEF Parts
  <1>5. SlicePath(e, position, from, to) = PathOf(e, position, path(e, position), from, to) BY <1>3, <1>4 DEF SlicePath
  <1>6. Len(e) \in Nat /\ Len(e) <= MaxBatchSize BY DEF Batch
  <1>7. CASE to <= from + 1 BY <1>5, <1>6, <1>7 DEF PathOf
  <1>8. CASE to > from + 1
    <2>1. from \in Nat /\ to \in Nat /\ to - from <= MaxBatchSize BY <1>6, Most
    <2>2. mid \in from + 1 .. to - 1 BY <1>8, <2>1, MiddleIs
    <2> HIDE DEF mid
    <2>3. mid \in 0 .. Len(e) /\ to \in mid .. Len(e) /\ mid \in from .. Len(e) BY <1>6, <2>1, <2>2
    <2>4. merkleRoot(SubSeq(e, mid + 1, to)) = SliceRoot(e, mid, to) BY <2>3, SliceRootIs
    <2>5. merkleRoot(SubSeq(e, from + 1, mid)) = SliceRoot(e, from, mid) BY <2>3, SliceRootIs
    <2>6. ~(to <= from + 1) BY <1>8, <2>1
    <2>7. SlicePath(e, position, from, to) =
            IF position < mid THEN Append(SlicePath(e, position, from, mid), SliceRoot(e, mid, to))
            ELSE Append(SlicePath(e, position, mid, to), SliceRoot(e, from, mid))
      BY <1>5, <2>4, <2>5, <2>6 DEF PathOf, SlicePath, mid
    <2> QED BY <2>6, <2>7 DEF mid
  <1> QED BY <1>6, <1>7, <1>8

\* A tree of n leaves is no higher than the number of times n can be halved.
Low(n, height) ==
  /\ (n <= 1 => height <= 0) /\ (n <= 2 => height <= 1) /\ (n <= 4 => height <= 2) /\ (n <= 8 => height <= 3)
  /\ (n <= 16 => height <= 4) /\ (n <= 32 => height <= 5) /\ (n <= 64 => height <= 6)
  /\ (n <= 128 => height <= 7) /\ (n <= 256 => height <= 8) /\ (n <= 512 => height <= 9)

LEMMA Higher ==
  ASSUME NEW n \in 2 .. MaxBatchSize, NEW height \in Nat, NEW half \in Nat, half <= split(n), Low(half, height)
  PROVE  Low(n, height + 1)
  <1>1. split(n) \in Widths /\ split(n) \in 1 .. n - 1 BY SplitIs
  <1> DEFINE k == split(n)
  <1>2. k \in Widths /\ k < n /\ half <= k BY <1>1
  <1> HIDE DEF k
  <1> QED BY <1>2 DEF Low, Widths

Hashes(e) == {SliceRoot(e, from, to) : from, to \in 0 .. Len(e)}

\* A way is as long as the tree is high, and any siblings that begin with it lead from the leaf to the root.
Leads(e, way, d, n, index, hash) ==
  /\ way \in Seq(Hashes(e)) /\ Low(n, Len(way))
  /\ \A s \in Seq(Hashes(e)), size \in 1 .. MaxBatchSize :
       n <= size /\ Len(way) <= Len(s) /\ (\A i \in 1 .. Len(way) : s[i] = way[i])
       => Raised(d, s, size, n, index) = [hash |-> hash, used |-> Len(way)]

LEMMA LeadsOn ==
  ASSUME NEW e, NEW d, NEW n \in 2 .. MaxBatchSize, NEW index \in 0 .. n - 1, NEW way, NEW inner, NEW other \in Hashes(e),
         index < split(n) => Leads(e, way, d, split(n), index, inner),
         ~(index < split(n)) => Leads(e, way, d, n - split(n), index - split(n), inner)
  PROVE  Leads(e, Append(way, other), d, n, index, IF index < split(n) THEN branch(inner, other) ELSE branch(other, inner))
  <1> DEFINE k == split(n)
             more == Append(way, other)
             half == IF index < k THEN k ELSE n - k
             place == IF index < k THEN index ELSE index - k
             hash == IF index < k THEN branch(inner, other) ELSE branch(other, inner)
  <1>0. k \in 1 .. n - 1 /\ n <= 2 * k /\ n \in Nat /\ index \in Nat BY SplitIs
  <1>1. half \in 1 .. n - 1 /\ place \in 0 .. n - 2 /\ half <= k BY <1>0
  <1>2. Leads(e, way, d, half, place, inner) OBVIOUS
  <1>3. way \in Seq(Hashes(e)) /\ Low(half, Len(way)) BY <1>2 DEF Leads
  <1>4. /\ more \in Seq(Hashes(e)) /\ Len(more) = Len(way) + 1 /\ Len(way) \in Nat
        /\ more[Len(way) + 1] = other /\ \A i \in 1 .. Len(way) : more[i] = way[i]
    BY <1>3, LenProperties, AppendProperties
  <1>5. Low(n, Len(more)) BY <1>1, <1>3, <1>4, Higher
  <1>6. ASSUME NEW s \in Seq(Hashes(e)), NEW size \in 1 .. MaxBatchSize, n <= size, Len(more) <= Len(s),
               \A i \in 1 .. Len(more) : s[i] = more[i]
        PROVE  Raised(d, s, size, n, index) = [hash |-> hash, used |-> Len(more)]
    <2>1. Len(s) \in Nat /\ size \in Nat BY LenProperties
    <2>2. half <= size /\ Len(way) <= Len(s) /\ \A i \in 1 .. Len(way) : s[i] = way[i]
      <3>1. \A i \in 1 .. Len(way) : i \in 1 .. Len(more) BY <1>4
      <3> HIDE DEF more
      <3> QED BY <1>0, <1>1, <1>4, <1>6, <2>1, <3>1
    <2>3. Raised(d, s, size, half, place) = [hash |-> inner, used |-> Len(way)] BY <1>2, <2>2 DEF Leads
    <2>4. s[Len(way) + 1] = other BY <1>4, <1>6
    <2>5. n \in 1 .. size /\ index \in 0 .. size - 1 BY <1>0, <1>6, <2>1
    <2>6. Raised(d, s, size, n, index) = UpOf(d, s, reconstruct(d, s, size), n, index) BY <2>5, UpIs
    <2> DEFINE child == IF index < k THEN reconstruct(d, s, size)[<<k, index>>]
                        ELSE reconstruct(d, s, size)[<<n - k, index - k>>]
    <2>7. child = [hash |-> inner, used |-> Len(way)] BY <2>3 DEF Raised
    <2>8. child.used = Len(way) /\ child.hash = inner /\ ~(child.used >= Len(s)) /\ n # 1
      <3>1. child.used = Len(way) /\ child.hash = inner BY <2>7
      <3> HIDE DEF child
      <3> QED BY <1>4, <1>6, <2>1, <3>1
    <2>9. UpOf(d, s, reconstruct(d, s, size), n, index) =
            IF n = 1 THEN [hash |-> leaf(d), used |-> 0]
            ELSE IF child.used >= Len(s) THEN [hash |-> <<"truncated">>, used |-> Len(s) + 1]
            ELSE [hash |-> IF index < k THEN branch(child.hash, s[child.used + 1])
                                        ELSE branch(s[child.used + 1], child.hash),
                  used |-> child.used + 1]
      BY DEF UpOf
    <2> HIDE DEF child, k
    <2> QED BY <1>4, <2>4, <2>6, <2>8, <2>9
  <1> HIDE DEF hash, more
  <1>7. Leads(e, more, d, n, index, hash) BY <1>4, <1>5, <1>6 DEF Leads
  <1> QED BY <1>7 DEF hash, more

\* The path of a position leads from its leaf up to the root of every slice it is in.
LEMMA PathLeads ==
  ASSUME NEW D, NEW e \in Seq(D), Batch(e), NEW position \in 0 .. Len(e) - 1
  PROVE  \A from \in 0 .. position, to \in position + 1 .. Len(e) :
           Leads(e, SlicePath(e, position, from, to), e[position + 1], to - from, position - from, SliceRoot(e, from, to))
  <1> DEFINE d == e[position + 1]
             Goal(from, to) == Leads(e, SlicePath(e, position, from, to), d, to - from, position - from, SliceRoot(e, from, to))
             S == {n \in Nat : \A from \in 0 .. position, to \in position + 1 .. Len(e) : to - from <= n => Goal(from, to)}
  <1>0. Len(e) \in Nat /\ Len(e) <= MaxBatchSize /\ position \in Nat BY DEF Batch
  <1>1. ASSUME NEW n \in Nat, \A m \in 0 .. n - 1 : m \in S PROVE n \in S
    <2> SUFFICES ASSUME NEW from \in 0 .. position, NEW to \in position + 1 .. Len(e), to - from <= n
                 PROVE  Goal(from, to)
      OBVIOUS
    <2>0. from \in 0 .. Len(e) /\ to \in 0 .. Len(e) /\ from \in Nat /\ to \in Nat BY <1>0
    <2>1. CASE to = from + 1
      <3>1. SlicePath(e, position, from, to) = <<>> BY <2>0, <2>1, PathIs
      <3>2. SliceRoot(e, from, to) = leaf(d)
        <4>1. position = from BY <1>0, <2>0, <2>1
        <4> QED BY <2>0, <2>1, <4>1, RootIs
      <3>3. to - from = 1 /\ position - from = 0 BY <1>0, <2>0, <2>1
      <3>4. <<>> \in Seq(Hashes(e)) /\ Len(<<>>) = 0 /\ Low(1, 0) BY EmptySeq DEF Low
      <3>5. ASSUME NEW s \in Seq(Hashes(e)), NEW size \in 1 .. MaxBatchSize
            PROVE  Raised(d, s, size, 1, 0) = [hash |-> leaf(d), used |-> 0]
        <4>1. 1 \in 1 .. size /\ 0 \in 0 .. size - 1 BY Most
        <4>2. Raised(d, s, size, 1, 0) = UpOf(d, s, reconstruct(d, s, size), 1, 0) BY <4>1, UpIs
        <4> QED BY <4>2 DEF UpOf
      <3>6. Leads(e, <<>>, d, 1, 0, leaf(d)) BY <3>4, <3>5 DEF Leads
      <3> QED BY <3>1, <3>2, <3>3, <3>6
    <2>2. CASE to > from + 1
      <3> DEFINE mid == Middle(from, to)
                 k == split(to - from)
      <3>1. to - from \in 2 .. MaxBatchSize /\ position - from \in 0 .. (to - from) - 1 BY <1>0, <2>0, <2>2, Most
      <3>2. k \in 1 .. (to - from) - 1 BY <3>1, SplitIs
      <3>3. mid = from + k BY DEF Middle
      <3> HIDE DEF mid, k
      <3>4. /\ mid \in from + 1 .. to - 1 /\ mid \in 0 .. Len(e) /\ mid - from = k /\ to - mid = (to - from) - k
            /\ position - mid = (position - from) - k /\ (position < mid <=> position - from < k)
            /\ mid - from <= n - 1 /\ to - mid <= n - 1 /\ n - 1 \in 0 .. n - 1
        BY <1>0, <2>0, <2>2, <3>2, <3>3
      <3>5. n - 1 \in S BY <1>1, <3>4
      <3>6. SliceRoot(e, from, to) = branch(SliceRoot(e, from, mid), SliceRoot(e, mid, to)) BY <2>0, <2>2, RootIs DEF mid
      <3>7. CASE position < mid
        <4>1. mid \in position + 1 .. Len(e) BY <1>0, <3>4, <3>7
        <4>2. Goal(from, mid) BY <3>4, <3>5, <4>1
        <4>3. Leads(e, SlicePath(e, position, from, mid), d, k, position - from, SliceRoot(e, from, mid)) BY <3>4, <4>2
        <4>4. SliceRoot(e, mid, to) \in Hashes(e) BY <2>0, <3>4 DEF Hashes
        <4>5. SlicePath(e, position, from, to) = Append(SlicePath(e, position, from, mid), SliceRoot(e, mid, to))
          BY <2>0, <2>2, <3>7, PathIs DEF mid
        <4>6. position - from < k BY <3>4, <3>7
        <4> HIDE DEF d
        <4>7. Leads(e, Append(SlicePath(e, position, from, mid), SliceRoot(e, mid, to)), d, to - from, position - from,
                    branch(SliceRoot(e, from, mid), SliceRoot(e, mid, to)))
          BY <3>1, <4>3, <4>4, <4>6, LeadsOn DEF k
        <4> QED BY <3>6, <4>5, <4>7
      <3>8. CASE ~(position < mid)
        <4>1. mid \in 0 .. position BY <1>0, <2>0, <3>4, <3>8
        <4>2. Goal(mid, to) BY <3>4, <3>5, <4>1
        <4>3. Leads(e, SlicePath(e, position, mid, to), d, (to - from) - k, (position - from) - k, SliceRoot(e, mid, to))
          BY <3>4, <4>2
        <4>4. SliceRoot(e, from, mid) \in Hashes(e) BY <2>0, <3>4 DEF Hashes
        <4>5. SlicePath(e, position, from, to) = Append(SlicePath(e, position, mid, to), SliceRoot(e, from, mid))
          BY <2>0, <2>2, <3>8, PathIs DEF mid
        <4>6. ~(position - from < k) BY <3>4, <3>8
        <4> HIDE DEF d
        <4>7. Leads(e, Append(SlicePath(e, position, mid, to), SliceRoot(e, from, mid)), d, to - from, position - from,
                    branch(SliceRoot(e, from, mid), SliceRoot(e, mid, to)))
          BY <3>1, <4>3, <4>4, <4>6, LeadsOn DEF k
        <4> QED BY <3>6, <4>5, <4>7
      <3> QED BY <3>7, <3>8
    <2>3. to = from + 1 \/ to > from + 1 BY <1>0, <2>0
    <2> QED BY <2>1, <2>2, <2>3
  <1>2. \A n \in Nat : n \in S
    <2>1. S \subseteq Nat OBVIOUS
    <2> HIDE DEF S
    <2> QED BY <1>1, <2>1, Inducts
  <1>3. ASSUME NEW from \in 0 .. position, NEW to \in position + 1 .. Len(e) PROVE Goal(from, to)
    <2>1. to - from \in Nat /\ to - from <= to - from BY <1>0
    <2>2. to - from \in S BY <1>2, <2>1
    <2> QED BY <2>1, <2>2
  <1> QED BY <1>3

\* Every record of a batch has a proof that is accepted (inclusion, verifyInclusion).
LEMMA Included ==
  ASSUME NEW D, NEW e \in Seq(D), Batch(e), NEW position \in 0 .. Len(e) - 1
  PROVE  verifyInclusion(e[position + 1], inclusion(e, position))
  <1> DEFINE L == Len(e)
             way == SlicePath(e, position, 0, L)
             proof == inclusion(e, position)
  <1>0. L \in Nat /\ L <= MaxBatchSize /\ position \in Nat /\ L \in 1 .. MaxBatchSize /\ L - 0 = L /\ position - 0 = position
    BY DEF Batch
  <1>1. proof.treeSize = L /\ proof.position = position /\ proof.root = SliceRoot(e, 0, L) /\ proof.path = way
    BY DEF inclusion, merkleRoot, SliceRoot, SlicePath
  <1>2. Leads(e, way, e[position + 1], L - 0, position - 0, SliceRoot(e, 0, L))
    <2>1. 0 \in 0 .. position /\ L \in position + 1 .. L BY <1>0
    <2> HIDE DEF L
    <2> QED BY <2>1, PathLeads DEF L
  <1>3. Leads(e, way, e[position + 1], L, position, SliceRoot(e, 0, L)) BY <1>0, <1>2
  <1> HIDE DEF way
  <1>4. way \in Seq(Hashes(e)) /\ Low(L, Len(way)) BY <1>3 DEF Leads
  <1>5. Len(way) \in Nat BY <1>4, LenProperties
  <1>6. Raised(e[position + 1], way, L, L, position) = [hash |-> SliceRoot(e, 0, L), used |-> Len(way)]
    BY <1>0, <1>3, <1>4, <1>5 DEF Leads
  <1>7. Len(way) <= MaxPath BY <1>0, <1>4, <1>5, Most DEF Low, MaxPath
  <1> HIDE DEF proof, L
  <1>8. position < L BY <1>0 DEF L
  <1> QED BY <1>0, <1>1, <1>6, <1>7, <1>8 DEF verifyInclusion, Raised, proof
-----------------------------------------------------------------------------
(* Nothing else is accepted.                                               *)

\* What reconstruct makes of one place: the leaf's hash, nothing, or a branch over the child's.
LEMMA UpLeaf ==
  ASSUME NEW d, NEW s, NEW size \in 1 .. MaxBatchSize, NEW index \in 0 .. size - 1
  PROVE  Raised(d, s, size, 1, index).hash = leaf(d)
  <1>1. 1 \in 1 .. size BY Most
  <1>2. Raised(d, s, size, 1, index) = UpOf(d, s, reconstruct(d, s, size), 1, index) BY <1>1, UpIs
  <1> QED BY <1>2 DEF UpOf

LEMMA UpLeft ==
  ASSUME NEW d, NEW s, NEW size \in 1 .. MaxBatchSize, NEW n \in 2 .. size, NEW index \in 0 .. size - 1,
         NEW k, k = split(n), index < k, Raised(d, s, size, n, index).hash # <<"truncated">>
  PROVE  Raised(d, s, size, n, index).hash = branch(Raised(d, s, size, k, index).hash, s[Raised(d, s, size, k, index).used + 1])
  <1>1. n \in 1 .. size /\ n # 1 OBVIOUS
  <1>2. Raised(d, s, size, n, index) = UpOf(d, s, reconstruct(d, s, size), n, index) BY <1>1, UpIs
  <1> QED BY <1>1, <1>2 DEF UpOf, Raised

LEMMA UpRight ==
  ASSUME NEW d, NEW s, NEW size \in 1 .. MaxBatchSize, NEW n \in 2 .. size, NEW index \in 0 .. size - 1, ~(index < split(n)),
         Raised(d, s, size, n, index).hash # <<"truncated">>
  PROVE  \E x : Raised(d, s, size, n, index).hash = branch(x, Raised(d, s, size, n - split(n), index - split(n)).hash)
  <1>1. n \in 1 .. size /\ n # 1 OBVIOUS
  <1>2. Raised(d, s, size, n, index) = UpOf(d, s, reconstruct(d, s, size), n, index) BY <1>1, UpIs
  <1> QED BY <1>1, <1>2 DEF UpOf, Raised

\* Whatever the siblings, size and place, what leads to the root of a slice began with a leaf of it.
LEMMA OnlyMembers ==
  ASSUME NEW e, Batch(e), NEW d, NEW s, NEW size \in 1 .. MaxBatchSize
  PROVE  \A n \in 1 .. size, index \in 0 .. size - 1, from, to \in 0 .. Len(e) :
           from < to /\ Raised(d, s, size, n, index).hash = SliceRoot(e, from, to) => \E i \in from + 1 .. to : d = e[i]
  <1> DEFINE Goal(n) == \A index \in 0 .. size - 1, from, to \in 0 .. Len(e) :
               from < to /\ Raised(d, s, size, n, index).hash = SliceRoot(e, from, to) => \E i \in from + 1 .. to : d = e[i]
             S == {n \in Nat : n \in 1 .. size => Goal(n)}
  <1>0. Len(e) \in Nat /\ Len(e) <= MaxBatchSize BY DEF Batch
  <1>1. ASSUME NEW n \in Nat, \A m \in 0 .. n - 1 : m \in S PROVE n \in S
    <2> SUFFICES ASSUME n \in 1 .. size, NEW index \in 0 .. size - 1, NEW from \in 0 .. Len(e), NEW to \in 0 .. Len(e),
                        from < to, Raised(d, s, size, n, index).hash = SliceRoot(e, from, to)
                 PROVE  \E i \in from + 1 .. to : d = e[i]
      OBVIOUS
    <2> DEFINE hash == SliceRoot(e, from, to)
               mid == Middle(from, to)
    <2>0. from \in Nat /\ to \in Nat /\ to - from <= MaxBatchSize BY <1>0, Most
    <2>1. \/ to = from + 1 /\ hash = leaf(e[to])
          \/ to > from + 1 /\ mid \in from + 1 .. to - 1 /\ hash = branch(SliceRoot(e, from, mid), SliceRoot(e, mid, to))
      BY <2>0, RootIs, MiddleIs
    <2>2. CASE n = 1
      <3>1. hash = leaf(d) BY <2>2, UpLeaf
      <3>2. to = from + 1 /\ leaf(d) = leaf(e[to]) BY <2>1, <3>1, LeafIsNoBranch
      <3>3. d = e[to] BY <3>2, LeafInjective
      <3> QED BY <2>0, <3>2, <3>3
    <2>3. CASE n > 1
      <3> DEFINE k == split(n)
                 m == IF index < k THEN k ELSE n - k
                 child == IF index < k THEN index ELSE index - k
      <3>1. m \in 1 .. n - 1 /\ child \in 0 .. size - 1
        <4>1. n \in 2 .. size BY <2>3
        <4>2. k \in 1 .. n - 1 /\ (~(index < k) => n - k \in 1 .. n - 1 /\ index - k \in 0 .. size - 1)
          BY <4>1, ChildIs
        <4> QED BY <4>2
      <3>2. m \in 0 .. n - 1 /\ m \in 1 .. size BY <2>3, <3>1
      <3>3. Goal(m) BY <1>1, <3>2
      <3>0. n \in 2 .. size BY <2>3
      <3>9. k \in 1 .. n - 1 BY <3>0, ChildIs
      <3>4. hash # <<"truncated">> => \E x : \/ hash = branch(Raised(d, s, size, m, child).hash, x)
                                             \/ hash = branch(x, Raised(d, s, size, m, child).hash)
        <4> SUFFICES ASSUME Raised(d, s, size, n, index).hash # <<"truncated">>
                     PROVE  \E x : \/ Raised(d, s, size, n, index).hash = branch(Raised(d, s, size, m, child).hash, x)
                                   \/ Raised(d, s, size, n, index).hash = branch(x, Raised(d, s, size, m, child).hash)
          OBVIOUS
        <4>1. CASE index < k
          <5>1. m = k /\ child = index BY <4>1
          <5>2. Raised(d, s, size, n, index).hash = branch(Raised(d, s, size, k, index).hash, s[Raised(d, s, size, k, index).used + 1])
            BY <3>0, <3>9, <4>1, UpLeft
          <5> QED BY <5>1, <5>2
        <4>2. CASE ~(index < k)
          <5>1. m = n - k /\ child = index - k BY <4>2
          <5>2. \E x : Raised(d, s, size, n, index).hash = branch(x, Raised(d, s, size, n - k, index - k).hash)
            BY <3>0, <4>2, UpRight
          <5> QED BY <5>1, <5>2
        <4> QED BY <4>1, <4>2
      <3> HIDE DEF m, child, k
      <3>5. \/ to = from + 1 /\ hash = leaf(e[to])
            \/ to > from + 1 /\ mid \in from + 1 .. to - 1 /\ hash = branch(SliceRoot(e, from, mid), SliceRoot(e, mid, to))
        BY <2>1
      <3> HIDE DEF hash, mid
      <3>6. /\ to > from + 1 /\ mid \in from + 1 .. to - 1
            /\ Raised(d, s, size, m, child).hash = SliceRoot(e, from, mid) \/ Raised(d, s, size, m, child).hash = SliceRoot(e, mid, to)
        <4>1. hash # <<"truncated">> BY <3>5, NotTruncated
        <4>2. PICK x : \/ hash = branch(Raised(d, s, size, m, child).hash, x)
                       \/ hash = branch(x, Raised(d, s, size, m, child).hash)
          BY <3>4, <4>1
        <4>3. hash # leaf(e[to]) BY <4>2, LeafIsNoBranch
        <4>4. hash = branch(SliceRoot(e, from, mid), SliceRoot(e, mid, to)) /\ to > from + 1 /\ mid \in from + 1 .. to - 1 BY <3>5, <4>3
        <4> QED BY <4>2, <4>4, BranchInjective
      <3>7. mid \in 0 .. Len(e) /\ from < mid /\ mid < to BY <1>0, <2>0, <3>6
      <3>8. (\E i \in from + 1 .. mid : d = e[i]) \/ (\E i \in mid + 1 .. to : d = e[i])
        BY <3>1, <3>3, <3>6, <3>7
      <3> QED BY <2>0, <3>7, <3>8
    <2> QED BY <2>2, <2>3
  <1>2. \A n \in Nat : n \in S
    <2>1. S \subseteq Nat OBVIOUS
    <2> HIDE DEF S
    <2> QED BY <1>1, <2>1, Inducts
  <1>3. ASSUME NEW n \in 1 .. size PROVE Goal(n)
    <2>1. n \in Nat OBVIOUS
    <2> QED BY <1>2, <2>1
  <1> HIDE DEF S
  <1> QED BY <1>3

\* Where the size is the slice's own, the leaf is the one at the place claimed.
LEMMA OwnPlace ==
  ASSUME NEW e, Batch(e), NEW d, NEW s, NEW size \in 1 .. MaxBatchSize
  PROVE  \A n \in 1 .. size, index \in 0 .. size - 1, from, to \in 0 .. Len(e) :
           to - from = n /\ index < n /\ Raised(d, s, size, n, index).hash = SliceRoot(e, from, to) => d = e[from + index + 1]
  <1> DEFINE Goal(n) == \A index \in 0 .. size - 1, from, to \in 0 .. Len(e) :
               to - from = n /\ index < n /\ Raised(d, s, size, n, index).hash = SliceRoot(e, from, to) => d = e[from + index + 1]
             S == {n \in Nat : n \in 1 .. size => Goal(n)}
  <1>0. Len(e) \in Nat /\ Len(e) <= MaxBatchSize BY DEF Batch
  <1>1. ASSUME NEW n \in Nat, \A m \in 0 .. n - 1 : m \in S PROVE n \in S
    <2> SUFFICES ASSUME n \in 1 .. size, NEW index \in 0 .. size - 1, NEW from \in 0 .. Len(e), NEW to \in 0 .. Len(e),
                        to - from = n, index < n, Raised(d, s, size, n, index).hash = SliceRoot(e, from, to)
                 PROVE  d = e[from + index + 1]
      OBVIOUS
    <2> DEFINE hash == SliceRoot(e, from, to)
               mid == Middle(from, to)
               k == split(n)
    <2>0. from \in Nat /\ to \in Nat /\ to - from <= MaxBatchSize /\ index \in Nat BY <1>0, Most
    <2>1. CASE n = 1
      <3>1. hash = leaf(d) BY <2>1, UpLeaf
      <3>2. to = from + 1 /\ index = 0 BY <2>0, <2>1
      <3>3. hash = leaf(e[to]) BY <2>0, <3>2, RootIs
      <3>4. d = e[to] BY <3>1, <3>3, LeafInjective
      <3> QED BY <2>0, <3>2, <3>4
    <2>2. CASE n > 1
      <3>1. /\ k \in 1 .. n - 1
            /\ ~(index < k) => n - k \in 1 .. n - 1 /\ index - k \in 0 .. size - 1
        <4>1. n \in 2 .. size BY <2>2
        <4> QED BY <4>1, ChildIs
      <3>2. to > from + 1 /\ mid = from + k BY <2>0, <2>2 DEF Middle
      <3>3. hash = branch(SliceRoot(e, from, mid), SliceRoot(e, mid, to)) BY <2>0, <3>2, RootIs
      <3>4. hash # <<"truncated">> BY <3>3, NotTruncated
      <3> HIDE DEF mid
      <3>5. mid \in 0 .. Len(e) /\ mid - from = k /\ to - mid = n - k BY <1>0, <2>0, <3>1, <3>2
      <3>8. k \in 1 .. n - 1 BY <3>1
      <3>6. CASE index < k
        <4>0. n \in 2 .. size /\ Raised(d, s, size, n, index).hash # <<"truncated">> BY <2>2, <3>4
        <4>6. Raised(d, s, size, n, index).hash = branch(Raised(d, s, size, k, index).hash, s[Raised(d, s, size, k, index).used + 1])
          BY <3>6, <4>0, UpLeft, <3>8
        <4>1. PICK x : hash = branch(Raised(d, s, size, k, index).hash, x) BY <4>6
        <4>2. branch(Raised(d, s, size, k, index).hash, x) = branch(SliceRoot(e, from, mid), SliceRoot(e, mid, to)) BY <3>3, <4>1
        <4> HIDE DEF hash, k
        <4>3. Raised(d, s, size, k, index).hash = SliceRoot(e, from, mid) BY <4>2, BranchInjective
        <4>4. k \in 0 .. n - 1 /\ k \in 1 .. size BY <3>1
        <4>5. Goal(k) BY <1>1, <4>4
        <4> QED BY <3>5, <3>6, <4>3, <4>5
      <3>7. CASE ~(index < k)
        <4>8. n \in 2 .. size /\ Raised(d, s, size, n, index).hash # <<"truncated">> BY <2>2, <3>4
        <4>9. \E x : Raised(d, s, size, n, index).hash = branch(x, Raised(d, s, size, n - k, index - k).hash) BY <3>7, <4>8, UpRight
        <4>1. PICK x : hash = branch(x, Raised(d, s, size, n - k, index - k).hash) BY <4>9
        <4>0. branch(x, Raised(d, s, size, n - k, index - k).hash) = branch(SliceRoot(e, from, mid), SliceRoot(e, mid, to)) BY <3>3, <4>1
        <4> HIDE DEF hash, k
        <4>2. Raised(d, s, size, n - k, index - k).hash = SliceRoot(e, mid, to) BY <4>0, BranchInjective
        <4>3. n - k \in 0 .. n - 1 /\ n - k \in 1 .. size BY <3>1, <3>7
        <4>4. Goal(n - k) BY <1>1, <4>3
        <4>5. index - k < n - k BY <2>0, <3>1
        <4>6. d = e[mid + (index - k) + 1] BY <3>1, <3>5, <3>7, <4>2, <4>4, <4>5
        <4>7. mid + (index - k) + 1 = from + index + 1 BY <2>0, <3>1, <3>2
        <4> QED BY <4>6, <4>7
      <3> QED BY <3>6, <3>7
    <2> QED BY <2>1, <2>2
  <1>2. \A n \in Nat : n \in S
    <2>1. S \subseteq Nat OBVIOUS
    <2> HIDE DEF S
    <2> QED BY <1>1, <2>1, Inducts
  <1>3. ASSUME NEW n \in 1 .. size PROVE Goal(n)
    <2>1. n \in Nat OBVIOUS
    <2> QED BY <1>2, <2>1
  <1> HIDE DEF S
  <1> QED BY <1>3
(* The root by levels.                                                     *)

LevelOf(e, levels, n) == IF n = 0 THEN [i \in 1 .. Len(e) |-> leaf(e[i])] ELSE Pair(levels[n - 1])

LEMMA LevelsExist ==
  ASSUME NEW e
  PROVE  \E levels : levels = [n \in 0 .. MaxPath |-> LevelOf(e, levels, n)]
  <1> DEFINE Solves(levels, n) == \A m \in 0 .. n : levels[m] = LevelOf(e, levels, m)
             S == {n \in Nat : \E levels : Solves(levels, n)}
  <1>1. ASSUME NEW n \in Nat, \A m \in 0 .. n - 1 : m \in S PROVE n \in S
    <2>1. \E levels : n > 0 => Solves(levels, n - 1)
      <3>1. CASE n > 0
        <4>1. n - 1 \in 0 .. n - 1 BY <3>1
        <4>2. n - 1 \in S BY <1>1, <4>1
        <4> QED BY <4>2
      <3> QED BY <3>1
    <2>2. PICK levels : n > 0 => Solves(levels, n - 1) BY <2>1
    <2> DEFINE more == [m \in Nat |-> LevelOf(e, levels, m)]
    <2>3. \A m \in Nat : more[m] = LevelOf(e, levels, m) OBVIOUS
    <2> HIDE DEF more
    <2>4. ASSUME NEW m \in 0 .. n PROVE more[m] = LevelOf(e, more, m)
      <3>1. CASE m = 0 BY <2>3, <3>1 DEF LevelOf
      <3>2. CASE m # 0
        <4>1. m - 1 \in 0 .. n - 1 /\ m - 1 \in Nat /\ n > 0 BY <3>2
        <4>2. levels[m - 1] = LevelOf(e, levels, m - 1) BY <2>2, <4>1
        <4>3. more[m - 1] = levels[m - 1] BY <2>3, <4>1, <4>2
        <4>4. m \in Nat /\ more[m] = LevelOf(e, levels, m) BY <2>3
        <4> QED BY <3>2, <4>3, <4>4 DEF LevelOf
      <3> QED BY <3>1, <3>2
    <2>5. Solves(more, n) BY <2>4
    <2> QED BY <2>5
  <1>2. \A n \in Nat : n \in S
    <2>1. S \subseteq Nat OBVIOUS
    <2> HIDE DEF S
    <2> QED BY <1>1, <2>1, Inducts
  <1>3. MaxPath \in Nat BY DEF MaxPath
  <1>4. PICK levels : Solves(levels, MaxPath) BY <1>2, <1>3
  <1> DEFINE all == [n \in 0 .. MaxPath |-> levels[n]]
  <1>5. \A n \in 0 .. MaxPath : all[n] = LevelOf(e, all, n)
    <2> SUFFICES ASSUME NEW n \in 0 .. MaxPath PROVE levels[n] = LevelOf(e, all, n)
      OBVIOUS
    <2>1. levels[n] = LevelOf(e, levels, n) BY <1>4
    <2>2. CASE n = 0 BY <2>1, <2>2 DEF LevelOf
    <2>3. CASE n # 0
      <3>1. n - 1 \in 0 .. MaxPath BY <1>3, <2>3
      <3>2. all[n - 1] = levels[n - 1] BY <3>1
      <3> HIDE DEF all
      <3> QED BY <2>1, <2>3, <3>2 DEF LevelOf
    <2> QED BY <2>2, <2>3
  <1>6. all = [n \in 0 .. MaxPath |-> all[n]] OBVIOUS
  <1> HIDE DEF all
  <1>7. all = [n \in 0 .. MaxPath |-> LevelOf(e, all, n)] BY <1>5, <1>6
  <1> QED BY <1>7

LEMMA LevelIs ==
  ASSUME NEW e, NEW n \in 0 .. MaxPath
  PROVE  Levels(e)[n] = LevelOf(e, Levels(e), n)
  <1> DEFINE Solution(levels) == levels = [m \in 0 .. MaxPath |-> LevelOf(e, levels, m)]
  <1>1. Levels(e) = CHOOSE levels : Solution(levels) BY Zenon DEF Levels, LevelOf
  <1>2. \E levels : Solution(levels) BY LevelsExist
  <1>3. Solution(Levels(e)) BY <1>1, <1>2, Zenon
  <1> QED BY <1>3

\* A level of the tree: the roots of consecutive slices of w entries, the last one of what is left.
Row(e, level, w, r) ==
  /\ r \in Nat \ {0} /\ (r - 1) * w < Len(e) /\ Len(e) <= r * w
  /\ level = [i \in 1 .. r |-> SliceRoot(e, (i - 1) * w, IF i < r THEN i * w ELSE Len(e))]

\* The root of a slice of more than w and at most 2 w entries has a first half of w.
LEMMA Halves ==
  ASSUME NEW e, Batch(e), NEW w \in Widths, NEW from \in 0 .. Len(e), NEW to \in 0 .. Len(e),
         w < to - from, to - from <= 2 * w
  PROVE  SliceRoot(e, from, to) = branch(SliceRoot(e, from, from + w), SliceRoot(e, from + w, to))
  <1>1. w \in Nat /\ w >= 1 /\ 2 * w <= 512 BY DEF Widths
  <1>2. to - from \in 2 .. MaxBatchSize BY <1>1, Most DEF Batch
  <1>3. split(to - from) = w BY <1>2, SplitIs
  <1>4. to > from + 1 BY <1>2 DEF Batch
  <1> QED BY <1>3, <1>4, RootIs DEF Middle

LEMMA RowPairs ==
  ASSUME NEW e, Batch(e), NEW w \in Widths, NEW r, NEW level, Row(e, level, w, r)
  PROVE  Row(e, Pair(level), 2 * w, (r + 1) \div 2)
  <1> DEFINE L == Len(e)
             q == (r + 1) \div 2
             Slice(i) == SliceRoot(e, (i - 1) * w, IF i < r THEN i * w ELSE L)
  <1>0. L \in Nat /\ L <= MaxBatchSize /\ r \in Nat /\ r >= 1 /\ w \in Nat /\ w >= 1
    BY DEF Batch, Row, Widths
  <1>1. q \in Nat /\ q >= 1 /\ (r = 2 * q \/ r = 2 * q - 1) BY <1>0
  <1>2. (r - 1) * w < L /\ L <= r * w BY DEF Row
  <1>3. level = [i \in 1 .. r |-> Slice(i)] BY DEF Row
  <1>4. Len(level) = r /\ \A i \in 1 .. r : level[i] = Slice(i) BY <1>0, <1>3
  <1> HIDE DEF L, q
  <1>5. (q - 1) * (2 * w) < L /\ L <= q * (2 * w)
    <2>1. CASE r = 2 * q
      <3>1. (r - 1) * w = (q - 1) * (2 * w) + w /\ r * w = q * (2 * w) BY <1>0, <1>1, <2>1
      <3>2. (q - 1) * (2 * w) \in Int /\ q * (2 * w) \in Int BY <1>0, <1>1
      <3> QED BY <1>0, <1>2, <3>1, <3>2
    <2>2. CASE r = 2 * q - 1
      <3>1. (r - 1) * w = (q - 1) * (2 * w) /\ r * w = q * (2 * w) - w BY <1>0, <1>1, <2>2
      <3>2. (q - 1) * (2 * w) \in Int /\ q * (2 * w) \in Int BY <1>0, <1>1
      <3> QED BY <1>0, <1>2, <3>1, <3>2
    <2> QED BY <1>1, <2>1, <2>2
  <1>6. ASSUME NEW i \in 1 .. q
        PROVE  (IF 2 * i <= r THEN branch(level[2 * i - 1], level[2 * i]) ELSE level[2 * i - 1])
               = SliceRoot(e, (i - 1) * (2 * w), IF i < q THEN i * (2 * w) ELSE L)
    <2> DEFINE from == (i - 1) * (2 * w)
               to == IF i < q THEN i * (2 * w) ELSE L
    <2>1. i \in Nat /\ i >= 1 BY <1>1
    <2>2. from = (2 * i - 1 - 1) * w /\ from + w = (2 * i - 1) * w /\ from + 2 * w = (2 * i) * w
          /\ from + 2 * w = i * (2 * w) /\ from \in Nat
      BY <1>0, <2>1
    <2>3. CASE 2 * i <= r
      <3>1. level[2 * i - 1] = SliceRoot(e, from, from + w)
        <4>1. 2 * i - 1 \in 1 .. r /\ 2 * i - 1 < r BY <1>0, <2>1, <2>3
        <4> QED BY <1>4, <2>2, <4>1
      <3>2. to = IF 2 * i < r THEN (2 * i) * w ELSE L
        <4>1. i < q <=> 2 * i < r BY <1>0, <1>1, <2>1, <2>3
        <4> QED BY <2>2, <4>1
      <3>3. level[2 * i] = SliceRoot(e, from + w, to)
        <4>1. 2 * i \in 1 .. r BY <1>0, <2>1, <2>3
        <4> QED BY <1>4, <2>2, <3>2, <4>1
      <3>4. from + w < to /\ to <= from + 2 * w /\ to <= L /\ to \in Nat
        <4>1. CASE 2 * i < r
          <5>1. to = from + 2 * w BY <2>2, <3>2, <4>1
          <5>2. (2 * i) * w <= (r - 1) * w
            <6>1. r - 1 - 2 * i \in Nat BY <1>0, <2>1, <4>1
            <6>2. (r - 1 - 2 * i) * w >= 0 BY <1>0, <6>1
            <6>3. (r - 1 - 2 * i) * w = (r - 1) * w - (2 * i) * w BY <1>0, <2>1
            <6>4. (r - 1) * w \in Int /\ (2 * i) * w \in Int BY <1>0, <2>1
            <6> QED BY <6>2, <6>3, <6>4
          <5>3. (r - 1) * w \in Int BY <1>0
          <5> HIDE DEF from, to
          <5> QED BY <1>0, <1>2, <2>2, <5>1, <5>2, <5>3
        <4>2. CASE r = 2 * i
          <5>1. to = L BY <3>2, <4>2, <1>0
          <5>2. (2 * i - 1) * w < L /\ L <= (2 * i) * w BY <1>2, <4>2
          <5> HIDE DEF from, to
          <5> QED BY <1>0, <2>2, <5>1, <5>2
        <4> QED BY <1>0, <2>1, <2>3, <4>1, <4>2
      <3> HIDE DEF from, to
      <3>5. /\ from \in 0 .. L /\ to \in 0 .. L /\ w < to - from /\ to - from <= 2 * w BY <1>0, <2>2, <3>4
      <3>6. SliceRoot(e, from, to) = branch(SliceRoot(e, from, from + w), SliceRoot(e, from + w, to)) BY <3>5, Halves DEF L
      <3> QED BY <2>3, <3>1, <3>3, <3>6 DEF from, to
    <2>4. CASE ~(2 * i <= r)
      <3>1. i = q /\ r = 2 * i - 1 BY <1>0, <1>1, <2>1, <2>4
      <3>2. level[2 * i - 1] = SliceRoot(e, (2 * i - 1 - 1) * w, L)
        <4>1. 2 * i - 1 \in 1 .. r /\ ~(2 * i - 1 < r) BY <1>0, <2>1, <3>1
        <4> QED BY <1>4, <4>1
      <3>3. to = L BY <1>0, <3>1, <2>1
      <3> QED BY <2>2, <2>4, <3>2, <3>3
    <2> QED BY <2>3, <2>4
  <1>7. Pair(level) = [i \in 1 .. q |-> SliceRoot(e, (i - 1) * (2 * w), IF i < q THEN i * (2 * w) ELSE L)]
    BY <1>4, <1>6 DEF Pair, q
  <1> QED BY <1>0, <1>1, <1>5, <1>7 DEF Row, L, q

\* The root is the one of the standard's tree (merkleRoot).
LEMMA RootByLevelsIs ==
  ASSUME NEW D, NEW e \in Seq(D), Batch(e)
  PROVE  merkleRoot(e) = RootByLevels(e)
  <1> DEFINE L == Len(e)
             level == Levels(e)
  <1>0. L \in Nat /\ L <= 512 BY Most DEF Batch
  <1>1. CASE e = <<>>
    <2>1. L = 0 BY <1>1, EmptySeq
    <2>2. 0 \in 0 .. L /\ L \in 0 .. L BY <2>1
    <2>3. SliceRoot(e, 0, L) = <<"empty">> BY <2>1, <2>2, RootIs
    <2> QED BY <1>1, <2>3 DEF RootByLevels, merkleRoot, SliceRoot
  <1>2. CASE e # <<>>
    <2>0. L >= 1 BY <1>0, <1>2, EmptySeq
    <2>1. level[0] = [i \in 1 .. L |-> leaf(e[i])]
      <3>1. 0 \in 0 .. MaxPath BY DEF MaxPath
      <3> QED BY <3>1, LevelIs DEF LevelOf
    <2>2. ASSUME NEW n \in 1 .. 9 PROVE level[n] = Pair(level[n - 1])
      <3>1. n \in 0 .. MaxPath /\ n # 0 BY DEF MaxPath
      <3>2. level[n] = LevelOf(e, level, n) BY <3>1, LevelIs
      <3> QED BY <3>1, <3>2 DEF LevelOf
    <2>3. Row(e, level[0], 1, L)
      <3>1. \A i \in 1 .. L : leaf(e[i]) = SliceRoot(e, (i - 1) * 1, IF i < L THEN i * 1 ELSE L)
        <4> SUFFICES ASSUME NEW i \in 1 .. L PROVE leaf(e[i]) = SliceRoot(e, (i - 1) * 1, IF i < L THEN i * 1 ELSE L)
          OBVIOUS
        <4>1. (i - 1) * 1 = i - 1 /\ (IF i < L THEN i * 1 ELSE L) = i BY <1>0
        <4>2. i - 1 \in 0 .. L /\ i \in 0 .. L /\ i = (i - 1) + 1 BY <1>0
        <4>3. SliceRoot(e, i - 1, i) = leaf(e[i]) BY <4>2, RootIs
        <4> QED BY <4>1, <4>3
      <3> HIDE DEF level, L
      <3>2. level[0] = [i \in 1 .. L |-> SliceRoot(e, (i - 1) * 1, IF i < L THEN i * 1 ELSE L)] BY <2>1, <3>1
      <3>3. (L - 1) * 1 < L /\ L <= L * 1 /\ L \in Nat \ {0} BY <1>0, <2>0
      <3> QED BY <3>2, <3>3 DEF Row, L
    <2> HIDE DEF level
    <2>4. ASSUME NEW n \in 1 .. 9, NEW w \in Widths, \E r : Row(e, level[n - 1], w, r)
          PROVE  \E r : Row(e, level[n], 2 * w, r)
      <3>1. PICK r : Row(e, level[n - 1], w, r) BY <2>4
      <3>2. Row(e, Pair(level[n - 1]), 2 * w, (r + 1) \div 2) BY <3>1, RowPairs
      <3> QED BY <2>2, <3>2
    <2>5. \E r : Row(e, level[1], 2, r) BY <2>3, <2>4 DEF Widths
    <2>6. \E r : Row(e, level[2], 4, r) BY <2>5, <2>4 DEF Widths
    <2>7. \E r : Row(e, level[3], 8, r) BY <2>6, <2>4 DEF Widths
    <2>8. \E r : Row(e, level[4], 16, r) BY <2>7, <2>4 DEF Widths
    <2>9. \E r : Row(e, level[5], 32, r) BY <2>8, <2>4 DEF Widths
    <2>10. \E r : Row(e, level[6], 64, r) BY <2>9, <2>4 DEF Widths
    <2>11. \E r : Row(e, level[7], 128, r) BY <2>10, <2>4 DEF Widths
    <2>12. \E r : Row(e, level[8], 256, r) BY <2>11, <2>4 DEF Widths
    <2>13. \E r : Row(e, level[9], 512, r) BY <2>12, <2>4 DEF Widths
    <2>14. PICK r : Row(e, level[9], 512, r) BY <2>13
    <2>15. r = 1 BY <1>0, <2>0, <2>14 DEF Row
    <2>16. level[9][1] = SliceRoot(e, 0, L)
      <3>1. level[9] = [i \in 1 .. 1 |-> SliceRoot(e, (i - 1) * 512, IF i < 1 THEN i * 512 ELSE L)] BY <2>14, <2>15 DEF Row
      <3>2. level[9][1] = SliceRoot(e, (1 - 1) * 512, IF 1 < 1 THEN 1 * 512 ELSE L) BY <3>1
      <3> QED BY <3>2
    <2> QED BY <1>2, <2>16 DEF RootByLevels, merkleRoot, SliceRoot, level, MaxPath
  <1> QED BY <1>1, <1>2

\* A proof under the batch's root is accepted for an entry of it only, and at its own size for the
\* entry at its own place only, whatever its path and whatever size and place it claims
\* (reconstruct, verifyInclusion).
THEOREM NothingElse ==
  ASSUME NEW D, NEW e \in Seq(D), Batch(e), Len(e) > 0, NEW d, NEW proof, verifyInclusion(d, proof),
         proof.root = merkleRoot(e), proof.treeSize \in Nat, proof.position \in Nat
  PROVE  /\ d \in {e[i] : i \in DOMAIN e}
         /\ proof.treeSize = Len(e) => d = e[proof.position + 1]
  <1> DEFINE L == Len(e)
             size == proof.treeSize
             index == proof.position
  <1>1. size \in 1 .. MaxBatchSize /\ index < size
        /\ Raised(d, proof.path, size, size, index).hash = proof.root
    BY DEF verifyInclusion, Raised
  <1>2. Raised(d, proof.path, size, size, index).hash = SliceRoot(e, 0, L) BY <1>1 DEF merkleRoot, SliceRoot
  <1>3. L \in Nat /\ DOMAIN e = 1 .. L /\ 0 \in 0 .. L /\ L \in 0 .. L /\ 0 < L BY LenProperties
  <1>4. size \in 1 .. size /\ index \in 0 .. size - 1
    <2> HIDE DEF size, index
    <2>1. size \in Nat /\ index \in Nat BY DEF size, index
    <2> QED BY <1>1, <2>1
  <1> HIDE DEF L, size, index
  <1>5. \E i \in 0 + 1 .. L : d = e[i] BY <1>1, <1>2, <1>3, <1>4, OnlyMembers DEF L
  <1>6. ASSUME size = L PROVE d = e[index + 1]
    <2>1. L - 0 = size BY <1>3, <1>6
    <2>0. size \in 1 .. MaxBatchSize BY <1>1
    <2>2. \A n \in 1 .. size, i \in 0 .. size - 1, from, to \in 0 .. Len(e) :
            to - from = n /\ i < n /\ Raised(d, proof.path, size, n, i).hash = SliceRoot(e, from, to) => d = e[from + i + 1]
      BY <2>0, OwnPlace
    <2>4. L - 0 = size /\ index < size /\ 0 \in 0 .. L /\ L \in 0 .. L BY <1>1, <1>3, <2>1
    <2>5. d = e[0 + index + 1]
      <3>1. 0 \in 0 .. Len(e) /\ L \in 0 .. Len(e) BY <2>4 DEF L
      <3> QED BY <1>2, <1>4, <2>2, <2>4, <3>1
    <2>3. 0 + index + 1 = index + 1 BY <1>4
    <2> QED BY <2>5, <2>3
  <1>7. d \in {e[i] : i \in DOMAIN e} BY <1>3, <1>5
  <1> QED BY <1>6, <1>7 DEF L, size, index

\* A place's hash is made of its child's and of the first sibling that the child has not used.
Uses(d, s, size, n, index, k) ==
  \E child :
    /\ child = IF index < k THEN Raised(d, s, size, k, index) ELSE Raised(d, s, size, n - k, index - k)
    /\ ~(child.used >= Len(s)) /\ Raised(d, s, size, n, index).used = child.used + 1
    /\ Raised(d, s, size, n, index).hash =
         IF index < k THEN branch(child.hash, s[child.used + 1]) ELSE branch(s[child.used + 1], child.hash)
LEMMA UpUses ==
  ASSUME NEW d, NEW s, NEW size \in 1 .. MaxBatchSize, NEW n \in 2 .. size, NEW index \in 0 .. size - 1, NEW k, k = split(n),
         Raised(d, s, size, n, index).hash # <<"truncated">>
  PROVE  Uses(d, s, size, n, index, k)
  <1> DEFINE child == IF index < k THEN Raised(d, s, size, k, index) ELSE Raised(d, s, size, n - k, index - k)
  <1>1. n \in 1 .. size /\ n # 1 OBVIOUS
  <1>2. Raised(d, s, size, n, index) = UpOf(d, s, reconstruct(d, s, size), n, index) BY <1>1, UpIs
  <1>3. Raised(d, s, size, n, index) =
          IF child.used >= Len(s) THEN [hash |-> <<"truncated">>, used |-> Len(s) + 1]
          ELSE [hash |-> IF index < k THEN branch(child.hash, s[child.used + 1]) ELSE branch(s[child.used + 1], child.hash),
                used |-> child.used + 1]
    BY <1>1, <1>2 DEF UpOf, Raised
  <1>4. child = IF index < k THEN Raised(d, s, size, k, index) ELSE Raised(d, s, size, n - k, index - k)
    OBVIOUS
  <1> HIDE DEF child
  <1> QED BY <1>3, <1>4 DEF Uses

\* The siblings used up to a place of a slice are the path there.
Along(e, d, s, size, index, from, to) ==
  LET way == SlicePath(e, from + index, from, to) IN
  /\ Raised(d, s, size, to - from, index).used = Len(way) /\ Len(way) <= Len(s)
  /\ \A i \in 1 .. Len(way) : s[i] = way[i]

\* Where the size is the slice's own, the siblings used are the path of the place claimed.
LEMMA OwnPath ==
  ASSUME NEW D, NEW e \in Seq(D), Batch(e), NEW d, NEW s, Len(s) \in Nat, NEW size \in 1 .. MaxBatchSize
  PROVE  \A n \in 1 .. size, index \in 0 .. size - 1, from, to \in 0 .. Len(e) :
           to - from = n /\ index < n /\ Raised(d, s, size, n, index).hash = SliceRoot(e, from, to) =>
             Along(e, d, s, size, index, from, to)
  <1> DEFINE Goal(n) == \A index \in 0 .. size - 1, from, to \in 0 .. Len(e) :
               to - from = n /\ index < n /\ Raised(d, s, size, n, index).hash = SliceRoot(e, from, to) =>
                 Along(e, d, s, size, index, from, to)
             S == {n \in Nat : n \in 1 .. size => Goal(n)}
  <1>0. Len(e) \in Nat /\ Len(e) <= MaxBatchSize BY DEF Batch
  <1>1. ASSUME NEW n \in Nat, \A m \in 0 .. n - 1 : m \in S PROVE n \in S
    <2> SUFFICES ASSUME n \in 1 .. size, NEW index \in 0 .. size - 1, NEW from \in 0 .. Len(e), NEW to \in 0 .. Len(e),
                        to - from = n, index < n, Raised(d, s, size, n, index).hash = SliceRoot(e, from, to)
                 PROVE  Along(e, d, s, size, index, from, to)
      OBVIOUS
    <2> DEFINE hash == SliceRoot(e, from, to)
               mid == Middle(from, to)
               k == split(n)
               at == from + index
               way == SlicePath(e, at, from, to)
    <2>0. from \in Nat /\ to \in Nat /\ to - from <= MaxBatchSize /\ index \in Nat BY <1>0, Most
    <2>1. CASE n = 1
      <3>1. to <= from + 1 /\ 1 \in 1 .. size BY <2>0, <2>1
      <3>2. way = <<>> BY <3>1, PathIs
      <3>3. Raised(d, s, size, 1, index) = UpOf(d, s, reconstruct(d, s, size), 1, index) BY <3>1, UpIs
      <3>4. Raised(d, s, size, n, index).used = 0 BY <2>1, <3>3 DEF UpOf
      <3> HIDE DEF way
      <3>5. Len(way) = 0 BY <3>2, EmptySeq
      <3> QED BY <3>4, <3>5 DEF way, Along
    <2>2. CASE n > 1
      <3>1. /\ k \in 1 .. n - 1
            /\ ~(index < k) => n - k \in 1 .. n - 1 /\ index - k \in 0 .. size - 1
        <4>1. n \in 2 .. size BY <2>2
        <4> QED BY <4>1, ChildIs
      <3>2. to > from + 1 /\ mid = from + k BY <2>0, <2>2 DEF Middle
      <3>3. hash = branch(SliceRoot(e, from, mid), SliceRoot(e, mid, to)) BY <2>0, <3>2, RootIs
      <3>4. hash # <<"truncated">> BY <3>3, NotTruncated
      <3>5. mid \in 0 .. Len(e) /\ mid - from = k /\ to - mid = n - k BY <1>0, <2>0, <3>1, <3>2
      <3>6. n \in 2 .. size /\ Raised(d, s, size, n, index).hash # <<"truncated">> BY <2>2, <3>4
      <3> DEFINE inner == IF index < k THEN SlicePath(e, at, from, mid) ELSE SlicePath(e, at, mid, to)
                 other == IF index < k THEN SliceRoot(e, mid, to) ELSE SliceRoot(e, from, mid)
      <3>7. PICK child :
              /\ child = IF index < k THEN Raised(d, s, size, k, index) ELSE Raised(d, s, size, n - k, index - k)
              /\ ~(child.used >= Len(s)) /\ Raised(d, s, size, n, index).used = child.used + 1
              /\ Raised(d, s, size, n, index).hash =
                   IF index < k THEN branch(child.hash, s[child.used + 1]) ELSE branch(s[child.used + 1], child.hash)
        <4>1. k = split(n) /\ n \in 2 .. size /\ Raised(d, s, size, n, index).hash # <<"truncated">> BY <3>6
        <4> HIDE DEF k
        <4>2. Uses(d, s, size, n, index, k) BY <4>1, UpUses
        <4> QED BY <4>2 DEF Uses
      <3>8. index < k <=> at < mid BY <2>0, <3>1, <3>2
      <3>9. way = Append(inner, other) BY <3>2, <3>8, PathIs
      <3>10. /\ child.hash = IF index < k THEN SliceRoot(e, from, mid) ELSE SliceRoot(e, mid, to)
             /\ s[child.used + 1] = other
        <4> HIDE DEF k, mid
        <4> QED BY <3>3, <3>7, BranchInjective
      <3>11. /\ child.used = Len(inner) /\ Len(inner) <= Len(s) /\ \A i \in 1 .. Len(inner) : s[i] = inner[i]
        <4>1. CASE index < k
          <5>1. k \in 0 .. n - 1 /\ k \in 1 .. size BY <3>1
          <5>2. Goal(k) BY <1>1, <5>1
          <5> HIDE DEF k, mid, at
          <5>3. child = Raised(d, s, size, k, index) BY <3>7, <4>1
          <5>4. Along(e, d, s, size, index, from, mid) BY <3>5, <3>10, <4>1, <5>2, <5>3
          <5> QED BY <3>5, <4>1, <5>3, <5>4 DEF at, Along
        <4>2. CASE ~(index < k)
          <5>1. n - k \in 0 .. n - 1 /\ n - k \in 1 .. size BY <3>1, <4>2
          <5>2. Goal(n - k) BY <1>1, <5>1
          <5>3. mid + (index - k) = at /\ index - k < n - k BY <2>0, <3>1, <3>2
          <5> HIDE DEF k, mid, at
          <5>4. child = Raised(d, s, size, n - k, index - k) BY <3>7, <4>2
          <5>5. Along(e, d, s, size, index - k, mid, to) BY <3>1, <3>5, <3>10, <4>2, <5>2, <5>3, <5>4
          <5> QED BY <3>5, <4>2, <5>3, <5>4, <5>5 DEF Along
        <4> QED BY <4>1, <4>2
      <3>12. inner \in Seq(Hashes(e))
        <4>1. at \in 0 .. Len(e) - 1 /\ from \in 0 .. at /\ to \in at + 1 .. Len(e) BY <1>0, <2>0
        <4>2. CASE index < k
          <5>1. mid \in at + 1 .. Len(e) BY <3>2, <3>5, <3>8, <4>1, <4>2
          <5> HIDE DEF mid, at, k
          <5>2. Leads(e, SlicePath(e, at, from, mid), e[at + 1], mid - from, at - from, SliceRoot(e, from, mid)) BY <4>1, <5>1, PathLeads
          <5> QED BY <4>2, <5>2 DEF Leads
        <4>3. CASE ~(index < k)
          <5>1. mid \in 0 .. at BY <3>5, <3>8, <4>1, <4>3
          <5> HIDE DEF mid, at, k
          <5>2. Leads(e, SlicePath(e, at, mid, to), e[at + 1], to - mid, at - mid, SliceRoot(e, mid, to)) BY <4>1, <5>1, PathLeads
          <5> QED BY <4>3, <5>2 DEF Leads
        <4> QED BY <4>2, <4>3
      <3> DEFINE more == Append(inner, other)
      <3>13. other \in Hashes(e) BY <3>5 DEF Hashes
      <3> HIDE DEF inner, other, k, mid
      <3>14. /\ Len(inner) \in Nat /\ Len(more) = Len(inner) + 1 /\ more[Len(inner) + 1] = other
             /\ \A i \in 1 .. Len(inner) : more[i] = inner[i]
        BY <3>12, <3>13, AppendProperties, LenProperties
      <3> HIDE DEF more
      <3>15. Raised(d, s, size, n, index).used = Len(more) /\ Len(more) <= Len(s)
        <4>1. child.used = Len(inner) /\ ~(child.used >= Len(s)) /\ Raised(d, s, size, n, index).used = child.used + 1
          BY <3>7, <3>11
        <4> QED BY <3>14, <4>1
      <3>16. ASSUME NEW i \in 1 .. Len(more) PROVE s[i] = more[i]
        <4>1. i \in 1 .. Len(inner) \/ i = Len(inner) + 1 BY <3>14
        <4> QED BY <3>10, <3>11, <3>14, <4>1
      <3>17. way = more BY <3>9 DEF more
      <3> HIDE DEF way
      <3> QED BY <3>15, <3>16, <3>17 DEF way, at, Along
    <2> QED BY <2>1, <2>2
  <1>2. \A n \in Nat : n \in S
    <2>1. S \subseteq Nat OBVIOUS
    <2> HIDE DEF S
    <2> QED BY <1>1, <2>1, Inducts
  <1>3. ASSUME NEW n \in 1 .. size PROVE Goal(n)
    <2>1. n \in Nat OBVIOUS
    <2> QED BY <1>2, <2>1
  <1> HIDE DEF S
  <1> QED BY <1>3

\* Under the batch's root and size exactly one proof is accepted for each place, the one inclusion makes,
\* and for the record at that place only: no accepted proof can be changed into another
\* (inclusion, verifyInclusion).
THEOREM OneProofEach ==
  ASSUME NEW D, NEW e \in Seq(D), Batch(e), Len(e) > 0, NEW d, NEW X,
         NEW proof \in [treeSize : {Len(e)}, position : Nat, root : {merkleRoot(e)}, path : Seq(X)]
  PROVE  verifyInclusion(d, proof) <=>
           \E position \in 0 .. Len(e) - 1 : proof = inclusion(e, position) /\ d = e[position + 1]
  <1> DEFINE L == Len(e)
             index == proof.position
  <1>0. L \in Nat /\ L <= MaxBatchSize /\ L > 0 /\ index \in Nat BY DEF Batch
  <1>1. ASSUME verifyInclusion(d, proof)
        PROVE  \E position \in 0 .. L - 1 : proof = inclusion(e, position) /\ d = e[position + 1]
    <2>1. /\ index < L /\ Raised(d, proof.path, L, L, index).hash = merkleRoot(e)
          /\ Raised(d, proof.path, L, L, index).used = Len(proof.path)
      BY <1>1 DEF verifyInclusion, Raised
    <2>2. index \in 0 .. L - 1 BY <1>0, <2>1
    <2>3. d = e[index + 1] BY <1>0, <1>1, NothingElse
    <2> DEFINE way == SlicePath(e, index, 0, L)
    <2>4. Len(proof.path) \in Nat /\ proof.path \in Seq(X) BY LenProperties
    <2>5. Raised(d, proof.path, L, L, index).used = Len(way) /\ \A i \in 1 .. Len(way) : proof.path[i] = way[i]
      <3>1. /\ L \in 1 .. MaxBatchSize /\ L \in 1 .. L /\ 0 \in 0 .. Len(e) /\ L \in 0 .. Len(e)
            /\ L - 0 = L /\ 0 + index = index
        BY <1>0
      <3>2. merkleRoot(e) = SliceRoot(e, 0, L) BY DEF merkleRoot, SliceRoot
      <3> HIDE DEF L, index
      <3>3. \A n \in 1 .. L, i \in 0 .. L - 1, from, to \in 0 .. Len(e) :
              to - from = n /\ i < n /\ Raised(d, proof.path, L, n, i).hash = SliceRoot(e, from, to) =>
                Along(e, d, proof.path, L, i, from, to)
        BY <2>4, <3>1, OwnPath
      <3>4. Along(e, d, proof.path, L, index, 0, L) BY <2>1, <2>2, <3>1, <3>2, <3>3
      <3> QED BY <3>1, <3>4 DEF Along
    <2>6. way \in Seq(Hashes(e))
      <3>1. 0 \in 0 .. index /\ L \in index + 1 .. Len(e) BY <1>0, <2>1
      <3> HIDE DEF L, index
      <3>2. Leads(e, SlicePath(e, index, 0, L), e[index + 1], L - 0, index - 0, SliceRoot(e, 0, L)) BY <2>2, <3>1, PathLeads DEF L
      <3> QED BY <3>2 DEF Leads
    <2>7. proof.path = way
      <3> HIDE DEF way
      <3>1. Len(proof.path) = Len(way) BY <2>1, <2>5
      <3>2. \A i \in 1 .. Len(proof.path) : proof.path[i] = way[i] BY <2>5, <3>1
      <3>3. proof.path \in Seq(X \cup Hashes(e)) /\ way \in Seq(X \cup Hashes(e)) BY <2>4, <2>6
      <3> QED BY <3>1, <3>2, <3>3, SeqEqual
    <2>8. inclusion(e, index) = [treeSize |-> L, position |-> index, root |-> merkleRoot(e), path |-> way]
      BY DEF inclusion, SlicePath
    <2>9. proof = inclusion(e, index) BY <2>7, <2>8
    <2> QED BY <2>2, <2>3, <2>9
  <1>2. ASSUME NEW position \in 0 .. L - 1, proof = inclusion(e, position), d = e[position + 1]
        PROVE  verifyInclusion(d, proof)
    BY <1>2, Included
  <1> QED BY <1>1, <1>2

\* What InclusionSound says of the run's batches holds of every batch the program takes.
LEMMA Exact ==
  ASSUME NEW D, NEW e \in Seq(D), Batch(e), NEW digests
  PROVE  InclusionExact(e, digests)
  <1>1. merkleRoot(e) = RootByLevels(e) BY RootByLevelsIs
  <1>2. ASSUME NEW position \in 0 .. Len(e) - 1
        PROVE  /\ verifyInclusion(e[position + 1], inclusion(e, position))
               /\ \A digest \in digests, other \in Tampered(inclusion(e, position), 1 .. Len(e) + 1) :
                    verifyInclusion(digest, other) =>
                      /\ digest \in {e[i] : i \in DOMAIN e}
                      /\ other.treeSize = Len(e) => digest = e[other.position + 1]
    <2>1. verifyInclusion(e[position + 1], inclusion(e, position)) BY Included
    <2> DEFINE proof == inclusion(e, position)
    <2>2. ASSUME NEW digest \in digests, NEW other \in Tampered(proof, 1 .. Len(e) + 1), verifyInclusion(digest, other)
          PROVE  /\ digest \in {e[i] : i \in DOMAIN e}
                 /\ other.treeSize = Len(e) => digest = e[other.position + 1]
      <3>1. PICK size \in 1 .. Len(e) + 1, place \in 0 .. Len(proof.path) + proof.treeSize, way \in OtherPaths(proof) :
              other = [treeSize |-> size, position |-> place, root |-> proof.root, path |-> way]
        BY <2>2 DEF Tampered
      <3>2. proof.root = merkleRoot(e) BY DEF inclusion
      <3> HIDE DEF proof
      <3>3. other.treeSize = size /\ other.position = place /\ other.root = merkleRoot(e) BY <3>1, <3>2
      <3>4. Len(e) \in Nat /\ Len(e) > 0 BY LenProperties
      <3>5. size \in Nat /\ place \in Nat BY <3>4
      <3> QED BY <2>2, <3>3, <3>4, <3>5, NothingElse
    <2> QED BY <2>1, <2>2
  <1> QED BY <1>1, <1>2 DEF InclusionExact
-----------------------------------------------------------------------------
\* The run's batches are sequences of its digests that are short enough.
LEMMA BatchesAre ==
  ASSUME NEW b \in Batches
  PROVE  b \in Seq({Digests[i] : i \in DOMAIN Digests}) /\ Batch(b) /\ Len(b) > 0
  <1> DEFINE D == {Digests[i] : i \in DOMAIN Digests}
  <1>1. PICK n \in 1 .. Len(Digests) : b = SubSeq(Digests, 1, n) BY DEF Batches
  <1>2. Digests \in Seq(D) /\ Len(Digests) <= MaxBatchSize BY ArchiveAssumption
  <1> HIDE DEF D
  <1>3. Len(Digests) \in Nat /\ 0 \in 0 .. Len(Digests) /\ n \in 0 .. Len(Digests) BY <1>2, LenProperties
  <1>4. SubSeq(Digests, 0 + 1, n) \in Seq(D) /\ Len(SubSeq(Digests, 0 + 1, n)) = n - 0 BY <1>2, <1>3, SliceIs
  <1>5. 0 + 1 = 1 /\ n - 0 = n /\ n \in Nat /\ n > 0 BY <1>1
  <1>6. b \in Seq(D) /\ Len(b) = n BY <1>1, <1>4, <1>5
  <1> QED BY <1>2, <1>3, <1>5, <1>6, Most DEF Batch, D

\* What was anchored together does not change.
Fixed == batch \in Batches
LEMMA BatchStays == Fixed /\ [Next]_vars => Fixed'
  <1> SUFFICES ASSUME [Next]_vars PROVE batch' = batch
    BY DEF Fixed, Batches
  <1>1. FastNext => batch' = batch
    BY DEF FastNext, Tick, Confirmed, ReadPending, ReadBlock, ReadProof, Reads, ObserverFails, ChildCloses,
           TimerFires, Verified
  <1> QED BY <1>1 DEF Next, vars

LEMMA InitBatch == Init => Fixed
  <1>1. 1 \in 1 .. Len(Digests) BY ArchiveAssumption, LenProperties
  <1>2. SubSeq(Digests, 1, 1) \in Batches BY <1>1 DEF Batches
  <1> QED BY <1>2 DEF Fixed, Init, Confirming, Receiving

LEMMA AlwaysBatch == Spec => []Fixed
  BY InitBatch, BatchStays, PTL DEF Spec

\* For every batch of up to 512 records: every record's proof is accepted, the root is the one of the
\* standard's tree, and no proof under it, of whatever claimed size, place or path, is accepted for
\* another record, or at the batch's own size for another place (merkleRoot, inclusion, verifyInclusion).
THEOREM ProofsAreExact == Spec => []InclusionSound
  <1>1. Fixed => InclusionSound BY BatchesAre, Exact DEF Fixed, InclusionSound
  <1> QED BY <1>1, AlwaysBatch, PTL
-----------------------------------------------------------------------------
\* Division by an interval's length.
LEMMA Divides ==
  ASSUME NEW q \in Nat, NEW k \in Nat \ {0}, NEW r \in 0 .. k - 1
  PROVE  (q * k + r) \div k = q /\ (q * k + r) % k = r
  OBVIOUS
LEMMA Divided ==
  ASSUME NEW k \in Nat \ {0}
  PROVE  \A n \in Nat : \E q \in Nat, r \in 0 .. k - 1 : n = q * k + r
  <1> DEFINE S == {n \in Nat : \E q \in Nat, r \in 0 .. k - 1 : n = q * k + r}
  <1>1. ASSUME NEW n \in Nat, \A m \in 0 .. n - 1 : m \in S PROVE n \in S
    <2>1. CASE n < k
      <3>1. n = 0 * k + n /\ n \in 0 .. k - 1 /\ 0 \in Nat BY <2>1
      <3> QED BY <3>1
    <2>2. CASE n >= k
      <3>1. n - k \in 0 .. n - 1 BY <2>2
      <3>2. PICK q \in Nat, r \in 0 .. k - 1 : n - k = q * k + r BY <1>1, <3>1
      <3>3. q + 1 \in Nat /\ n = (q + 1) * k + r
        <4>1. (q + 1) * k = q * k + k OBVIOUS
        <4>2. q * k \in Nat OBVIOUS
        <4> QED BY <3>2, <4>1, <4>2
      <3> QED BY <3>3
    <2> QED BY <2>1, <2>2
  <1>2. S \subseteq Nat OBVIOUS
  <1> HIDE DEF S
  <1>3. \A n \in Nat : n \in S BY <1>1, <1>2, Inducts
  <1> QED BY <1>3 DEF S
LEMMA Below ==
  ASSUME NEW a \in Nat, NEW b \in Nat, NEW k \in Nat \ {0}, a * k < b * k
  PROVE  a < b
  OBVIOUS

\* What verify has proved after so many links (ChainFrom).
ProvedAt(archive, checkpoint, proved, i) ==
  IF i = 0 THEN Proved(checkpoint.last, checkpoint.voters, None) ELSE Extends(proved[i - 1], archive, i)

LEMMA ChainExists ==
  ASSUME NEW archive, NEW checkpoint, Len(archive.chain) \in Nat
  PROVE  \E proved : proved = [i \in 0 .. Len(archive.chain) |-> ProvedAt(archive, checkpoint, proved, i)]
  <1> DEFINE N == Len(archive.chain)
             At(proved, i) == ProvedAt(archive, checkpoint, proved, i)
             Solves(proved, n) == \A m \in 0 .. n : proved[m] = At(proved, m)
             S == {n \in Nat : \E proved : Solves(proved, n)}
  <1>0. ASSUME NEW f, NEW g, NEW m, m # 0 => f[m - 1] = g[m - 1] PROVE At(f, m) = At(g, m)
    BY <1>0 DEF ProvedAt
  <1> HIDE DEF At
  <1>1. ASSUME NEW n \in Nat, \A m \in 0 .. n - 1 : m \in S PROVE n \in S
    <2>1. \E proved : n > 0 => Solves(proved, n - 1)
      <3>1. CASE n > 0
        <4>1. n - 1 \in 0 .. n - 1 BY <3>1
        <4>2. n - 1 \in S BY <1>1, <4>1
        <4> QED BY <4>2
      <3> QED BY <3>1
    <2>2. PICK proved : n > 0 => Solves(proved, n - 1) BY <2>1
    <2> DEFINE more == [m \in Nat |-> At(proved, m)]
    <2>3. \A m \in Nat : more[m] = At(proved, m) OBVIOUS
    <2> HIDE DEF more
    <2>4. ASSUME NEW m \in 0 .. n PROVE more[m] = At(more, m)
      <3>1. m # 0 => more[m - 1] = proved[m - 1]
        <4> SUFFICES ASSUME m # 0 PROVE more[m - 1] = proved[m - 1]
          OBVIOUS
        <4>1. m - 1 \in 0 .. n - 1 /\ m - 1 \in Nat /\ n > 0 OBVIOUS
        <4>2. proved[m - 1] = At(proved, m - 1) BY <2>2, <4>1
        <4> QED BY <2>3, <4>1, <4>2
      <3>2. m \in Nat /\ more[m] = At(proved, m) BY <2>3
      <3> QED BY <1>0, <3>1, <3>2
    <2>5. Solves(more, n) BY <2>4
    <2> QED BY <2>5
  <1>2. \A n \in Nat : n \in S
    <2>1. S \subseteq Nat OBVIOUS
    <2> HIDE DEF S
    <2> QED BY <1>1, <2>1, Inducts
  <1>3. PICK proved : Solves(proved, N) BY <1>2
  <1> DEFINE all == [i \in 0 .. N |-> proved[i]]
  <1>4. \A i \in 0 .. N : all[i] = At(all, i)
    <2> SUFFICES ASSUME NEW i \in 0 .. N PROVE proved[i] = At(all, i)
      OBVIOUS
    <2>1. proved[i] = At(proved, i) BY <1>3
    <2>2. i # 0 => i - 1 \in 0 .. N OBVIOUS
    <2>3. i # 0 => all[i - 1] = proved[i - 1] BY <2>2
    <2> HIDE DEF all
    <2> QED BY <1>0, <2>1, <2>3
  <1>5. all = [i \in 0 .. N |-> all[i]] OBVIOUS
  <1> HIDE DEF all
  <1>6. all = [i \in 0 .. N |-> At(all, i)] BY <1>4, <1>5
  <1> QED BY <1>6 DEF At

LEMMA ChainIs ==
  ASSUME NEW archive, NEW checkpoint, Len(archive.chain) \in Nat
  PROVE  \E proved :
           /\ proved[0] = Proved(checkpoint.last, checkpoint.voters, None)
           /\ \A i \in 1 .. Len(archive.chain) : proved[i] = Extends(proved[i - 1], archive, i)
           /\ ChainFrom(archive, checkpoint) = proved[Len(archive.chain)]
  <1> DEFINE N == Len(archive.chain)
             Solution(proved) == proved = [i \in 0 .. N |-> ProvedAt(archive, checkpoint, proved, i)]
             proved == CHOOSE f : Solution(f)
  <1>1. ChainFrom(archive, checkpoint) = proved[N] BY Zenon DEF ChainFrom, ProvedAt
  <1>2. \E f : Solution(f) BY ChainExists
  <1>3. Solution(proved) BY <1>2, Zenon
  <1> HIDE DEF proved
  <1>4. \A i \in 0 .. N : proved[i] = ProvedAt(archive, checkpoint, proved, i) BY <1>3
  <1> HIDE DEF Solution
  <1>5. proved[0] = Proved(checkpoint.last, checkpoint.voters, None) BY <1>4 DEF ProvedAt
  <1>6. \A i \in 1 .. N : proved[i] = Extends(proved[i - 1], archive, i)
    <2> SUFFICES ASSUME NEW i \in 1 .. N PROVE proved[i] = Extends(proved[i - 1], archive, i)
      OBVIOUS
    <2>1. i \in 0 .. N /\ i # 0 OBVIOUS
    <2> QED BY <1>4, <2>1 DEF ProvedAt
  <1> QED BY <1>1, <1>5, <1>6
-----------------------------------------------------------------------------
\* The network's rounds and the links of its State Proofs.
LEMMA NetworkIs ==
  /\ Rounds \in Nat \ {0} /\ Interval \in Nat \ {0} /\ MaxLinks \in Nat \ {0} /\ Interval < Rounds
  /\ Rounds \div Interval \in Nat /\ Rounds = (Rounds \div Interval) * Interval /\ Rounds \div Interval > 1
  <1>1. /\ Rounds \in Nat \ {0} /\ Interval \in Nat \ {0} /\ MaxLinks \in Nat \ {0} /\ Rounds % Interval = 0
        /\ Interval < Rounds
    BY ArchiveAssumption
  <1>2. PICK q \in Nat, r \in 0 .. Interval - 1 : Rounds = q * Interval + r BY <1>1, Divided
  <1>3. Rounds \div Interval = q /\ r = 0 BY <1>1, <1>2, Divides
  <1>4. q * Interval = Rounds BY <1>1, <1>2, <1>3
  <1>5. 1 * Interval < q * Interval BY <1>1, <1>4
  <1>6. 1 < q BY <1>1, <1>5, Below
  <1> QED BY <1>1, <1>3, <1>4, <1>6

LEMMA LinkIs ==
  ASSUME NEW link \in Links, NEW s \in Nat \ {0}, link.signers = s
  PROVE  link = Attested(s)
  BY DEF Links, Link, Attested

LEMMA AttestedIs ==
  ASSUME NEW k \in Nat \ {0}
  PROVE  /\ Attested(k).first = (k - 1) * Interval + 1 /\ Attested(k).last = k * Interval
         /\ Attested(k).signers = k /\ Attested(k).next = k + 1
  BY DEF Link, Attested

\* A chain that starts where the network's first interval ended holds, as far as it goes, when it is
\* the network's own and no link but the last holds the round.
Within(archive, j) == archive.round \in archive.chain[j].first .. archive.chain[j].last
Own(archive, i) ==
  \A j \in 1 .. i : archive.chain[j] = Attested(1 + j) /\ (j < Len(archive.chain) => ~Within(archive, j))

LEMMA OwnOnly ==
  ASSUME NEW archive, archive.chain \in Seq(Links), NEW proved,
         proved[0] = Proved(Interval, 2, None),
         \A i \in 1 .. Len(archive.chain) : proved[i] = Extends(proved[i - 1], archive, i)
  PROVE  \A i \in 0 .. Len(archive.chain) :
           /\ proved[i].ok <=> Own(archive, i)
           /\ Own(archive, i) =>
                proved[i] = Proved((1 + i) * Interval, 2 + i,
                                   IF i # 0 /\ i = Len(archive.chain) /\ Within(archive, i) THEN archive.chain[i] ELSE None)
  <1> DEFINE N == Len(archive.chain)
             Target(i) == IF i # 0 /\ i = N /\ Within(archive, i) THEN archive.chain[i] ELSE None
             Goal(i) == /\ proved[i].ok <=> Own(archive, i)
                        /\ Own(archive, i) => proved[i] = Proved((1 + i) * Interval, 2 + i, Target(i))
             S == {i \in Nat : i \in 0 .. N => Goal(i)}
  <1>0. N \in Nat /\ Interval \in Nat /\ \A i \in 1 .. N : archive.chain[i] \in Links
    BY NetworkIs, ElementOfSeq, LenProperties
  <1>1. ASSUME NEW i \in Nat, \A m \in 0 .. i - 1 : m \in S PROVE i \in S
    <2> SUFFICES ASSUME i \in 0 .. N PROVE Goal(i)
      OBVIOUS
    <2>1. CASE i = 0
      <3>1. Own(archive, 0) BY DEF Own
      <3>2. (1 + 0) * Interval = Interval /\ 2 + 0 = 2 /\ Target(0) = None BY <1>0
      <3>3. proved[0] = Proved((1 + 0) * Interval, 2 + 0, Target(0)) BY <3>2
      <3>4. proved[0].ok BY DEF Proved
      <3> QED BY <2>1, <3>1, <3>3, <3>4
    <2>2. CASE i # 0
      <3> DEFINE link == archive.chain[i]
                 before == proved[i - 1]
      <3>1. i - 1 \in 0 .. i - 1 /\ i - 1 \in 0 .. N /\ i \in 1 .. N BY <2>2
      <3>2. i - 1 \in S BY <1>1, <3>1
      <3>3. Goal(i - 1) BY <3>1, <3>2
      <3>4. Target(i - 1) = None /\ (1 + (i - 1)) * Interval = i * Interval /\ 2 + (i - 1) = 1 + i
        BY <1>0, <3>1
      <3> HIDE DEF Target
      <3>5. /\ before.ok <=> Own(archive, i - 1)
            /\ Own(archive, i - 1) => before = Proved(i * Interval, 1 + i, None)
        BY <3>3, <3>4
      <3>6. Own(archive, i) <=> Own(archive, i - 1) /\ link = Attested(1 + i) /\ (i < N => ~Within(archive, i))
        <4>1. \A j \in 1 .. i : j \in 1 .. i - 1 \/ j = i BY <3>1
        <4>2. \A j \in 1 .. i - 1 : j \in 1 .. i BY <3>1
        <4>3. i \in 1 .. i BY <3>1
        <4> QED BY <4>1, <4>2, <4>3 DEF Own
      <3>7. proved[i] = Extends(before, archive, i) BY <3>1
      <3>8. CASE Own(archive, i - 1)
        <4>1. before = Proved(i * Interval, 1 + i, None) BY <3>5, <3>8
        <4>2. before.ok /\ before.last = i * Interval /\ before.voters = 1 + i /\ before.target = None
          BY <4>1 DEF Proved
        <4>3. link \in Links BY <1>0, <3>1
        <4>4. CASE link = Attested(1 + i)
          <5>1. link.first = i * Interval + 1 /\ link.last = (1 + i) * Interval /\ link.signers = 1 + i /\ link.next = 2 + i
            <6>1. 1 + i \in Nat \ {0} /\ (1 + i) - 1 = i /\ (1 + i) + 1 = 2 + i BY <3>1
            <6> QED BY <4>4, <6>1, AttestedIs
          <5>2. (1 + i) * Interval = i * Interval + Interval BY <1>0
          <5>3. CASE Within(archive, i) /\ i # N
            <6>1. proved[i] = Broken BY <3>7, <5>3 DEF Extends, Within
            <6>2. i < N BY <3>1, <5>3
            <6> QED BY <3>6, <5>3, <6>1, <6>2 DEF Broken
          <5>4. CASE ~(Within(archive, i) /\ i # N)
            <6>1. proved[i] = Proved(link.last, link.next, IF Within(archive, i) THEN link ELSE None)
              BY <3>7, <4>2, <5>1, <5>2, <5>4 DEF Extends, Within
            <6>2. Target(i) = IF Within(archive, i) THEN link ELSE None BY <3>1, <5>4 DEF Target
            <6>3. proved[i] = Proved((1 + i) * Interval, 2 + i, Target(i)) BY <5>1, <6>1, <6>2
            <6>4. Own(archive, i) BY <3>6, <3>8, <4>4, <5>4
            <6>5. proved[i].ok BY <6>3 DEF Proved
            <6> QED BY <6>3, <6>4, <6>5
          <5> QED BY <5>3, <5>4
        <4>5. CASE link # Attested(1 + i)
          <5>1. 1 + i \in Nat \ {0} OBVIOUS
          <5>2. link.signers # before.voters BY <4>2, <4>3, <4>5, <5>1, LinkIs
          <5>3. proved[i] = Broken BY <3>7, <5>2 DEF Extends
          <5> QED BY <3>6, <4>5, <5>3 DEF Broken
        <4> QED BY <4>4, <4>5
      <3>9. CASE ~Own(archive, i - 1)
        <4>1. proved[i] = Broken BY <3>5, <3>7, <3>9 DEF Extends
        <4> QED BY <3>6, <3>9, <4>1 DEF Broken
      <3> QED BY <3>8, <3>9
    <2> QED BY <2>1, <2>2
  <1>2. \A i \in Nat : i \in S
    <2>1. S \subseteq Nat OBVIOUS
    <2> HIDE DEF S
    <2> QED BY <1>1, <2>1, Inducts
  <1>3. ASSUME NEW i \in 0 .. N PROVE Goal(i)
    <2>1. i \in Nat OBVIOUS
    <2> QED BY <1>2, <2>1
  <1> HIDE DEF S
  <1> QED BY <1>3
-----------------------------------------------------------------------------
\* An archive as anyone can write one.
Notes == {Payload, merkleRoot(OtherBatch)}
Headed == [round : Nat, by : {"network", "forger"}]
Archives ==
  [kind : {"archive"}, round : Nat \ {0}, note : Notes, full : Headed, light : Headed, index : Nat, chain : Seq(Links)]
Placed == placed \in Nat /\ placed <= Rounds

LEMMA BlockIs == \A round : Block(round) = [round |-> round, by |-> "network"]
  BY DEF Block, Header

\* The archive of what was placed after the first interval.
LEMMA TrueIs ==
  ASSUME Placed, placed > Interval
  PROVE  \E q \in Nat \ {0}, r \in 0 .. Interval - 1 :
           /\ placed = q * Interval + r + 1 /\ q + 1 <= Rounds \div Interval
           /\ ArchiveFrom(1) = [kind |-> "archive", round |-> placed, note |-> Payload, full |-> Block(placed),
                                light |-> Block(placed), index |-> r, chain |-> [i \in 1 .. q |-> Attested(1 + i)]]
  <1> DEFINE R == Rounds \div Interval
  <1>0. Interval \in Nat \ {0} /\ placed \in Nat /\ placed <= Rounds /\ R \in Nat /\ Rounds = R * Interval
    BY NetworkIs DEF Placed
  <1>1. placed - 1 \in Nat BY <1>0
  <1>2. PICK q \in Nat, r \in 0 .. Interval - 1 : placed - 1 = q * Interval + r BY <1>0, <1>1, Divided
  <1>3. (placed - 1) \div Interval = q /\ (placed - 1) % Interval = r BY <1>0, <1>2, Divides
  <1> HIDE DEF R
  <1>4. q # 0
    <2>1. SUFFICES ASSUME q = 0 PROVE FALSE
      OBVIOUS
    <2>2. q * Interval = 0 BY <1>0, <2>1
    <2> QED BY <1>0, <1>2, <2>2
  <1>5. q < R
    <2>1. q * Interval \in Nat /\ r \in Nat BY <1>0
    <2>2. q * Interval < R * Interval BY <1>0, <1>2, <2>1
    <2> QED BY <1>0, <2>2, Below
  <1>6. placed = q * Interval + r + 1 BY <1>0, <1>2
  <1>7. (q + 1) - 1 = q OBVIOUS
  <1>8. ArchiveFrom(1) = [kind |-> "archive", round |-> placed, note |-> Payload, full |-> Block(placed),
                          light |-> Block(placed), index |-> r, chain |-> [i \in 1 .. q |-> Attested(1 + i)]]
    BY <1>3, <1>7 DEF ArchiveFrom
  <1>9. q \in Nat \ {0} /\ q + 1 <= Rounds \div Interval BY <1>0, <1>4, <1>5 DEF R
  <1> QED BY <1>6, <1>8, <1>9

\* Which archives pass every check of Verify against the checkpoint after the first interval.
Passes(archive, payload) ==
  LET N == Len(archive.chain) IN
  /\ N # 0 /\ TransactionHolds(archive, payload) /\ N <= MaxLinks
  /\ Own(archive, N) /\ Within(archive, N) /\ HeaderHolds(archive, archive.chain[N])

LEMMA ChainHolds ==
  ASSUME NEW archive \in Archives
  PROVE  LET N == Len(archive.chain)
             proved == ChainFrom(archive, Checkpoint(1)) IN
         /\ proved.ok /\ proved.target # None <=> N # 0 /\ Own(archive, N) /\ Within(archive, N)
         /\ proved.ok /\ proved.target # None => proved.target = archive.chain[N]
  <1> DEFINE N == Len(archive.chain)
  <1>1. archive.chain \in Seq(Links) BY DEF Archives
  <1>2. N \in Nat BY <1>1, LenProperties
  <1>3. PICK proved :
           /\ proved[0] = Proved(Checkpoint(1).last, Checkpoint(1).voters, None)
           /\ \A i \in 1 .. N : proved[i] = Extends(proved[i - 1], archive, i)
           /\ ChainFrom(archive, Checkpoint(1)) = proved[N]
    BY <1>2, ChainIs
  <1>4. Checkpoint(1).last = Interval /\ Checkpoint(1).voters = 2 BY NetworkIs DEF Checkpoint
  <1>5. N \in 0 .. N BY <1>2
  <1>6. /\ proved[N].ok <=> Own(archive, N)
        /\ Own(archive, N) =>
              proved[N] = Proved((1 + N) * Interval, 2 + N,
                                 IF N # 0 /\ N = N /\ Within(archive, N) THEN archive.chain[N] ELSE None)
    BY <1>1, <1>3, <1>4, <1>5, OwnOnly
  <1>7. N # 0 => archive.chain[N] # None
    <2>1. N # 0 => archive.chain[N] \in Links BY <1>1, <1>2, ElementOfSeq
    <2> QED BY <2>1, LinkAssumption
  <1>8. Own(archive, N) =>
          proved[N].target = IF N # 0 /\ Within(archive, N) THEN archive.chain[N] ELSE None
    BY <1>6 DEF Proved
  <1> QED BY <1>3, <1>6, <1>7, <1>8

LEMMA VerifyPasses ==
  ASSUME NEW archive \in Archives, NEW payload
  PROVE  Verify(archive, Checkpoint(1), payload) \in
           IF Passes(archive, payload)
           THEN {Report("CONSENSUS_VERIFIED", IF archive.full = archive.light THEN "BLOCK_HASH_BOUND" ELSE "INVALID")}
           ELSE {Invalid, Unsupported, Indeterminate}
  <1> DEFINE N == Len(archive.chain)
             proved == ChainFrom(archive, Checkpoint(1))
             last == archive.chain[N]
  <1>1. archive.kind = "archive" /\ archive.chain \in Seq(Links) BY DEF Archives
  <1>2. N \in Nat /\ (archive.chain = <<>> <=> N = 0) BY <1>1, LenProperties, EmptySeq
  <1>3. Checkpoint(1).last # 0 BY NetworkIs DEF Checkpoint
  <1>4. /\ proved.ok /\ proved.target # None <=> N # 0 /\ Own(archive, N) /\ Within(archive, N)
        /\ proved.ok /\ proved.target # None => proved.target = last
    BY ChainHolds
  <1>5. MaxLinks \in Nat BY NetworkIs
  <1> HIDE DEF proved, last, N
  <1>6. Passes(archive, payload) <=>
          /\ N # 0 /\ TransactionHolds(archive, payload) /\ N <= MaxLinks
          /\ Own(archive, N) /\ Within(archive, N) /\ HeaderHolds(archive, last)
    BY DEF Passes, N, last
  <1>7. Verify(archive, Checkpoint(1), payload) =
          IF N = 0 THEN Indeterminate
          ELSE IF ~TransactionHolds(archive, payload) THEN Invalid
          ELSE IF N > MaxLinks THEN Unsupported
          ELSE IF ~proved.ok THEN Invalid
          ELSE IF proved.target = None THEN Indeterminate
          ELSE IF ~HeaderHolds(archive, proved.target) THEN Invalid
          ELSE Report("CONSENSUS_VERIFIED", IF archive.full = archive.light THEN "BLOCK_HASH_BOUND" ELSE "INVALID")
    BY <1>1, <1>2, <1>3 DEF Verify, N, proved
  <1> QED BY <1>2, <1>4, <1>5, <1>6, <1>7
-----------------------------------------------------------------------------
\* Such an archive is the network's own, but for its full header, and the network's own pass.
Genuine(archive, payload) ==
  /\ payload = Payload /\ placed > Interval /\ archive = WithHeader(ArchiveFrom(1), archive.full)
  /\ archive.full.round = placed /\ Len(archive.chain) <= MaxLinks

LEMMA WithHeaderIs ==
  ASSUME NEW true \in Archives, NEW full
  PROVE  WithHeader(true, full) =
           [kind |-> "archive", round |-> true.round, note |-> true.note, full |-> full,
            light |-> true.light, index |-> true.index, chain |-> true.chain]
  BY DEF WithHeader, Archives

LEMMA FromIs ==
  ASSUME NEW archive \in Archives, NEW true \in Archives
  PROVE  archive = WithHeader(true, archive.full) <=>
           /\ archive.round = true.round /\ archive.note = true.note /\ archive.light = true.light
           /\ archive.index = true.index /\ archive.chain = true.chain
  <1>1. archive = [kind |-> "archive", round |-> archive.round, note |-> archive.note, full |-> archive.full,
                   light |-> archive.light, index |-> archive.index, chain |-> archive.chain]
    BY DEF Archives
  <1> DEFINE other == WithHeader(true, archive.full)
  <1>2. other = [kind |-> "archive", round |-> true.round, note |-> true.note, full |-> archive.full,
            light |-> true.light, index |-> true.index, chain |-> true.chain]
    BY WithHeaderIs
  <1> HIDE DEF other
  <1>3. archive = other <=>
           /\ archive.round = true.round /\ archive.note = true.note /\ archive.light = true.light
           /\ archive.index = true.index /\ archive.chain = true.chain
    BY <1>1, <1>2
  <1> QED BY <1>3 DEF other

LEMMA FromArchived ==
  ASSUME Placed, placed > Interval
  PROVE  ArchiveFrom(1) \in Archives
  <1>0. Interval \in Nat \ {0} /\ placed \in Nat \ {0} /\ Rounds \div Interval \in Nat BY NetworkIs DEF Placed
  <1>1. PICK q \in Nat \ {0}, r \in 0 .. Interval - 1 :
           /\ placed = q * Interval + r + 1 /\ q + 1 <= Rounds \div Interval
           /\ ArchiveFrom(1) = [kind |-> "archive", round |-> placed, note |-> Payload, full |-> Block(placed),
                                light |-> Block(placed), index |-> r, chain |-> [i \in 1 .. q |-> Attested(1 + i)]]
    BY TrueIs
  <1>2. ASSUME NEW i \in 1 .. q PROVE Attested(1 + i) \in Links
    <2>1. 1 + i \in 1 .. Rounds \div Interval BY <1>0, <1>1
    <2> QED BY <2>1 DEF Links
  <1>3. [i \in 1 .. q |-> Attested(1 + i)] \in Seq(Links) BY <1>2
  <1>4. Block(placed) \in Headed BY <1>0, BlockIs DEF Headed
  <1>5. r \in Nat /\ Payload \in Notes BY <1>0 DEF Notes
  <1> DEFINE chain == [i \in 1 .. q |-> Attested(1 + i)]
             header == Block(placed)
  <1> HIDE DEF chain, header
  <1>6. ArchiveFrom(1) = [kind |-> "archive", round |-> placed, note |-> Payload, full |-> header,
                          light |-> header, index |-> r, chain |-> chain]
    BY <1>1 DEF chain, header
  <1> QED BY <1>0, <1>3, <1>4, <1>5, <1>6 DEF Archives, chain, header

LEMMA PassesGenuine ==
  ASSUME Placed, NEW archive \in Archives, NEW payload, Passes(archive, payload)
  PROVE  Genuine(archive, payload) /\ archive.light = Block(placed)
  <1> DEFINE N == Len(archive.chain)
             link == archive.chain[N]
  <1>0. /\ Interval \in Nat \ {0} /\ placed \in Nat /\ placed <= Rounds /\ MaxLinks \in Nat
        /\ archive.chain \in Seq(Links) /\ archive.round \in Nat /\ archive.index \in Nat
    BY NetworkIs DEF Placed, Archives
  <1>1. N \in Nat /\ archive.chain = [j \in 1 .. N |-> archive.chain[j]] BY <1>0, LenProperties
  <1>2. N # 0 /\ N <= MaxLinks /\ TransactionHolds(archive, payload) /\ Own(archive, N)
        /\ Within(archive, N) /\ HeaderHolds(archive, link)
    BY DEF Passes
  <1> HIDE DEF N
  <1>3. link = Attested(1 + N) BY <1>1, <1>2 DEF Own
  <1>4. link.first = N * Interval + 1 /\ link.last = (N + 1) * Interval /\ link.signers = 1 + N
    <2>1. 1 + N \in Nat \ {0} /\ (1 + N) - 1 = N /\ 1 + N = N + 1 BY <1>1
    <2> QED BY <1>3, <2>1, AttestedIs
  <1>5. N * Interval \in Nat /\ (N + 1) * Interval = N * Interval + Interval BY <1>0, <1>1
  <1> HIDE DEF link
  <1>6. archive.index = archive.round - link.first /\ archive.light = Block(link.first + archive.index)
    BY <1>1, <1>2, <1>4 DEF HeaderHolds, Attests
  <1>7. link.first + archive.index = archive.round BY <1>0, <1>4, <1>5, <1>6
  <1>8. archive.light.by = "network" BY <1>6, BlockIs
  <1>9. /\ archive.full.round = archive.round /\ archive.light.round = archive.round
        /\ archive.note = payload /\ archive.light.round = placed /\ archive.note = Payload
    BY <1>2, <1>8 DEF TransactionHolds, Commits
  <1>10. N * Interval < placed /\ placed <= (N + 1) * Interval
    <2>1. archive.round \in link.first .. link.last BY <1>2 DEF Within, link, N
    <2> QED BY <1>0, <1>4, <1>5, <1>9, <2>1
  <1>11. placed > Interval
    <2>1. N - 1 \in Nat /\ N * Interval = (N - 1) * Interval + Interval BY <1>0, <1>1, <1>2
    <2>2. (N - 1) * Interval \in Nat BY <1>0, <2>1
    <2> QED BY <1>0, <1>10, <2>1, <2>2
  <1>12. PICK q \in Nat \ {0}, r \in 0 .. Interval - 1 :
           /\ placed = q * Interval + r + 1 /\ q + 1 <= Rounds \div Interval
           /\ ArchiveFrom(1) = [kind |-> "archive", round |-> placed, note |-> Payload, full |-> Block(placed),
                                light |-> Block(placed), index |-> r, chain |-> [i \in 1 .. q |-> Attested(1 + i)]]
    BY <1>11, TrueIs
  <1>13. N = q
    <2>1. q * Interval \in Nat /\ (q + 1) * Interval = q * Interval + Interval /\ r \in Nat /\ r < Interval BY <1>0
    <2>2. N * Interval < (q + 1) * Interval BY <1>0, <1>5, <1>10, <1>12, <2>1
    <2>3. q * Interval < (N + 1) * Interval BY <1>0, <1>5, <1>10, <1>12, <2>1
    <2>4. N < q + 1 BY <1>0, <1>1, <2>2, Below
    <2>5. q < N + 1 BY <1>0, <1>1, <2>3, Below
    <2> QED BY <1>1, <2>4, <2>5
  <1>14. archive.index = r
    <2>1. q * Interval \in Nat /\ r \in Nat BY <1>0
    <2> QED BY <1>0, <1>4, <1>6, <1>9, <1>12, <1>13, <2>1
  <1>15. archive.chain = [i \in 1 .. q |-> Attested(1 + i)]
    <2>1. \A j \in 1 .. N : archive.chain[j] = Attested(1 + j) BY <1>2 DEF Own
    <2> QED BY <1>1, <1>13, <2>1
  <1>16. archive.light = Block(placed) BY <1>6, <1>7, <1>9
  <1>17. archive = WithHeader(ArchiveFrom(1), archive.full)
    <2>1. ArchiveFrom(1) \in Archives BY <1>11, FromArchived
    <2> DEFINE true == ArchiveFrom(1)
    <2>2. /\ true.round = placed /\ true.note = Payload /\ true.light = Block(placed) /\ true.index = r
          /\ true.chain = [i \in 1 .. q |-> Attested(1 + i)]
      BY <1>12
    <2> HIDE DEF true
    <2>3. /\ archive.round = true.round /\ archive.note = true.note /\ archive.light = true.light
          /\ archive.index = true.index /\ archive.chain = true.chain
      BY <1>9, <1>14, <1>15, <1>16, <2>2
    <2>4. archive = WithHeader(true, archive.full) BY <2>1, <2>3, FromIs DEF true
    <2> QED BY <2>4 DEF true
  <1> QED BY <1>2, <1>9, <1>11, <1>16, <1>17 DEF Genuine, N

LEMMA GenuinePasses ==
  ASSUME Placed, NEW archive \in Archives, NEW payload, Genuine(archive, payload)
  PROVE  Passes(archive, payload)
  <1>0. /\ Interval \in Nat \ {0} /\ placed \in Nat /\ placed <= Rounds /\ placed > Interval
        /\ archive.full.round = placed /\ Len(archive.chain) <= MaxLinks /\ payload = Payload
    BY NetworkIs DEF Placed, Genuine
  <1>1. PICK q \in Nat \ {0}, r \in 0 .. Interval - 1 :
           /\ placed = q * Interval + r + 1 /\ q + 1 <= Rounds \div Interval
           /\ ArchiveFrom(1) = [kind |-> "archive", round |-> placed, note |-> Payload, full |-> Block(placed),
                                light |-> Block(placed), index |-> r, chain |-> [i \in 1 .. q |-> Attested(1 + i)]]
    BY <1>0, TrueIs
  <1>2. /\ archive.round = placed /\ archive.note = Payload /\ archive.light = Block(placed)
        /\ archive.index = r /\ archive.chain = [i \in 1 .. q |-> Attested(1 + i)]
    <2>1. ArchiveFrom(1) \in Archives BY <1>0, FromArchived
    <2>2. archive = WithHeader(ArchiveFrom(1), archive.full) BY DEF Genuine
    <2> QED BY <1>1, <2>1, <2>2, FromIs
  <1>3. Len(archive.chain) = q /\ \A j \in 1 .. q : archive.chain[j] = Attested(1 + j) BY <1>2
  <1>4. TransactionHolds(archive, payload)
    <2>1. archive.light.round = placed BY <1>2, BlockIs
    <2> QED BY <1>0, <1>2, <2>1 DEF TransactionHolds, Commits
  <1>5. q * Interval \in Nat /\ r \in Nat /\ (q + 1) * Interval = q * Interval + Interval BY <1>0
  <1>6. ASSUME NEW j \in 1 .. q
        PROVE  /\ archive.chain[j].first = j * Interval + 1 /\ archive.chain[j].last = (j + 1) * Interval
               /\ archive.chain[j].signers = j + 1
    <2>1. 1 + j \in Nat \ {0} /\ (1 + j) - 1 = j /\ 1 + j = j + 1 OBVIOUS
    <2> QED BY <1>3, <2>1, AttestedIs
  <1>7. Own(archive, q)
    <2> SUFFICES ASSUME NEW j \in 1 .. q, j < q PROVE ~Within(archive, j)
      BY <1>3 DEF Own
    <2>1. q - (j + 1) \in Nat /\ q * Interval = (j + 1) * Interval + (q - (j + 1)) * Interval BY <1>0
    <2>2. (q - (j + 1)) * Interval \in Nat /\ (j + 1) * Interval \in Nat BY <1>0, <2>1
    <2>3. placed > (j + 1) * Interval
      <3> DEFINE all == q * Interval
                 some == (j + 1) * Interval
                 rest == (q - (j + 1)) * Interval
      <3>1. all \in Nat /\ some \in Nat /\ rest \in Nat /\ all = some + rest /\ placed = all + r + 1 /\ r \in Nat
        BY <1>1, <1>5, <2>1, <2>2
      <3> HIDE DEF all, some, rest
      <3>2. placed > some BY <3>1
      <3> QED BY <3>2 DEF some
    <2> QED BY <1>0, <1>2, <1>6, <2>2, <2>3 DEF Within
  <1>8. q \in 1 .. q OBVIOUS
  <1>9. archive.chain[q].first = q * Interval + 1 /\ archive.chain[q].last = q * Interval + Interval
    BY <1>5, <1>6, <1>8
  <1>10. Within(archive, q)
    <2>1. placed \in q * Interval + 1 .. q * Interval + Interval BY <1>0, <1>1, <1>5
    <2> QED BY <1>2, <1>9, <2>1 DEF Within
  <1>11. HeaderHolds(archive, archive.chain[q])
    <2>1. r = placed - (q * Interval + 1) /\ (q * Interval + 1) + r = placed BY <1>0, <1>1, <1>5
    <2> QED BY <1>2, <1>9, <2>1 DEF HeaderHolds, Attests
  <1> QED BY <1>0, <1>3, <1>4, <1>7, <1>10, <1>11 DEF Passes

LEMMA VerifyIs ==
  ASSUME Placed, NEW archive \in Archives, NEW payload, NEW verdict, verdict = Verify(archive, Checkpoint(1), payload)
  PROVE  /\ verdict.anchor = "CONSENSUS_VERIFIED" <=> Genuine(archive, payload)
         /\ verdict.anchor # "FIXTURE_VERIFIED"
         /\ verdict.timestamp = "BLOCK_HASH_BOUND" <=>
              verdict.anchor = "CONSENSUS_VERIFIED" /\ archive.full = Block(placed)
  <1>1. CASE Passes(archive, payload)
    <2>1. verdict = Report("CONSENSUS_VERIFIED", IF archive.full = archive.light THEN "BLOCK_HASH_BOUND" ELSE "INVALID")
      BY <1>1, VerifyPasses
    <2>2. Genuine(archive, payload) /\ archive.light = Block(placed) BY <1>1, PassesGenuine
    <2> QED BY <2>1, <2>2 DEF Report
  <1>2. CASE ~Passes(archive, payload)
    <2>1. verdict \in {Invalid, Unsupported, Indeterminate} BY <1>2, VerifyPasses
    <2>2. ~Genuine(archive, payload) BY <1>2, GenuinePasses
    <2> QED BY <2>1, <2>2 DEF Report, Invalid, Unsupported, Indeterminate
  <1> QED BY <1>1, <1>2
-----------------------------------------------------------------------------
LEMMA OtherIs ==
  ASSUME Fixed, NEW of \in {batch, OtherBatch}
  PROVE  of \in Seq({Digests[i] : i \in DOMAIN Digests}) /\ Batch(of) /\ Len(of) \in Nat /\ Len(of) > 0
  <1> DEFINE D == {Digests[i] : i \in DOMAIN Digests}
  <1>1. batch \in Seq(D) /\ Batch(batch) /\ Len(batch) > 0 BY BatchesAre DEF Fixed
  <1> HIDE DEF D
  <1>2. Len(batch) \in Nat /\ 1 \in 1 .. Len(batch) BY <1>1, LenProperties
  <1>3. batch[1] \in D BY <1>1, <1>2, ElementOfSeq
  <1>4. OtherBatch \in Seq(D) /\ Len(OtherBatch) = 1 BY <1>3 DEF OtherBatch
  <1>5. Batch(OtherBatch) BY <1>4, Most DEF Batch
  <1>6. of \in Seq(D) /\ Batch(of) /\ Len(of) \in Nat /\ Len(of) > 0
    <2>1. CASE of = batch BY <1>1, <1>2, <2>1
    <2>2. CASE of = OtherBatch
      <3>1. Len(of) = 1 BY <1>4, <2>2
      <3> QED BY <1>4, <1>5, <2>2, <3>1
    <2> QED BY <2>1, <2>2
  <1> QED BY <1>6 DEF D

\* A reference as a bundle may carry it.
IsReference(reference) ==
  /\ \E of \in {batch, OtherBatch} : \E p \in 0 .. Len(of) - 1 : reference.batch = inclusion(of, p)
  /\ reference.adapter \in {"algorand", "log", "another"}
  /\ reference.proof \in Archives \cup LogEntries \cup {None}

\* The reference proves the record it names.
InPlace(reference) ==
  \E of \in {batch, OtherBatch} : \E p \in 0 .. Len(of) - 1 :
    reference.batch = inclusion(of, p) /\ of[p + 1] = reference.record

LEMMA InclusionIs ==
  ASSUME NEW of, NEW p
  PROVE  inclusion(of, p).treeSize = Len(of) /\ inclusion(of, p).position = p /\ inclusion(of, p).root = merkleRoot(of)
  BY DEF inclusion

LEMMA InPlaceIs ==
  ASSUME Fixed, NEW reference, IsReference(reference)
  PROVE  verifyInclusion(reference.record, reference.batch) <=> InPlace(reference)
  <1>1. ASSUME InPlace(reference) PROVE verifyInclusion(reference.record, reference.batch)
    <2>1. PICK of \in {batch, OtherBatch} : \E p \in 0 .. Len(of) - 1 :
                 reference.batch = inclusion(of, p) /\ of[p + 1] = reference.record
      BY <1>1 DEF InPlace
    <2>2. PICK p \in 0 .. Len(of) - 1 : reference.batch = inclusion(of, p) /\ of[p + 1] = reference.record
      BY <2>1
    <2>3. verifyInclusion(of[p + 1], inclusion(of, p)) BY OtherIs, Included
    <2> QED BY <2>2, <2>3
  <1>2. ASSUME verifyInclusion(reference.record, reference.batch) PROVE InPlace(reference)
    <2>1. PICK of \in {batch, OtherBatch} : \E p \in 0 .. Len(of) - 1 : reference.batch = inclusion(of, p)
      BY DEF IsReference
    <2>2. PICK p \in 0 .. Len(of) - 1 : reference.batch = inclusion(of, p) BY <2>1
    <2>3. Len(of) \in Nat /\ p \in Nat BY OtherIs
    <2>4. verifyInclusion(reference.record, inclusion(of, p)) BY <1>2, <2>2
    <2> DEFINE proof == inclusion(of, p)
    <2>5. proof.treeSize = Len(of) /\ proof.position = p /\ proof.root = merkleRoot(of) BY InclusionIs
    <2> HIDE DEF proof
    <2>6. reference.record = of[proof.position + 1]
      BY <2>3, <2>4, <2>5, OtherIs, NothingElse DEF proof
    <2> QED BY <2>2, <2>5, <2>6 DEF InPlace
  <1> QED BY <1>1, <1>2

\* The recipient trusts the reference's own adapter, and holds a checkpoint of it.
Trusted(reference, adapter) ==
  trust # None /\ trust.adapter = adapter /\ reference.adapter = adapter /\ trust.checkpoint # None

\* A verdict is what the reference's own place, trust and the network or the log make of it.
Earned(reference, verdict) ==
  /\ verdict.anchor = "CONSENSUS_VERIFIED" <=>
       InPlace(reference) /\ Trusted(reference, "algorand") /\ HeldByTheNetwork(reference)
  /\ verdict.anchor = "FIXTURE_VERIFIED" <=>
       InPlace(reference) /\ Trusted(reference, "log") /\ HeldByTheLog(reference)
  /\ verdict.timestamp = "BLOCK_HASH_BOUND" <=>
       verdict.anchor = "CONSENSUS_VERIFIED" /\ reference.proof.full = Block(placed)

LEMMA Refusals ==
  \A verdict \in {Invalid, Unsupported, Indeterminate} :
    /\ verdict.anchor # "CONSENSUS_VERIFIED" /\ verdict.anchor # "FIXTURE_VERIFIED"
    /\ verdict.timestamp # "BLOCK_HASH_BOUND"
  BY DEF Report, Invalid, Unsupported, Indeterminate

LEMMA TrustIs ==
  ASSUME trust \in Trusts
  PROVE  \/ trust = None
         \/ trust.adapter = "log" /\ trust.checkpoint = [key |-> "log key", minimum |-> 2]
         \/ trust.adapter = "algorand" /\ trust.checkpoint \in {None, Checkpoint(0), Checkpoint(1)}
  <1> DEFINE log == [adapter |-> "log", checkpoint |-> [key |-> "log key", minimum |-> 2]]
             Networks == {[adapter |-> "algorand", checkpoint |-> checkpoint] : checkpoint \in {None, Checkpoint(0), Checkpoint(1)}}
  <1>1. trust \in {None, log} \cup Networks BY Zenon DEF Trusts
  <1>2. log.adapter = "log" /\ log.checkpoint = [key |-> "log key", minimum |-> 2] OBVIOUS
  <1>3. \A network \in Networks :
          network.adapter = "algorand" /\ network.checkpoint \in {None, Checkpoint(0), Checkpoint(1)}
    OBVIOUS
  <1> HIDE DEF log, Networks
  <1> QED BY <1>1, <1>2, <1>3

LEMMA FieldsOfTrust ==
  ASSUME NEW c, c = [key |-> "log key", minimum |-> 2]
  PROVE  c.minimum = 2
  OBVIOUS

LEMMA FieldsOfEntry ==
  ASSUME NEW A, NEW B, NEW C, NEW entry \in [kind : {"entry"}, payload : A, sequence : B, signer : C]
  PROVE  entry.kind = "entry" /\ entry.sequence \in B
  <1>1. entry.kind = "entry" OBVIOUS
  <1>2. entry.sequence \in B OBVIOUS
  <1> QED BY <1>1, <1>2

LEMMA EntryIs ==
  ASSUME NEW entry \in LogEntries
  PROVE  entry.kind = "entry" /\ entry.sequence \in Nat
  <1>1. entry.kind = "entry" /\ entry.sequence \in {1, 2} BY FieldsOfEntry, Zenon DEF LogEntries
  <1> QED BY <1>1

LEMMA LogVerdict ==
  ASSUME NEW reference, reference.proof # None, reference.adapter = "log",
         InPlace(reference), trust \in Trusts, trust # None, trust.adapter = "log",
         reference.proof \in Archives \cup LogEntries \cup {None}
  PROVE  Earned(reference, VerifyLogEntry(reference.proof, trust.checkpoint, reference.batch.root))
  <1> DEFINE verdict == VerifyLogEntry(reference.proof, trust.checkpoint, reference.batch.root)
  <1>1. CASE reference.proof \in Archives
    <2>1. reference.proof.kind = "archive" BY <1>1 DEF Archives
    <2>2. verdict = Invalid BY <2>1 DEF VerifyLogEntry
    <2>3. ~HeldByTheLog(reference) BY <2>1 DEF HeldByTheLog
    <2>4. ~Trusted(reference, "algorand") BY DEF Trusted
    <2> QED BY <2>2, <2>3, <2>4, Refusals DEF Earned
  <1>2. CASE reference.proof \in LogEntries
    <2>0. reference.proof # None OBVIOUS
    <2>1. reference.proof.kind = "entry" /\ reference.proof.sequence \in Nat BY <1>2, EntryIs
    <2>2. trust.checkpoint = [key |-> "log key", minimum |-> 2] BY TrustIs
    <2>3. ~Trusted(reference, "algorand") BY DEF Trusted
    <2>4. verdict = IF \/ reference.proof.payload # reference.batch.root THEN Invalid
                    ELSE IF trust.checkpoint = None THEN Indeterminate
                    ELSE IF \/ reference.proof.sequence < trust.checkpoint.minimum
                            \/ reference.proof.signer # trust.checkpoint.key
                    THEN Invalid
                    ELSE Report("FIXTURE_VERIFIED", "SOURCE_REPORTED")
      BY <2>1 DEF VerifyLogEntry
    <2>5. HeldByTheLog(reference) <=>
            /\ reference.proof.payload = reference.batch.root /\ reference.proof.signer = trust.checkpoint.key
            /\ ~(reference.proof.sequence < trust.checkpoint.minimum)
      <3>1. reference.proof.sequence >= trust.checkpoint.minimum <=> ~(reference.proof.sequence < trust.checkpoint.minimum)
        <4>1. trust.checkpoint.minimum = 2 BY <2>2, FieldsOfTrust, Zenon
        <4> QED BY <2>1, <4>1
      <3> QED BY <2>0, <2>1, <3>1, Zenon DEF HeldByTheLog
    <2>6. Trusted(reference, "log") <=> trust.checkpoint # None BY DEF Trusted
    <2> HIDE DEF verdict
    <2>7. CASE HeldByTheLog(reference) /\ trust.checkpoint # None
      <3>1. verdict = Report("FIXTURE_VERIFIED", "SOURCE_REPORTED") BY <2>4, <2>5, <2>7
      <3>2. verdict.anchor = "FIXTURE_VERIFIED" /\ verdict.timestamp = "SOURCE_REPORTED" BY <3>1 DEF Report
      <3> QED BY <2>3, <2>6, <2>7, <3>2 DEF Earned, verdict
    <2>8. CASE ~(HeldByTheLog(reference) /\ trust.checkpoint # None)
      <3>1. verdict \in {Invalid, Unsupported, Indeterminate} BY <2>4, <2>5, <2>8
      <3> QED BY <2>3, <2>6, <2>8, <3>1, Refusals DEF Earned, verdict
    <2> QED BY <2>7, <2>8
  <1> QED BY <1>1, <1>2

LEMMA NetworkVerdict ==
  ASSUME Placed, NEW reference, reference.proof # None, reference.adapter = "algorand",
         InPlace(reference), trust \in Trusts, trust # None, trust.adapter = "algorand", trust.checkpoint # None,
         reference.proof \in Archives \cup LogEntries \cup {None}
  PROVE  Earned(reference, Verify(reference.proof, trust.checkpoint, reference.batch.root))
  <1> DEFINE verdict == Verify(reference.proof, trust.checkpoint, reference.batch.root)
  <1>0. ~Trusted(reference, "log") /\ Trusted(reference, "algorand") BY DEF Trusted
  <1>1. CASE reference.proof \in LogEntries
    <2>1. reference.proof.kind = "entry" BY <1>1, EntryIs
    <2>2. verdict = Invalid BY <2>1 DEF Verify
    <2>3. ~HeldByTheNetwork(reference) BY <2>1 DEF HeldByTheNetwork
    <2> QED BY <1>0, <2>2, <2>3, Refusals DEF Earned
  <1>2. ASSUME reference.proof \in Archives PROVE Earned(reference, verdict)
    <2>1. trust.checkpoint = Checkpoint(0) \/ trust.checkpoint = Checkpoint(1) BY TrustIs
    <2>2. reference.proof.kind = "archive" BY <1>2 DEF Archives
    <2>3. CASE trust.checkpoint = Checkpoint(0)
      <3>1. trust.checkpoint.last = 0 BY <2>3, NetworkIs DEF Checkpoint
      <3>2. verdict \in {Invalid, Unsupported, Indeterminate} BY <2>2, <3>1 DEF Verify
      <3>3. ~HeldByTheNetwork(reference) BY <3>1 DEF HeldByTheNetwork
      <3> HIDE DEF verdict
      <3> QED BY <1>0, <3>2, <3>3, Refusals DEF Earned
    <2>4. CASE trust.checkpoint = Checkpoint(1)
      <3>1. Interval \in Nat \ {0} BY NetworkIs
      <3>2. trust.checkpoint.last = Interval BY <2>4, <3>1 DEF Checkpoint
      <3>3. Interval \div Interval = 1
        <4>1. 1 * Interval + 0 = Interval /\ 0 \in 0 .. Interval - 1 BY <3>1
        <4> QED BY <3>1, <4>1, Divides
      <3>4. HeldByTheNetwork(reference) <=> Genuine(reference.proof, reference.batch.root)
        BY <2>2, <3>1, <3>2, <3>3 DEF HeldByTheNetwork, Genuine
      <3>5. /\ verdict.anchor = "CONSENSUS_VERIFIED" <=> Genuine(reference.proof, reference.batch.root)
            /\ verdict.anchor # "FIXTURE_VERIFIED"
            /\ verdict.timestamp = "BLOCK_HASH_BOUND" <=>
                 verdict.anchor = "CONSENSUS_VERIFIED" /\ reference.proof.full = Block(placed)
        BY <1>2, <2>4, VerifyIs
      <3> HIDE DEF verdict
      <3> QED BY <1>0, <3>4, <3>5 DEF Earned
    <2> QED BY <2>1, <2>3, <2>4
  <1> QED BY <1>1, <1>2

LEMMA AnchorVerdict ==
  ASSUME Placed, Fixed, NEW reference, IsReference(reference), trust \in Trusts
  PROVE  Earned(reference, VerifyAnchor(reference, trust, reference.record))
  <1> DEFINE verdict == VerifyAnchor(reference, trust, reference.record)
  <1>0. /\ reference.adapter \in {"algorand", "log", "another"}
        /\ reference.proof \in Archives \cup LogEntries \cup {None}
    BY DEF IsReference
  <1>1. verifyInclusion(reference.record, reference.batch) <=> InPlace(reference) BY InPlaceIs
  <1>2. verdict =
          IF ~InPlace(reference) THEN Invalid
          ELSE IF trust = None THEN Indeterminate
          ELSE IF trust.adapter # reference.adapter THEN Invalid
          ELSE IF reference.proof = None THEN Indeterminate
          ELSE IF reference.adapter = "log" THEN VerifyLogEntry(reference.proof, trust.checkpoint, reference.batch.root)
          ELSE IF reference.adapter # "algorand" THEN Unsupported
          ELSE IF trust.checkpoint = None THEN Indeterminate
          ELSE Verify(reference.proof, trust.checkpoint, reference.batch.root)
    BY <1>1 DEF VerifyAnchor
  <1> HIDE DEF verdict
  <1> DEFINE Checked == InPlace(reference) /\ trust # None /\ trust.adapter = reference.adapter /\ reference.proof # None
  <1>3. CASE Checked /\ reference.adapter = "log" BY <1>0, <1>2, <1>3, LogVerdict DEF verdict
  <1>4. CASE Checked /\ reference.adapter = "algorand" /\ trust.checkpoint # None
    BY <1>0, <1>2, <1>4, NetworkVerdict DEF verdict
  <1>5. CASE ~Checked \/ (reference.adapter # "log" /\ (reference.adapter # "algorand" \/ trust.checkpoint = None))
    <2>1. verdict \in {Invalid, Unsupported, Indeterminate} BY <1>2, <1>5
    <2>2. ~(InPlace(reference) /\ Trusted(reference, "algorand") /\ HeldByTheNetwork(reference))
      BY <1>5 DEF Trusted, HeldByTheNetwork
    <2>3. ~(InPlace(reference) /\ Trusted(reference, "log") /\ HeldByTheLog(reference))
      BY <1>5 DEF Trusted, HeldByTheLog
    <2> QED BY <2>1, <2>2, <2>3, Refusals DEF Earned, verdict
  <1> QED BY <1>3, <1>4, <1>5
-----------------------------------------------------------------------------
(* The recipient.                                                          *)

Anchors == {"CONSENSUS_VERIFIED", "FIXTURE_VERIFIED", "INVALID", "UNSUPPORTED", "INDETERMINATE"}
Reports == [anchor : Anchors, timestamp : {"BLOCK_HASH_BOUND", "SOURCE_REPORTED", "INVALID", "INDETERMINATE"}]

LEMMA ReportIs ==
  ASSUME NEW anchor, NEW timestamp, anchor \in Anchors,
         timestamp \in {"BLOCK_HASH_BOUND", "SOURCE_REPORTED", "INVALID", "INDETERMINATE"}
  PROVE  Report(anchor, timestamp) \in Reports
  BY DEF Report, Reports

LEMMA RefusalsAre == Invalid \in Reports /\ Unsupported \in Reports /\ Indeterminate \in Reports
  BY ReportIs DEF Invalid, Unsupported, Indeterminate, Anchors

LEMMA VerdictType == ASSUME NEW envelope, NEW trusted, NEW expected PROVE VerifyAnchor(envelope, trusted, expected) \in Reports
  <1>1. \A archive, checkpoint, payload : Verify(archive, checkpoint, payload) \in Reports
    <2> SUFFICES ASSUME NEW archive, NEW checkpoint, NEW payload PROVE Verify(archive, checkpoint, payload) \in Reports
      OBVIOUS
    <2>1. Report("CONSENSUS_VERIFIED", IF archive.full = archive.light THEN "BLOCK_HASH_BOUND" ELSE "INVALID") \in Reports
      BY ReportIs DEF Anchors
    <2> QED BY <2>1, RefusalsAre DEF Verify
  <1>2. \A entry, checkpoint, payload : VerifyLogEntry(entry, checkpoint, payload) \in Reports
    <2>1. Report("FIXTURE_VERIFIED", "SOURCE_REPORTED") \in Reports BY ReportIs DEF Anchors
    <2> QED BY <2>1, RefusalsAre DEF VerifyLogEntry
  <1> QED BY <1>1, <1>2, RefusalsAre DEF VerifyAnchor

\* Several verdicts agree on an anchor when there is one and all are it (Joined).
LEMMA JoinedIs ==
  ASSUME NEW verdicts \in SUBSET Reports, NEW anchor \in {"CONSENSUS_VERIFIED", "FIXTURE_VERIFIED"}
  PROVE  Joined(verdicts).anchor = anchor <=> verdicts # {} /\ \A v \in verdicts : v.anchor = anchor
  <1> DEFINE values == {v.anchor : v \in verdicts}
             agreed == IF Cardinality(values) = 1 THEN CHOOSE value \in values : TRUE ELSE "INDETERMINATE"
  <1>1. Joined(verdicts).anchor = agreed BY DEF Joined, Report
  <1>2. values \subseteq Anchors BY DEF Reports
  <1>3. IsFiniteSet(Anchors)
    <2>1. IsFiniteSet({"CONSENSUS_VERIFIED"}) BY FS_Singleton
    <2>2. IsFiniteSet({"CONSENSUS_VERIFIED"} \cup {"FIXTURE_VERIFIED"}) BY <2>1, FS_AddElement
    <2>3. IsFiniteSet({"CONSENSUS_VERIFIED"} \cup {"FIXTURE_VERIFIED"} \cup {"INVALID"}) BY <2>2, FS_AddElement
    <2>4. IsFiniteSet({"CONSENSUS_VERIFIED"} \cup {"FIXTURE_VERIFIED"} \cup {"INVALID"} \cup {"UNSUPPORTED"})
      BY <2>3, FS_AddElement
    <2>5. IsFiniteSet({"CONSENSUS_VERIFIED"} \cup {"FIXTURE_VERIFIED"} \cup {"INVALID"} \cup {"UNSUPPORTED"} \cup {"INDETERMINATE"})
      BY <2>4, FS_AddElement
    <2>6. Anchors = {"CONSENSUS_VERIFIED"} \cup {"FIXTURE_VERIFIED"} \cup {"INVALID"} \cup {"UNSUPPORTED"} \cup {"INDETERMINATE"}
      BY DEF Anchors
    <2> QED BY <2>5, <2>6
  <1>4. IsFiniteSet(values) BY <1>2, <1>3, FS_Subset
  <1>5. Cardinality(values) = 1 <=> \E x : values = {x} BY <1>4, FS_Singleton
  <1>6. verdicts # {} /\ (\A v \in verdicts : v.anchor = anchor) <=> values = {anchor} OBVIOUS
  <1> HIDE DEF values
  <1>7. CASE Cardinality(values) = 1
    <2>1. PICK x : values = {x} BY <1>5, <1>7
    <2>2. agreed = x BY <1>7, <2>1
    <2> QED BY <1>1, <1>6, <2>1, <2>2
  <1>8. CASE Cardinality(values) # 1
    <2>1. agreed = "INDETERMINATE" BY <1>8
    <2>2. values # {anchor} BY <1>5, <1>8
    <2> QED BY <1>1, <1>6, <2>1, <2>2
  <1> QED BY <1>7, <1>8

\* What a reference comes to.
Expected(reference) ==
  IF reference.record \notin bundle.sound THEN Indeterminate
  ELSE IF ~verifyInclusion(reference.record, reference.batch) THEN Invalid
  ELSE IF reference.proof \notin bundle.objects THEN Indeterminate
  ELSE VerifyAnchor(reference, trust, reference.record)

\* Before a bundle is received nothing was checked.
Untouched == bundle = None /\ checked = <<>> /\ cache = {} /\ report = None
\* What the bundle carries is what a producer or a forger can put together.
Carried ==
  /\ trust \in Trusts /\ Len(bundle.references) \in Nat
  /\ \A i \in 1 .. Len(bundle.references) : \A reference : reference = bundle.references[i] => IsReference(reference)
\* Every verdict so far is the one its own reference comes to, whether from the cache or not.
Followed ==
  /\ checked \in Seq(Reports) /\ Len(checked) <= Len(bundle.references)
  /\ \A i \in 1 .. Len(checked) : \A reference : reference = bundle.references[i] => checked[i] = Expected(reference)
\* A cached verdict is the one of some accepted reference with its key.
Cached ==
  \A known \in cache : \E i \in 1 .. Len(bundle.references) : \E reference :
    /\ reference = bundle.references[i] /\ known.id = CacheId(reference)
    /\ verifyInclusion(reference.record, reference.batch)
    /\ known.verdict = VerifyAnchor(reference, trust, reference.record)
\* The report joins, for each record, the verdicts of its own references.
Mine(record) == {i \in DOMAIN checked : bundle.references[i].record = record}
Reported ==
  report # None =>
    report = [record \in {batch[i] : i \in DOMAIN batch} |-> Joined({checked[i] : i \in Mine(record)})]

\* The inductive invariant of the recipient.
PInv ==
  /\ Fixed /\ (outcome = "elsewhere" => Placed)
  /\ Untouched \/ (outcome = "elsewhere" /\ bundle # None /\ Carried /\ Followed /\ Cached /\ Reported)

LEMMA Earning == PInv => VerdictsAreEarned
  <1> SUFFICES ASSUME PInv PROVE VerdictsAreEarned
    OBVIOUS
  <1>1. CASE Untouched
    <2>1. DOMAIN checked = {} /\ report = None BY <1>1 DEF Untouched
    <2> QED BY <2>1 DEF VerdictsAreEarned
  <1>2. CASE outcome = "elsewhere" /\ bundle # None /\ Carried /\ Followed /\ Cached /\ Reported
    <2>1. Fixed /\ Placed /\ Carried /\ Followed /\ Reported BY <1>2 DEF PInv
    <2>2. DOMAIN checked = 1 .. Len(checked) /\ Len(checked) \in Nat BY <2>1, LenProperties DEF Followed
    <2>3. ASSUME NEW i \in DOMAIN checked, NEW reference, reference = bundle.references[i]
          PROVE  /\ checked[i].anchor = "CONSENSUS_VERIFIED" <=> Believable(reference, "algorand") /\ HeldByTheNetwork(reference)
                 /\ checked[i].anchor = "FIXTURE_VERIFIED" <=> Believable(reference, "log") /\ HeldByTheLog(reference)
                 /\ checked[i].timestamp = "BLOCK_HASH_BOUND" <=>
                      checked[i].anchor = "CONSENSUS_VERIFIED" /\ reference.proof.full = Block(placed)
      <3>1. i \in 1 .. Len(bundle.references) /\ checked[i] = Expected(reference)
        BY <2>1, <2>2, <2>3 DEF Followed, Carried
      <3>2. IsReference(reference) BY <2>1, <2>3, <3>1 DEF Carried
      <3>3. Earned(reference, VerifyAnchor(reference, trust, reference.record))
        BY <2>1, <3>2, AnchorVerdict DEF Carried
      <3>4. verifyInclusion(reference.record, reference.batch) <=> InPlace(reference) BY <2>1, <3>2, InPlaceIs
      <3>5. \A adapter : Believable(reference, adapter) <=>
              /\ reference.record \in bundle.sound /\ reference.proof \in bundle.objects
              /\ InPlace(reference) /\ Trusted(reference, adapter)
        BY DEF Believable, InPlace, Trusted
      <3>6. CASE reference.record \in bundle.sound /\ InPlace(reference) /\ reference.proof \in bundle.objects
        <4>1. checked[i] = VerifyAnchor(reference, trust, reference.record) BY <3>1, <3>4, <3>6 DEF Expected
        <4> QED BY <3>3, <3>5, <3>6, <4>1 DEF Earned
      <3>7. CASE ~(reference.record \in bundle.sound /\ InPlace(reference) /\ reference.proof \in bundle.objects)
        <4>1. checked[i] \in {Invalid, Unsupported, Indeterminate} BY <3>1, <3>4, <3>7 DEF Expected
        <4> QED BY <3>5, <3>7, <4>1, Refusals
      <3> QED BY <3>6, <3>7
    <2>4. ASSUME report # None, NEW record \in DOMAIN report, NEW verdict \in {"CONSENSUS_VERIFIED", "FIXTURE_VERIFIED"}
          PROVE  report[record].anchor = verdict <=> Mine(record) # {} /\ \A i \in Mine(record) : checked[i].anchor = verdict
      <3> DEFINE verdicts == {checked[i] : i \in Mine(record)}
      <3>1. report[record] = Joined(verdicts) BY <2>1, <2>4 DEF Reported
      <3>2. verdicts \subseteq Reports
        <4>1. \A i \in Mine(record) : checked[i] \in Reports BY <2>1, <2>2, ElementOfSeq DEF Mine, Followed
        <4> QED BY <4>1
      <3>3. /\ verdicts # {} <=> Mine(record) # {}
            /\ (\A v \in verdicts : v.anchor = verdict) <=> (\A i \in Mine(record) : checked[i].anchor = verdict)
        OBVIOUS
      <3> HIDE DEF verdicts
      <3>4. Joined(verdicts).anchor = verdict <=> verdicts # {} /\ \A v \in verdicts : v.anchor = verdict
        BY <3>2, JoinedIs
      <3> QED BY <3>1, <3>3, <3>4
    <2> QED BY <2>3, <2>4 DEF VerdictsAreEarned, Mine
  <1> QED BY <1>1, <1>2 DEF PInv
-----------------------------------------------------------------------------
LEMMA InitPortable == Init => PInv
  <1> SUFFICES ASSUME Init PROVE PInv
    OBVIOUS
  <1>1. Fixed BY InitBatch
  <1>2. Untouched BY DEF Init, Confirming, Receiving, PortableInit, Untouched
  <1>3. outcome = "elsewhere" => Placed
    <2>1. CASE Confirming
      <3>1. outcome = None BY <2>1 DEF Confirming, FastInit
      <3>2. None # "elsewhere" BY FastAssumption
      <3> QED BY <3>1, <3>2
    <2>2. CASE Receiving
      <3>1. placed \in {0, Interval + 1, Rounds} BY <2>2 DEF Receiving
      <3> QED BY <3>1, NetworkIs DEF Placed
    <2> QED BY <2>1, <2>2 DEF Init
  <1> QED BY <1>1, <1>2, <1>3 DEF PInv

\* Neither check becomes the other.
LEMMA Apart == outcome # "elsewhere" /\ FastNext => outcome' # "elsewhere"
  BY DEF FastNext, Tick, Confirmed, ReadPending, ReadBlock, ReadProof, Reads, ObserverFails, ChildCloses,
         AllAnswered, Abandons, TimerFires, Verified

-----------------------------------------------------------------------------
\* What the network and the batch are does not change while a bundle is checked.
Still == batch' = batch /\ placed' = placed /\ outcome' = outcome

LEMMA ReferencesStay == ASSUME Still, NEW reference PROVE IsReference(reference)' <=> IsReference(reference)
  BY DEF Still, IsReference, OtherBatch, Archives, Notes, Payload, LogEntries

LEMMA VerdictsStay ==
  ASSUME Still, trust' = trust, NEW reference
  PROVE  VerifyAnchor(reference, trust, reference.record)' = VerifyAnchor(reference, trust, reference.record)
  BY DEF Still, VerifyAnchor, Verify, TransactionHolds, Commits, Payload

LEMMA ExpectedStays ==
  ASSUME Still, trust' = trust, bundle' = bundle, NEW reference
  PROVE  Expected(reference)' = Expected(reference)
  BY VerdictsStay DEF Expected

LEMMA CarriedStays ==
  ASSUME Still, trust' = trust, bundle' = bundle, Carried
  PROVE  Carried'
  BY ReferencesStay DEF Carried, Trusts

LEMMA CachedStays ==
  ASSUME Still, trust' = trust, bundle' = bundle, cache' = cache, Cached
  PROVE  Cached'
  BY VerdictsStay DEF Cached

LEMMA FollowedStays ==
  ASSUME Still, trust' = trust, bundle' = bundle, checked' = checked, Followed
  PROVE  Followed'
  BY ExpectedStays DEF Followed

-----------------------------------------------------------------------------
\* What arrives.
LEMMA HeadersAre ==
  ASSUME NEW round \in Nat
  PROVE  SomeHeaders(round) \subseteq Headed
  <1>1. \A r, by : r \in Nat /\ by \in {"network", "forger"} => Header(r, by) \in Headed BY DEF Header, Headed
  <1> QED BY <1>1 DEF SomeHeaders

LEMMA ArchivesAre ==
  ASSUME NEW round \in Nat \ {0}, NEW archive \in SomeArchives(round)
  PROVE  archive \in Archives
  <1> DEFINE Some == SomeHeaders(round)
             Chains == UNION {[1 .. n -> Links] : n \in 0 .. MaxLinks}
  <1>1. Some \subseteq Headed BY HeadersAre
  <1>2. Chains \subseteq Seq(Links) OBVIOUS
  <1>3. \A index \in 0 .. Interval - 1 : index \in Nat BY NetworkIs
  <1>4. archive \in [kind : {"archive"}, round : {round}, note : {Payload, merkleRoot(OtherBatch)}, full : Some,
                     light : Some, index : 0 .. Interval - 1, chain : Chains]
    BY Zenon DEF SomeArchives
  <1> HIDE DEF Some, Chains
  <1> QED BY <1>1, <1>2, <1>3, <1>4 DEF Archives, Notes

LEMMA Arriving ==
  ASSUME Still, NEW envelopes, NEW left, NEW extra, NEW sound, NEW trusted \in Trusts,
         Receive(envelopes, left, extra, sound, trusted), Untouched, PInv, outcome = "elsewhere",
         Len(envelopes) \in Nat, \A i \in 1 .. Len(envelopes) : \A reference : reference = envelopes[i] => IsReference(reference)
  PROVE  PInv'
  <1>1. bundle'.references = envelopes /\ trust' = trusted /\ UNCHANGED <<checked, cache, report>> BY DEF Receive
  <1>2. Fixed' BY DEF PInv, Fixed, Still, Batches
  <1>3. Placed' /\ outcome' = "elsewhere" BY DEF PInv, Placed, Still
  <1>4. Carried' BY <1>1, ReferencesStay DEF Carried, Trusts
  <1>5. checked' = <<>> /\ cache' = {} /\ report' = None BY <1>1 DEF Untouched
  <1>6. <<>> \in Seq(Reports) /\ Len(<<>>) = 0 BY EmptySeq
  <1>7. Followed' BY <1>1, <1>5, <1>6 DEF Followed
  <1>8. Cached' /\ Reported' BY <1>5 DEF Cached, Reported
  <1>9. bundle' = None => Untouched' BY <1>5 DEF Untouched
  <1> QED BY <1>2, <1>3, <1>4, <1>7, <1>8, <1>9 DEF PInv
-----------------------------------------------------------------------------
\* What a bundle that is received carries.
Proofs == Archives \cup LogEntries \cup {None}

LEMMA EnvelopeIs ==
  ASSUME NEW record, NEW of \in {batch, OtherBatch}, NEW p \in 0 .. Len(of) - 1, NEW adapter \in {"algorand", "log", "another"},
         NEW proof \in Proofs
  PROVE  IsReference(Envelope(record, of, p, adapter, proof))
  <1> DEFINE reference == Envelope(record, of, p, adapter, proof)
  <1>1. reference.batch = inclusion(of, p) /\ reference.adapter = adapter /\ reference.proof = proof BY DEF Envelope
  <1> HIDE DEF reference
  <1>2. \E o \in {batch, OtherBatch} : \E q \in 0 .. Len(o) - 1 : reference.batch = inclusion(o, q) BY <1>1
  <1>3. IsReference(reference) BY <1>1, <1>2 DEF IsReference, Proofs
  <1> QED BY <1>3 DEF reference

LEMMA ReceivingOne ==
  ASSUME Still, Untouched, PInv, outcome = "elsewhere", NEW adapter \in {"algorand", "log", "another"},
         NEW proof \in Proofs, NEW trusted \in Trusts, ReceiveOne(adapter, proof, trusted)
  PROVE  PInv'
  <1>1. PICK first, sound : /\ first = Envelope(batch[1], batch, 0, adapter, proof) /\ sound = {batch[1]}
                            /\ Receive(<<first>>, {}, {}, sound, trusted)
    BY Zenon DEF ReceiveOne
  <1>2. batch \in {batch, OtherBatch} /\ Len(batch) \in Nat /\ Len(batch) > 0 BY OtherIs DEF PInv
  <1>3. 0 \in 0 .. Len(batch) - 1 BY <1>2
  <1>4. IsReference(first) BY <1>1, <1>2, <1>3, EnvelopeIs
  <1>5. Len(<<first>>) \in Nat /\ \A i \in 1 .. Len(<<first>>) : \A reference : reference = <<first>>[i] => IsReference(reference)
    BY <1>4
  <1>6. Receive(<<first>>, {}, {}, sound, trusted) BY <1>1
  <1> QED BY <1>5, <1>6, Arriving

LEMMA ManyAre ==
  ASSUME Fixed, NEW proofs \in SUBSET Proofs, NEW envelope \in SomeEnvelopes(proofs)
  PROVE  IsReference(envelope)
  <1>0. \A of \in {batch, OtherBatch} : Len(of) \in Nat /\ Len(of) > 0 BY OtherIs
  <1> DEFINE Owns == {Envelope(batch[i], batch, p, "algorand", proof) :
                        i \in DOMAIN batch, p \in 0 .. Len(batch) - 1, proof \in proofs}
             Others == {Envelope(batch[1], OtherBatch, 0, "algorand", proof) : proof \in proofs}
  <1>1. envelope \in Owns \/ envelope \in Others BY DEF SomeEnvelopes
  <1>2. CASE envelope \in Owns
    <2>1. PICK i \in DOMAIN batch, p \in 0 .. Len(batch) - 1, proof \in proofs :
            envelope = Envelope(batch[i], batch, p, "algorand", proof)
      BY <1>2
    <2> QED BY <2>1, EnvelopeIs
  <1>3. CASE envelope \in Others
    <2>1. PICK proof \in proofs : envelope = Envelope(batch[1], OtherBatch, 0, "algorand", proof) BY <1>3
    <2>2. 0 \in 0 .. Len(OtherBatch) - 1 BY <1>0
    <2> QED BY <2>1, <2>2, EnvelopeIs
  <1> QED BY <1>1, <1>2, <1>3

LEMMA ForgedAre ==
  ASSUME NEW true \in Archives, placed \in Nat
  PROVE  /\ WithHeader(true, Header(placed, "forger")) \in Archives
         /\ [true EXCEPT !.note = merkleRoot(OtherBatch)] \in Archives
  <1>1. Header(placed, "forger") \in Headed BY DEF Header, Headed
  <1>2. ASSUME NEW full \in Headed PROVE WithHeader(true, full) \in Archives BY DEF WithHeader, Archives
  <1>3. ASSUME NEW note \in Notes PROVE [true EXCEPT !.note = note] \in Archives BY DEF Archives
  <1>4. merkleRoot(OtherBatch) \in Notes BY DEF Notes
  <1> QED BY <1>1, <1>2, <1>3, <1>4

LEMMA ReceivingMany ==
  ASSUME Still, Untouched, PInv, outcome = "elsewhere", NEW sound, ReceiveMany(sound)
  PROVE  PInv'
  <1> DEFINE true   == ArchiveFrom(1)
             forged == WithHeader(true, Header(placed, "forger"))
             other  == [true EXCEPT !.note = merkleRoot(OtherBatch)]
             proofs == {true, forged, other}
  <1>1. /\ placed > Interval
        /\ \E n \in 2 .. MaxReferences : \E envelopes \in [1 .. n -> SomeEnvelopes(proofs)], left \in {{}, {true}}, extra \in {{}, {true}} :
             Receive(envelopes, left, extra, sound, Selected)
    BY Zenon DEF ReceiveMany
  <1>2. true \in Archives /\ placed \in Nat BY <1>1, FromArchived DEF PInv, Placed
  <1> HIDE DEF true
  <1>3. forged \in Archives /\ other \in Archives BY <1>2, ForgedAre
  <1> HIDE DEF forged, other
  <1>4. proofs \in SUBSET Proofs BY <1>2, <1>3 DEF Proofs
  <1> HIDE DEF proofs
  <1>5. PICK n \in 2 .. MaxReferences :
           \E envelopes \in [1 .. n -> SomeEnvelopes(proofs)], left \in {{}, {true}}, extra \in {{}, {true}} :
             Receive(envelopes, left, extra, sound, Selected)
    BY <1>1
  <1>10. PICK envelopes \in [1 .. n -> SomeEnvelopes(proofs)], left \in {{}, {true}}, extra \in {{}, {true}} :
          Receive(envelopes, left, extra, sound, Selected)
    BY <1>5
  <1>6. Len(envelopes) = n /\ n \in Nat BY PortableAssumption
  <1>7. \A i \in 1 .. n : \A reference : reference = envelopes[i] => IsReference(reference)
    <2> SUFFICES ASSUME NEW i \in 1 .. n PROVE IsReference(envelopes[i])
      OBVIOUS
    <2>1. envelopes[i] \in SomeEnvelopes(proofs) OBVIOUS
    <2> QED BY <1>4, <2>1, ManyAre DEF PInv
  <1>8. PICK trusted \in Trusts : trusted = Selected BY DEF Trusts, Selected
  <1>9. Receive(envelopes, left, extra, sound, trusted) BY <1>10, <1>8
  <1> QED BY <1>6, <1>7, <1>9, Arriving

LEMMA ReceivedKeeps ==
  ASSUME Still, PInv, outcome = "elsewhere", Received
  PROVE  PInv'
  <1>1. Untouched BY DEF PInv, Received
  <1>2. CASE \E round \in {placed, Interval + 1} \ {0} : \E proof \in SomeArchives(round) : ReceiveOne("algorand", proof, Selected)
    <2>1. PICK round \in {placed, Interval + 1} \ {0} : \E proof \in SomeArchives(round) : ReceiveOne("algorand", proof, Selected)
      BY <1>2
    <2>2. PICK proof \in SomeArchives(round) : ReceiveOne("algorand", proof, Selected) BY <2>1
    <2>3. round \in Nat \ {0} BY NetworkIs DEF PInv, Placed
    <2>4. proof \in Proofs BY <2>3, ArchivesAre DEF Proofs
    <2>5. PICK trusted \in Trusts : trusted = Selected BY DEF Trusts, Selected
    <2>6. ReceiveOne("algorand", proof, trusted) BY <2>2, <2>5
    <2> QED BY <1>1, <2>4, <2>6, ReceivingOne
  <1>3. CASE \E adapter \in {"algorand", "log", "another"}, trusted \in Trusts :
               \E proof \in LogEntries \cup {None} \cup (IF placed > Interval THEN {ArchiveFrom(1)} ELSE {}) :
                 ReceiveOne(adapter, proof, trusted)
    <2>1. PICK adapter \in {"algorand", "log", "another"}, trusted \in Trusts :
               \E proof \in LogEntries \cup {None} \cup (IF placed > Interval THEN {ArchiveFrom(1)} ELSE {}) :
                 ReceiveOne(adapter, proof, trusted)
      BY <1>3
    <2>2. PICK proof \in LogEntries \cup {None} \cup (IF placed > Interval THEN {ArchiveFrom(1)} ELSE {}) :
                 ReceiveOne(adapter, proof, trusted)
      BY <2>1
    <2>3. placed > Interval => ArchiveFrom(1) \in Archives BY FromArchived DEF PInv
    <2>4. proof \in Proofs BY <2>3 DEF Proofs
    <2> QED BY <1>1, <2>2, <2>4, ReceivingOne
  <1>4. CASE \E sound \in {{batch[1]}, {batch[i] : i \in DOMAIN batch}} : ReceiveMany(sound)
    <2>1. PICK sound : ReceiveMany(sound) BY <1>4
    <2> QED BY <1>1, <2>1, ReceivingMany
  <1> QED BY <1>2, <1>3, <1>4, Zenon DEF Received
-----------------------------------------------------------------------------
\* One root, adapter and proof have one verdict (CacheId).
LEMMA SameVerdict ==
  ASSUME NEW one, NEW other, CacheId(one) = CacheId(other),
         verifyInclusion(one.record, one.batch), verifyInclusion(other.record, other.batch)
  PROVE  VerifyAnchor(one, trust, one.record) = VerifyAnchor(other, trust, other.record)
  <1>1. one.batch.root = other.batch.root /\ one.adapter = other.adapter /\ one.proof = other.proof BY DEF CacheId
  <1> QED BY <1>1 DEF VerifyAnchor

LEMMA Appending ==
  ASSUME Still, UNCHANGED <<bundle, trust>>, Carried, Followed, Len(checked) + 1 <= Len(bundle.references),
         NEW reference, reference = bundle.references[Len(checked) + 1], checked' = Append(checked, Expected(reference))
  PROVE  Followed'
  <1>1. checked \in Seq(Reports) /\ Len(checked) \in Nat BY LenProperties DEF Followed
  <1>2. Expected(reference) \in Reports BY VerdictType, RefusalsAre DEF Expected
  <1> DEFINE v == Expected(reference)
  <1> HIDE DEF v
  <1>3. /\ Append(checked, v) \in Seq(Reports) /\ Len(Append(checked, v)) = Len(checked) + 1
        /\ \A i \in 1 .. Len(checked) : Append(checked, v)[i] = checked[i]
        /\ Append(checked, v)[Len(checked) + 1] = v
    BY <1>1, <1>2, AppendProperties DEF v
  <1>4. checked' = Append(checked, v) BY DEF v
  <1>5. checked' \in Seq(Reports) /\ Len(checked') = Len(checked) + 1 /\ Len(checked') <= Len(bundle'.references)
    BY <1>3, <1>4
  <1>6. ASSUME NEW i \in 1 .. Len(checked'), NEW r, r = bundle.references[i] PROVE checked'[i] = Expected(r)
    <2>1. CASE i \in 1 .. Len(checked)
      <3>1. checked'[i] = checked[i] BY <1>3, <1>4, <2>1
      <3> QED BY <1>6, <2>1, <3>1 DEF Followed
    <2>2. CASE i = Len(checked) + 1 BY <1>3, <1>4, <1>6, <2>2 DEF v
    <2> QED BY <1>1, <1>5, <2>1, <2>2
  <1> QED BY <1>5, <1>6, ExpectedStays DEF Followed

LEMMA CheckKeeps ==
  ASSUME Still, PInv, outcome = "elsewhere", CheckReference
  PROVE  PInv'
  <1> DEFINE i == Len(checked) + 1
  <1>1. bundle # None /\ report = None /\ i <= Len(bundle.references) /\ UNCHANGED <<bundle, trust, report>>
    BY DEF CheckReference
  <1>2. Carried /\ Followed /\ Cached BY <1>1 DEF PInv, Untouched
  <1>3. Fixed' /\ Placed' /\ outcome' = "elsewhere" BY DEF PInv, Placed, Still, Fixed, Batches
  <1>4. Carried' BY <1>1, <1>2, CarriedStays
  <1>5. Reported' BY <1>1 DEF Reported
  <1>6. Len(checked) \in Nat /\ i \in 1 .. Len(bundle.references) BY <1>1, <1>2, LenProperties DEF Followed, Carried
  <1>7. PICK reference : reference = bundle.references[i] OBVIOUS
  <1> DEFINE v == Expected(reference)
             fresh == VerifyAnchor(reference, trust, reference.record)
             id == CacheId(reference)
             hits == {known \in cache : known.id = id}
  <1>8. \/ checked' = checked /\ cache' = cache
        \/ checked' = Append(checked, v) /\ cache' = cache
        \/ /\ verifyInclusion(reference.record, reference.batch) /\ v = fresh
           /\ checked' = Append(checked, v) /\ cache' = cache \cup {[id |-> id, verdict |-> fresh]}
    <2>1. CASE checked' = checked /\ cache' = cache BY <2>1
    <2>2. CASE /\ reference.record \notin bundle.sound
               /\ checked' = Append(checked, Indeterminate) /\ cache' = cache
      BY <2>2 DEF Expected
    <2>3. CASE /\ reference.record \in bundle.sound /\ ~verifyInclusion(reference.record, reference.batch)
               /\ checked' = Append(checked, Invalid) /\ cache' = cache
      BY <2>3 DEF Expected
    <2>4. CASE /\ reference.record \in bundle.sound /\ verifyInclusion(reference.record, reference.batch)
               /\ reference.proof \notin bundle.objects
               /\ checked' = Append(checked, Indeterminate) /\ cache' = cache
      BY <2>4 DEF Expected
    <2>5. CASE /\ reference.record \in bundle.sound /\ verifyInclusion(reference.record, reference.batch)
               /\ reference.proof \in bundle.objects
               /\ \E known \in cache : known.id = id
               /\ checked' = Append(checked, (CHOOSE known \in cache : known.id = id).verdict) /\ cache' = cache
      <3> DEFINE hit == CHOOSE known \in cache : known.id = id
      <3>1. hit \in cache /\ hit.id = id BY <2>5
      <3> HIDE DEF hit
      <3>2. PICK other :
              /\ hit.id = CacheId(other) /\ verifyInclusion(other.record, other.batch)
              /\ hit.verdict = VerifyAnchor(other, trust, other.record)
        BY <1>2, <3>1 DEF Cached
      <3>3. VerifyAnchor(other, trust, other.record) = fresh BY <2>5, <3>1, <3>2, SameVerdict
      <3>4. v = fresh BY <2>5 DEF Expected
      <3>5. checked' = Append(checked, hit.verdict) BY <2>5 DEF hit
      <3> QED BY <2>5, <3>2, <3>3, <3>4, <3>5
    <2>6. CASE /\ reference.record \in bundle.sound /\ verifyInclusion(reference.record, reference.batch)
               /\ reference.proof \in bundle.objects
               /\ cache' = cache \cup {[id |-> id, verdict |-> fresh]} /\ checked' = Append(checked, fresh)
      <3>1. v = fresh BY <2>6 DEF Expected
      <3> QED BY <2>6, <3>1
    <2> HIDE DEF v
    <2> QED BY <1>7, <2>1, <2>2, <2>3, <2>4, <2>5, <2>6 DEF CheckReference
  <1> HIDE DEF v, id, fresh
  <1>9. Followed'
    <2>1. CASE checked' = checked BY <1>1, <1>2, <2>1, FollowedStays
    <2>2. CASE checked' = Append(checked, v) BY <1>1, <1>2, <1>7, <2>2, Appending DEF v
    <2> QED BY <1>8, <2>1, <2>2
  <1>10. Cached'
    <2>1. CASE cache' = cache BY <1>1, <1>2, <2>1, CachedStays
    <2>2. CASE verifyInclusion(reference.record, reference.batch) /\ cache' = cache \cup {[id |-> id, verdict |-> fresh]}
      <3> SUFFICES ASSUME NEW known \in cache'
                   PROVE  \E k \in 1 .. Len(bundle.references) : \E r :
                            /\ r = bundle.references[k] /\ known.id = CacheId(r)
                            /\ verifyInclusion(r.record, r.batch)
                            /\ known.verdict = VerifyAnchor(r, trust, r.record)
        BY <1>1, VerdictsStay DEF Cached
      <3>1. CASE known \in cache BY <1>2, <3>1 DEF Cached
      <3>2. CASE known = [id |-> id, verdict |-> fresh]
        <4>1. known.id = CacheId(reference) /\ known.verdict = VerifyAnchor(reference, trust, reference.record)
          BY <3>2 DEF id, fresh
        <4> HIDE DEF i
        <4> QED BY <1>6, <1>7, <2>2, <4>1
      <3> QED BY <2>2, <3>1, <3>2
    <2> QED BY <1>8, <2>1, <2>2
  <1> QED BY <1>1, <1>3, <1>4, <1>5, <1>9, <1>10 DEF PInv

LEMMA ConcludeKeeps ==
  ASSUME Still, PInv, outcome = "elsewhere", Conclude
  PROVE  PInv'
  <1>1. bundle # None /\ report = None /\ UNCHANGED <<bundle, trust, checked, cache>> BY DEF Conclude
  <1>2. Carried /\ Followed /\ Cached BY <1>1 DEF PInv, Untouched
  <1>3. Fixed' /\ Placed' /\ outcome' = "elsewhere" BY DEF PInv, Placed, Still, Fixed, Batches
  <1>4. Carried' /\ Followed' /\ Cached' BY <1>1, <1>2, CarriedStays, FollowedStays, CachedStays
  <1>5. Reported'
    <2>1. CASE report' = report BY <1>1, <2>1 DEF Reported
    <2>2. CASE report' = [record \in {batch[i] : i \in DOMAIN batch} |->
                            Joined({checked[i] : i \in {j \in DOMAIN checked : bundle.references[j].record = record}})]
      BY <1>1, <2>2 DEF Reported, Mine, Still
    <2> QED BY <2>1, <2>2 DEF Conclude
  <1> QED BY <1>1, <1>3, <1>4, <1>5 DEF PInv

LEMMA StepPortable == PInv /\ [Next]_vars => PInv'
  <1> SUFFICES ASSUME PInv, [Next]_vars PROVE PInv'
    OBVIOUS
  <1>0. Fixed' BY BatchStays DEF PInv
  <1>1. CASE outcome # "elsewhere" /\ FastNext /\ UNCHANGED portableVars
    <2>1. Untouched /\ outcome' # "elsewhere" BY <1>1, Apart DEF PInv
    <2>2. Untouched' BY <1>1, <2>1 DEF Untouched, portableVars
    <2> QED BY <1>0, <2>1, <2>2 DEF PInv
  <1>2. CASE outcome = "elsewhere" /\ PortableNext /\ UNCHANGED <<batch, placed, fastVars>>
    <2>1. Still BY <1>2 DEF Still, fastVars
    <2> QED BY <1>2, <2>1, ReceivedKeeps, CheckKeeps, ConcludeKeeps DEF PortableNext
  <1>3. CASE UNCHANGED vars
    <2>1. Still /\ UNCHANGED <<bundle, trust, checked, cache, report>> BY <1>3 DEF vars, Still, fastVars, portableVars
    <2>2. (outcome = "elsewhere" => Placed)' BY <2>1 DEF PInv, Placed, Still
    <2>3. CASE Untouched
      <3>1. Untouched' BY <2>1, <2>3 DEF Untouched
      <3> QED BY <1>0, <2>2, <3>1 DEF PInv
    <2>4. CASE outcome = "elsewhere" /\ bundle # None /\ Carried /\ Followed /\ Cached /\ Reported
      <3>1. Carried' /\ Followed' /\ Cached' BY <2>1, <2>4, CarriedStays, FollowedStays, CachedStays
      <3>2. Reported' BY <2>1, <2>4 DEF Reported, Mine, Still
      <3>3. outcome' = "elsewhere" /\ bundle' # None BY <2>1, <2>4 DEF Still
      <3> QED BY <1>0, <2>2, <3>1, <3>2, <3>3 DEF PInv
    <2> QED BY <2>3, <2>4 DEF PInv
  <1> QED BY <1>1, <1>2, <1>3 DEF Next

\* Every verdict on a reference, and every joined verdict on a record, is earned.  It says that consensus
\* holds the record just when the reference proves it in its own place, the recipient trusts the network
\* and the network itself holds that archive; that the block's hash is bound just when the full header is
\* the network's own besides; and that the log holds it just when the log does.  This is so whatever the
\* forger puts into the bundle, for any interval, number of rounds, chain limit and cache limit
\* (verify of the state proofs, verifyAnchor, the cache and the join of verifyPortable).
THEOREM VerdictsEarned == Spec => []VerdictsAreEarned
  <1> QED BY InitPortable, StepPortable, Earning, PTL DEF Spec
===============================================================================
