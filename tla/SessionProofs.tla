---------------------------- MODULE SessionProofs ----------------------------
(***************************************************************************)
(* Proofs about Session for any number of texts, versions, attempts,       *)
(* transactions and waiting operations.                                    *)
(***************************************************************************)
EXTENDS Session, SequenceTheorems, FiniteSetTheorems, TLAPS

Sending == {"consuming", "dispatching", "answering", "recording"}
Sent == {"dispatching", "answering", "recording"}
Confirming == {"submitting", "collecting", "validating", "confirming"}

Requests ==
  [kind : {"freeze"}, id : Ids \cup {None}, draft : Draft, mode : Modes]
  \cup [kind : {"confirm"}, id : Ids, draft : Draft, managed : BOOLEAN]
  \cup [kind : {"release"}, id : Ids, draft : Draft]
  \cup [kind : {"retry"}, id : Ids, draft : Draft, prior : 1 .. MaxAttempts]
  \cup [kind : {"cancel", "upgrade"}, id : Ids]

(***************************************************************************)
(* The inductive invariant.                                                *)
(***************************************************************************)

Memory ==
  /\ versions \in Seq(Version) /\ journal \in Seq(Record) /\ Len(journal) = Len(versions)
  /\ handed \in Seq(Nat) /\ Len(handed) = Len(versions)
  /\ granted \in Seq(Nat) /\ Len(granted) = Len(versions)

\* Freezes asked for whose version is not there yet.
Unsealed == {i \in DOMAIN queue : queue[i].kind = "freeze" /\ ~(i = 1 /\ phase \in Sending)}

Turn ==
  /\ queue \in Seq(Requests) /\ Len(queue) <= MaxQueue /\ (queue = <<>> => phase = "waiting")
  /\ phase \in Phases /\ answer \in Outcomes \cup {None} /\ (answer # None => phase = "recording")
  /\ ended \in Nat /\ ended + Len(queue) <= MaxRequests
  /\ \A i \in DOMAIN queue : queue[i].kind # "freeze" => queue[i].id \in DOMAIN versions
  /\ Len(versions) + Cardinality(Unsealed) <= MaxVersions

Outside == scope \in {"unenrolled", "eligible", "revoked"} /\ draft \in Draft \cup {None}

\* What the operation at the head of the queue has established where it stands.
Stands ==
  /\ phase = "sealing" => Op.kind = "freeze"
  /\ phase \in Confirming => Op.kind = "confirm" /\ versions[Op.id].anchor = "PENDING"
  /\ phase = "validating" => versions[Op.id].mode = "Continuous"
  /\ phase = "confirming" => versions[Op.id].mode # "Continuous"
  /\ phase = "retrying" => Op.kind = "retry" /\ versions[Op.id].mode # "Continuous"
  /\ phase = "cancelling" => Op.kind = "cancel"
  /\ phase \in Sending => Op.id \in DOMAIN versions
  /\ phase = "consuming" /\ versions[Op.id].mode = "Continuous" => ~journal[Op.id].cancelled
  /\ phase \in Sent => journal[Op.id].tries > 0 /\ journal[Op.id].last = "DISPATCHING"
  /\ phase = "recording" => answer \in Outcomes

One(b) == IF b THEN 1 ELSE 0
\* What the session shows of a version, what the runtime remembers of it, how often it was handed
\* over and how often approved, whether it is about to be handed over.
Matches(v, j, h, g, sending) ==
  /\ j.last = "DISPATCHING" \/ v.attempt = IF j.tries = 0 THEN None ELSE [no |-> j.tries, state |-> j.last]
  /\ v.mode # "Continuous" => /\ j.confirmed <=> v.anchor # "PENDING"
                              /\ j.confirmed <=> Contains(v.assurance, "SOURCE_CORROBORATED")
                              /\ j.tries > 0 => j.confirmed
  /\ j.cancelled <=> v.state = "CANCELLED"
  /\ j.cancelled => j.tries = 0
  /\ j.tries = 0 => h = 0
  /\ h + One(sending) + One(j.authorized) + One(v.mode = "Continuous" /\ j.tries = 0) <= g
IsSending(id) == queue # <<>> /\ phase = "dispatching" /\ Op.id = id
Matching == \A id \in DOMAIN versions :
              Matches(versions[id], journal[id], handed[id], granted[id], IsSending(id))

IInv == Memory /\ Turn /\ Outside /\ (queue # <<>> => Stands) /\ Matching

-----------------------------------------------------------------------------
(* Sequences.                                                              *)

LEMMA PutType ==
  ASSUME NEW S, NEW s \in Seq(S), NEW i \in DOMAIN s, NEW e \in S
  PROVE  LET new == [s EXCEPT ![i] = e] IN
         /\ new \in Seq(S) /\ Len(new) = Len(s) /\ DOMAIN new = DOMAIN s /\ new[i] = e
         /\ \A j \in DOMAIN s : j # i => new[j] = s[j]
  <1>1. DOMAIN s = 1 .. Len(s) BY LenProperties
  <1> QED BY <1>1, ExceptSeq, LenProperties

LEMMA PutSame ==
  ASSUME NEW S, NEW s \in Seq(S), NEW i \in DOMAIN s
  PROVE  [s EXCEPT ![i] = s[i]] = s
  <1>1. s \in [1 .. Len(s) -> S] BY LenProperties
  <1> QED BY <1>1

LEMMA Typed ==
  ASSUME IInv
  PROVE  /\ DOMAIN versions = 1 .. Len(versions) /\ DOMAIN journal = DOMAIN versions
         /\ DOMAIN handed = DOMAIN versions /\ DOMAIN granted = DOMAIN versions
         /\ \A id \in DOMAIN versions : /\ versions[id] \in Version /\ journal[id] \in Record
                                        /\ handed[id] \in Nat /\ granted[id] \in Nat
         /\ Len(versions) \in Nat
  <1>1. /\ DOMAIN versions = 1 .. Len(versions) /\ DOMAIN journal = 1 .. Len(journal)
        /\ DOMAIN handed = 1 .. Len(handed) /\ DOMAIN granted = 1 .. Len(granted) /\ Len(versions) \in Nat
    BY LenProperties DEF IInv, Memory
  <1> QED BY <1>1, ElementOfSeq DEF IInv, Memory

LEMMA QueueType ==
  ASSUME IInv
  PROVE  /\ DOMAIN queue = 1 .. Len(queue) /\ Len(queue) \in Nat
         /\ \A i \in DOMAIN queue : queue[i] \in Requests
         /\ IsFiniteSet(Unsealed) /\ Cardinality(Unsealed) \in Nat
         /\ queue # <<>> => /\ 1 \in DOMAIN queue /\ Op = queue[1] /\ Op \in Requests
                            /\ (Op.kind # "freeze" => Op.id \in DOMAIN versions)
  <1>1. DOMAIN queue = 1 .. Len(queue) /\ Len(queue) \in Nat BY LenProperties DEF IInv, Turn
  <1>2. \A i \in DOMAIN queue : queue[i] \in Requests BY <1>1, ElementOfSeq DEF IInv, Turn
  <1>3. IsFiniteSet(1 .. Len(queue)) BY <1>1, FS_Interval
  <1>4. Unsealed \in SUBSET (1 .. Len(queue)) BY <1>1 DEF Unsealed
  <1>5. IsFiniteSet(Unsealed) /\ Cardinality(Unsealed) \in Nat BY <1>3, <1>4, FS_Subset, FS_CardinalityType
  <1>6. ASSUME queue # <<>> PROVE 1 \in DOMAIN queue /\ Op = queue[1]
    <2>1. Len(queue) # 0 BY <1>6, EmptySeq DEF IInv, Turn
    <2> QED BY <1>1, <2>1 DEF Op
  <1> QED BY <1>1, <1>2, <1>5, <1>6 DEF IInv, Turn

LEMMA Bounds ==
  ASSUME IInv
  PROVE  /\ MaxRevision \in Nat /\ MaxVersions \in Nat /\ MaxAttempts \in Nat
         /\ MaxQueue \in Nat /\ MaxRequests \in Nat
         /\ Len(queue) <= MaxQueue /\ ended \in Nat /\ ended + Len(queue) <= MaxRequests
         /\ Len(versions) + Cardinality(Unsealed) <= MaxVersions
         /\ \A i \in DOMAIN queue : queue[i].kind # "freeze" => queue[i].id \in DOMAIN versions
  BY SessionAssumption DEF IInv, Turn

\* The request at the head as its kind says.
LEMMA OpType ==
  ASSUME IInv, queue # <<>>
  PROVE  /\ Op.kind \in {"freeze", "confirm", "release", "retry", "cancel", "upgrade"}
         /\ Op.kind = "freeze" => Op.draft \in Draft /\ Op.mode \in Modes
         /\ Op.kind # "freeze" => Op.id \in DOMAIN versions
  BY QueueType DEF Requests

-----------------------------------------------------------------------------
(* Counting the freezes that wait.                                         *)

\* The operations that wait behind the first move up by one.
LEMMA TailUnsealed ==
  ASSUME IInv, queue # <<>>, queue' = Tail(queue), phase' = "waiting"
  PROVE  /\ IsFiniteSet(Unsealed') /\ Cardinality(Unsealed') \in Nat
         /\ Cardinality(Unsealed') <= Cardinality(Unsealed)
         /\ 1 \in Unsealed => Cardinality(Unsealed') + 1 <= Cardinality(Unsealed)
  <1> DEFINE rest == Unsealed \ {1}
             up == [i \in Unsealed' |-> i + 1]
  <1>1. DOMAIN queue = 1 .. Len(queue) /\ Len(queue) \in Nat /\ IsFiniteSet(Unsealed)
        /\ Cardinality(Unsealed) \in Nat
    BY QueueType
  <1>2. /\ queue' \in Seq(Requests) /\ Len(queue') = Len(queue) - 1
        /\ \A i \in 1 .. Len(queue') : queue'[i] = queue[i + 1]
    BY HeadTailProperties DEF IInv, Turn
  <1>3. DOMAIN queue' = 1 .. Len(queue') BY <1>2, LenProperties
  <1>4. IsFiniteSet(rest) /\ Cardinality(rest) = IF 1 \in Unsealed THEN Cardinality(Unsealed) - 1 ELSE Cardinality(Unsealed)
    BY <1>1, FS_RemoveElement
  <1>5. ASSUME NEW i \in Unsealed' PROVE i \in Nat \ {0} /\ i + 1 \in rest
    <2>1. i \in 1 .. Len(queue') /\ queue'[i].kind = "freeze" BY <1>3 DEF Unsealed
    <2>2. i + 1 \in 1 .. Len(queue) /\ queue[i + 1].kind = "freeze" /\ i + 1 # 1 BY <1>1, <1>2, <2>1
    <2> QED BY <1>1, <2>1, <2>2 DEF Unsealed
  <1>6. up \in Injection(Unsealed', rest)
    <2>1. DOMAIN up = Unsealed' OBVIOUS
    <2>2. up \in [Unsealed' -> rest] BY <1>5
    <2>3. \A i, k \in DOMAIN up : up[i] = up[k] => i = k BY <1>5, <2>1
    <2> QED BY <2>2, <2>3 DEF Injection, IsInjective
  <1>7. IsFiniteSet(Unsealed') /\ Cardinality(Unsealed') <= Cardinality(rest) BY <1>4, <1>6, FS_Injection
  <1>8. Cardinality(Unsealed') \in Nat BY <1>7, FS_CardinalityType
  <1> QED BY <1>1, <1>4, <1>7, <1>8

\* The phase alone moves: a freeze leaves the count when its version is there.
LEMMA PhaseUnsealed ==
  ASSUME IInv, queue # <<>>, DOMAIN queue' = DOMAIN queue,
         \A i \in DOMAIN queue : queue'[i].kind = queue[i].kind,
         phase \notin Sending \/ phase' \in Sending
  PROVE  /\ IsFiniteSet(Unsealed') /\ Cardinality(Unsealed') \in Nat
         /\ Cardinality(Unsealed') <= Cardinality(Unsealed)
         /\ 1 \in Unsealed /\ phase' \in Sending => Cardinality(Unsealed') + 1 <= Cardinality(Unsealed)
  <1>1. IsFiniteSet(Unsealed) /\ Cardinality(Unsealed) \in Nat BY QueueType
  <1>2. Unsealed' \in SUBSET Unsealed BY DEF Unsealed
  <1>3. IsFiniteSet(Unsealed') /\ Cardinality(Unsealed') <= Cardinality(Unsealed) BY <1>1, <1>2, FS_Subset
  <1>4. Cardinality(Unsealed') \in Nat BY <1>3, FS_CardinalityType
  <1>5. ASSUME 1 \in Unsealed, phase' \in Sending PROVE Cardinality(Unsealed') + 1 <= Cardinality(Unsealed)
    <2>1. Unsealed' \in SUBSET (Unsealed \ {1}) BY <1>2, <1>5 DEF Unsealed
    <2>2. IsFiniteSet(Unsealed \ {1}) /\ Cardinality(Unsealed \ {1}) = Cardinality(Unsealed) - 1
      BY <1>1, <1>5, FS_RemoveElement
    <2>3. Cardinality(Unsealed') <= Cardinality(Unsealed \ {1}) BY <2>1, <2>2, FS_Subset
    <2> QED BY <1>1, <1>4, <2>2, <2>3
  <1> QED BY <1>3, <1>4, <1>5

LEMMA AppendUnsealed ==
  ASSUME IInv, NEW r \in Requests, queue' = Append(queue, r), phase' = phase
  PROVE  /\ IsFiniteSet(Unsealed') /\ Cardinality(Unsealed') \in Nat
         /\ r.kind # "freeze" => Cardinality(Unsealed') <= Cardinality(Unsealed)
         /\ Cardinality(Unsealed') <= Cardinality(Unsealed) + 1
  <1> DEFINE n == Len(queue) + 1
  <1>1. DOMAIN queue = 1 .. Len(queue) /\ Len(queue) \in Nat /\ IsFiniteSet(Unsealed)
        /\ Cardinality(Unsealed) \in Nat
    BY QueueType
  <1>2. /\ queue' \in Seq(Requests) /\ Len(queue') = n /\ queue'[n] = r
        /\ \A i \in 1 .. Len(queue) : queue'[i] = queue[i]
    BY AppendProperties DEF IInv, Turn
  <1>3. DOMAIN queue' = 1 .. n BY <1>2, LenProperties
  <1>4. Unsealed' \in SUBSET (Unsealed \cup {n}) BY <1>1, <1>2, <1>3 DEF Unsealed
  <1>5. r.kind # "freeze" => Unsealed' \in SUBSET Unsealed BY <1>1, <1>2, <1>3 DEF Unsealed
  <1>6. IsFiniteSet(Unsealed \cup {n}) /\ Cardinality(Unsealed \cup {n}) <= Cardinality(Unsealed) + 1
        /\ Cardinality(Unsealed \cup {n}) \in Nat
    BY <1>1, FS_AddElement, FS_CardinalityType
  <1>7. IsFiniteSet(Unsealed') /\ Cardinality(Unsealed') <= Cardinality(Unsealed \cup {n})
    BY <1>4, <1>6, FS_Subset
  <1>8. Cardinality(Unsealed') \in Nat BY <1>7, FS_CardinalityType
  <1>9. r.kind # "freeze" => Cardinality(Unsealed') <= Cardinality(Unsealed) BY <1>1, <1>5, FS_Subset
  <1> QED BY <1>1, <1>6, <1>7, <1>8, <1>9

-----------------------------------------------------------------------------
(* What a step that leaves a part alone keeps of the invariant.            *)

LEMMA Weaker ==
  ASSUME NEW v, NEW j, NEW h \in Nat, NEW g \in Nat, Matches(v, j, h, g, TRUE)
  PROVE  Matches(v, j, h, g, FALSE)
  <1> DEFINE a == One(j.authorized)
             b == One(v.mode = "Continuous" /\ j.tries = 0)
  <1>1. a \in Nat /\ b \in Nat BY DEF One
  <1>2. h + One(TRUE) + a + b <= g BY DEF Matches
  <1>3. One(TRUE) = 1 BY DEF One
  <1>4. One(FALSE) = 0 BY DEF One
  <1>5. h + One(FALSE) + a + b <= g
    <2> HIDE DEF a, b
    <2>1. h + 1 + a + b <= g BY <1>2, <1>3
    <2>2. h + 0 + a + b <= g BY <1>1, <2>1
    <2> QED BY <1>4, <2>2
  <1> QED BY <1>5 DEF Matches

\* No version changes, and none is about to be handed over that was not.
LEMMA MemoryFrame ==
  ASSUME IInv, UNCHANGED <<versions, journal, handed, granted>>,
         \A id \in DOMAIN versions : IsSending(id)' => IsSending(id)
  PROVE  Memory' /\ Matching'
  <1>1. Memory' BY DEF IInv, Memory
  <1>2. ASSUME NEW id \in DOMAIN versions
        PROVE  Matches(versions[id], journal[id], handed[id], granted[id], IsSending(id)')
    <2>1. handed[id] \in Nat /\ granted[id] \in Nat BY Typed
    <2>2. Matches(versions[id], journal[id], handed[id], granted[id], IsSending(id)) BY DEF IInv, Matching
    <2>3. IsSending(id) \in BOOLEAN /\ IsSending(id)' \in BOOLEAN BY DEF IsSending
    <2>4. CASE IsSending(id) = IsSending(id)' BY <2>2, <2>4
    <2>5. CASE IsSending(id) = TRUE /\ IsSending(id)' = FALSE BY <2>1, <2>2, <2>5, Weaker
    <2> QED BY <2>3, <2>4, <2>5
  <1> QED BY <1>1, <1>2 DEF Matching

\* One version changes.
LEMMA Updates ==
  ASSUME IInv, NEW id \in DOMAIN versions, NEW v \in Version, NEW j \in Record, NEW h \in Nat, NEW g \in Nat,
         versions' = [versions EXCEPT ![id] = v], journal' = [journal EXCEPT ![id] = j],
         handed' = [handed EXCEPT ![id] = h], granted' = [granted EXCEPT ![id] = g],
         Matches(v, j, h, g, IsSending(id)'),
         \A other \in DOMAIN versions : other # id => (IsSending(other)' => IsSending(other))
  PROVE  /\ Memory' /\ Matching'
         /\ DOMAIN versions' = DOMAIN versions /\ Len(versions') = Len(versions)
         /\ versions'[id] = v /\ journal'[id] = j
  <1>1. /\ versions' \in Seq(Version) /\ Len(versions') = Len(versions) /\ DOMAIN versions' = DOMAIN versions
        /\ versions'[id] = v /\ \A k \in DOMAIN versions : k # id => versions'[k] = versions[k]
    BY PutType DEF IInv, Memory
  <1>2. /\ journal' \in Seq(Record) /\ Len(journal') = Len(journal)
        /\ journal'[id] = j /\ \A k \in DOMAIN versions : k # id => journal'[k] = journal[k]
    BY PutType, Typed DEF IInv, Memory
  <1>3. /\ handed' \in Seq(Nat) /\ Len(handed') = Len(handed)
        /\ handed'[id] = h /\ \A k \in DOMAIN versions : k # id => handed'[k] = handed[k]
    BY PutType, Typed DEF IInv, Memory
  <1>4. /\ granted' \in Seq(Nat) /\ Len(granted') = Len(granted)
        /\ granted'[id] = g /\ \A k \in DOMAIN versions : k # id => granted'[k] = granted[k]
    BY PutType, Typed DEF IInv, Memory
  <1>5. Memory' BY <1>1, <1>2, <1>3, <1>4 DEF IInv, Memory
  <1>6. ASSUME NEW k \in DOMAIN versions
        PROVE  Matches(versions'[k], journal'[k], handed'[k], granted'[k], IsSending(k)')
    <2>1. CASE k = id BY <1>1, <1>2, <1>3, <1>4, <2>1
    <2>2. CASE k # id
      <3>1. handed[k] \in Nat /\ granted[k] \in Nat BY Typed
      <3>2. Matches(versions[k], journal[k], handed[k], granted[k], IsSending(k)) BY DEF IInv, Matching
      <3>3. IsSending(k) \in BOOLEAN /\ IsSending(k)' \in BOOLEAN BY DEF IsSending
      <3>4. Matches(versions[k], journal[k], handed[k], granted[k], IsSending(k)')
        <4>1. CASE IsSending(k) = IsSending(k)' BY <3>2, <4>1
        <4>2. CASE IsSending(k) = TRUE /\ IsSending(k)' = FALSE BY <3>1, <3>2, <4>2, Weaker
        <4> QED BY <2>2, <3>3, <4>1, <4>2
      <3> QED BY <1>1, <1>2, <1>3, <1>4, <2>2, <3>4
    <2> QED BY <2>1, <2>2
  <1>7. Matching' BY <1>1, <1>6 DEF Matching
  <1> QED BY <1>1, <1>2, <1>5, <1>7

\* The operation at the head goes on to another await.
LEMMA TurnGoes ==
  ASSUME IInv, queue # <<>>, queue' = queue, ended' = ended, phase' \in Phases,
         answer' \in Outcomes \cup {None}, answer' # None => phase' = "recording",
         phase \notin Sending \/ phase' \in Sending,
         DOMAIN versions' = DOMAIN versions, Len(versions') = Len(versions)
  PROVE  Turn'
  <1>1. /\ Cardinality(Unsealed') \in Nat /\ Cardinality(Unsealed') <= Cardinality(Unsealed)
        /\ Cardinality(Unsealed) \in Nat
    BY PhaseUnsealed, QueueType
  <1>2. Len(versions) + Cardinality(Unsealed') <= MaxVersions
    BY <1>1, Typed, Bounds
  <1> QED BY <1>2 DEF IInv, Turn

\* The operation at the head ends.
LEMMA TurnPops ==
  ASSUME IInv, queue # <<>>, Ends, DOMAIN versions \subseteq DOMAIN versions',
         Len(versions') + Cardinality(Unsealed') <= MaxVersions
  PROVE  Turn' /\ Stands' /\ \A id : ~IsSending(id)'
  <1>1. /\ queue' \in Seq(Requests) /\ Len(queue') = Len(queue) - 1 /\ Len(queue) \in Nat
        /\ \A i \in 1 .. Len(queue') : queue'[i] = queue[i + 1]
    BY HeadTailProperties, QueueType DEF IInv, Turn, Ends
  <1>2. DOMAIN queue' = 1 .. Len(queue') /\ DOMAIN queue = 1 .. Len(queue) BY <1>1, LenProperties, QueueType
  <1>3. \A i \in DOMAIN queue' : queue'[i].kind # "freeze" => queue'[i].id \in DOMAIN versions'
    <2>1. SUFFICES ASSUME NEW i \in 1 .. Len(queue'), queue[i + 1].kind # "freeze"
                   PROVE  queue[i + 1].id \in DOMAIN versions
      BY <1>1, <1>2
    <2>2. i + 1 \in DOMAIN queue BY <1>1, <1>2
    <2> QED BY <2>1, <2>2, Bounds
  <1>4. ended' \in Nat /\ ended' + Len(queue') <= MaxRequests /\ Len(queue') <= MaxQueue
    BY <1>1, Bounds DEF Ends
  <1>5. phase' = "waiting" /\ answer' = None BY DEF Ends
  <1>6. Turn' BY <1>1, <1>3, <1>4, <1>5 DEF Turn, Phases
  <1>7. Stands' BY <1>5 DEF Stands, Confirming, Sending, Sent
  <1> QED BY <1>5, <1>6, <1>7 DEF IsSending

LEMMA TurnEnds ==
  ASSUME IInv, queue # <<>>, Ends, DOMAIN versions' = DOMAIN versions, Len(versions') = Len(versions)
  PROVE  Turn' /\ Stands' /\ \A id : ~IsSending(id)'
  <1>1. /\ Cardinality(Unsealed') \in Nat /\ Cardinality(Unsealed') <= Cardinality(Unsealed)
        /\ Cardinality(Unsealed) \in Nat
    BY TailUnsealed, QueueType DEF Ends
  <1>2. Len(versions) + Cardinality(Unsealed') <= MaxVersions BY <1>1, Typed, Bounds
  <1> QED BY <1>2, TurnPops

\* An operation that ends and leaves every version as it was.
LEMMA EndsOnly ==
  ASSUME IInv, queue # <<>>, Ends, UNCHANGED <<scope, draft, versions, journal, handed, granted>>
  PROVE  IInv'
  <1>1. Turn' /\ Stands' /\ \A id : ~IsSending(id)' BY TurnEnds
  <1>2. Memory' /\ Matching' BY <1>1, MemoryFrame
  <1>3. Outside' BY DEF IInv, Outside
  <1> QED BY <1>1, <1>2, <1>3 DEF IInv

\* An operation that goes on and leaves every version as it was.
LEMMA GoesOnly ==
  ASSUME IInv, queue # <<>>, NEW next \in Phases \ Sent, Goes(next), phase \notin Sending, Stands',
         UNCHANGED <<scope, draft, versions, journal, handed, granted>>
  PROVE  IInv'
  <1>1. phase' \in Phases /\ phase' # "dispatching" BY DEF Goes, Sent
  <1>2. answer' \in Outcomes \cup {None} /\ (answer' # None => phase' = "recording")
    BY DEF IInv, Turn, Goes, Sending
  <1>3. Turn' BY <1>1, <1>2, TurnGoes DEF Goes
  <1>4. Memory' /\ Matching' BY <1>1, MemoryFrame DEF IsSending
  <1>5. Outside' BY DEF IInv, Outside
  <1> QED BY <1>3, <1>4, <1>5 DEF IInv

-----------------------------------------------------------------------------
(* What a person does.                                                     *)

\* Only the conversation or the draft changes.
LEMMA Still ==
  ASSUME IInv, UNCHANGED <<versions, journal, handed, granted, queue, phase, answer, ended>>, Outside'
  PROVE  IInv'
  <1>1. Memory' /\ Matching' BY MemoryFrame DEF IsSending, Op
  <1>2. Unsealed' = Unsealed BY DEF Unsealed
  <1>3. Turn' BY <1>2 DEF IInv, Turn
  <1>4. queue # <<>> => Stands' BY DEF IInv, Stands, Op
  <1> QED BY <1>1, <1>3, <1>4 DEF IInv

\* A request joins the queue.
LEMMA Asked ==
  ASSUME IInv, NEW r \in Requests, Asks(r), draft' \in Draft \cup {None},
         r.kind # "freeze" => r.id \in DOMAIN versions,
         r.kind = "freeze" => Len(versions) + Cardinality({i \in DOMAIN queue : queue[i].kind = "freeze"}) < MaxVersions
  PROVE  IInv'
  <1> DEFINE n == Len(queue) + 1
             freezes == {i \in DOMAIN queue : queue[i].kind = "freeze"}
  <1>1. /\ queue' = Append(queue, r)
        /\ UNCHANGED <<scope, versions, journal, phase, answer, ended, handed, granted>>
        /\ Len(queue) < MaxQueue /\ ended + Len(queue) < MaxRequests
    BY DEF Asks, memory, turn, history
  <1>2. /\ queue' \in Seq(Requests) /\ Len(queue') = n /\ queue'[n] = r
        /\ \A i \in 1 .. Len(queue) : queue'[i] = queue[i]
    BY <1>1, AppendProperties DEF IInv, Turn
  <1>3. DOMAIN queue = 1 .. Len(queue) /\ Len(queue) \in Nat /\ DOMAIN queue' = 1 .. n
        /\ Cardinality(Unsealed) \in Nat /\ IsFiniteSet(Unsealed)
    BY <1>2, QueueType, LenProperties
  <1>4. /\ Cardinality(Unsealed') \in Nat
        /\ r.kind # "freeze" => Cardinality(Unsealed') <= Cardinality(Unsealed)
        /\ Cardinality(Unsealed') <= Cardinality(Unsealed) + 1
    BY <1>1, AppendUnsealed
  <1>5. IsFiniteSet(freezes) /\ Cardinality(freezes) \in Nat /\ Cardinality(Unsealed) <= Cardinality(freezes)
    <2>1. IsFiniteSet(1 .. Len(queue)) BY <1>3, FS_Interval
    <2>2. IsFiniteSet(freezes) BY <1>3, <2>1, FS_Subset
    <2>3. Unsealed \in SUBSET freezes BY DEF Unsealed
    <2> QED BY <2>2, <2>3, FS_Subset, FS_CardinalityType
  <1>6. Len(versions) + Cardinality(Unsealed') <= MaxVersions
    <2> HIDE DEF freezes
    <2>1. Len(versions) \in Nat /\ MaxVersions \in Nat BY Typed, Bounds
    <2>2. CASE r.kind = "freeze"
      <3>1. Len(versions) + Cardinality(freezes) < MaxVersions BY <2>2 DEF freezes
      <3> QED BY <1>3, <1>4, <1>5, <2>1, <3>1
    <2>3. CASE r.kind # "freeze"
      <3>1. Len(versions) + Cardinality(Unsealed) <= MaxVersions BY Bounds
      <3> QED BY <1>3, <1>4, <2>1, <2>3, <3>1
    <2> QED BY <2>2, <2>3
  <1>7. ASSUME queue # <<>> PROVE Op' = Op /\ queue' # <<>>
    BY <1>2, <1>3, <1>7, QueueType, EmptySeq DEF Op
  <1>8. queue = <<>> => phase = "waiting" BY DEF IInv, Turn
  <1>9. Turn'
    <2>1. ASSUME NEW i \in DOMAIN queue', queue'[i].kind # "freeze"
          PROVE  queue'[i].id \in DOMAIN versions
      <3>1. CASE i = n BY <1>2, <2>1, <3>1
      <3>2. CASE i \in DOMAIN queue
        <4>1. queue'[i] = queue[i] BY <1>2, <1>3, <3>2
        <4>2. \A j \in DOMAIN queue : queue[j].kind # "freeze" => queue[j].id \in DOMAIN versions BY Bounds
        <4> QED BY <2>1, <3>2, <4>1, <4>2
      <3>3. i = n \/ i \in DOMAIN queue
        <4> HIDE DEF n
        <4>1. n = Len(queue) + 1 BY DEF n
        <4> QED BY <1>3, <4>1
      <3> QED BY <3>1, <3>2, <3>3
    <2>2. ended \in Nat /\ ended + Len(queue') <= MaxRequests /\ Len(queue') <= MaxQueue
      <3>1. ended \in Nat /\ MaxQueue \in Nat /\ MaxRequests \in Nat BY Bounds
      <3> QED BY <1>1, <1>2, <1>3, <3>1
    <2>3. queue' = <<>> => phase = "waiting" BY <1>2, <1>3, EmptySeq
    <2> QED BY <1>1, <1>2, <1>6, <2>1, <2>2, <2>3 DEF IInv, Turn
  <1>10. Stands'
    <2>1. CASE queue # <<>> BY <1>1, <1>7, <2>1 DEF IInv, Stands
    <2>2. CASE queue = <<>> BY <1>1, <1>8, <2>2 DEF Stands, Confirming, Sending, Sent
    <2> QED BY <2>1, <2>2
  <1>11. Memory' /\ Matching' BY <1>1, <1>7, <1>8, MemoryFrame DEF IsSending
  <1>12. Outside' BY <1>1 DEF IInv, Outside
  <1> QED BY <1>9, <1>10, <1>11, <1>12 DEF IInv

LEMMA PersonStep ==
  ASSUME IInv, Person
  PROVE  IInv'
  <1>1. CASE Enroll \/ Revoke
    BY <1>1, Still DEF Enroll, Revoke, memory, turn, history, IInv, Outside
  <1>2. ASSUME NEW d \in Draft, UpdateDraft(d) PROVE IInv'
    BY <1>2, Still DEF UpdateDraft, memory, turn, history, IInv, Outside
  <1>3. ASSUME NEW d \in Draft, NEW mode \in Modes, Freeze(d, mode) PROVE IInv'
    <2> DEFINE r == [kind |-> "freeze", id |-> None, draft |-> d, mode |-> mode]
    <2>1. r \in Requests /\ r.kind = "freeze" BY DEF Requests
    <2> QED BY <1>3, <2>1, Asked DEF Freeze
  <1>4. ASSUME NEW id \in DOMAIN versions, NEW d \in Draft, NEW managed \in BOOLEAN, Confirm(id, d, managed) PROVE IInv'
    <2> DEFINE r == [kind |-> "confirm", id |-> id, draft |-> d, managed |-> managed]
    <2>1. r \in Requests /\ r.kind = "confirm" /\ r.id = id
      <3>1. id \in Ids BY Typed, Bounds, QueueType DEF Ids
      <3> QED BY <3>1 DEF Requests
    <2>2. draft' \in Draft \cup {None} BY <1>4 DEF Confirm, IInv, Outside
    <2> QED BY <1>4, <2>1, <2>2, Asked DEF Confirm
  <1>5. ASSUME NEW id \in DOMAIN versions, NEW d \in Draft, Release(id, d) PROVE IInv'
    <2> DEFINE r == [kind |-> "release", id |-> id, draft |-> d]
    <2>1. r \in Requests /\ r.kind = "release" /\ r.id = id
      <3>1. id \in Ids BY Typed, Bounds, QueueType DEF Ids
      <3> QED BY <3>1 DEF Requests
    <2> QED BY <1>5, <2>1, Asked DEF Release
  <1>6. ASSUME NEW id \in DOMAIN versions, NEW d \in Draft, NEW prior \in 1 .. MaxAttempts, Retry(id, d, prior) PROVE IInv'
    <2> DEFINE r == [kind |-> "retry", id |-> id, draft |-> d, prior |-> prior]
    <2>1. r \in Requests /\ r.kind = "retry" /\ r.id = id
      <3>1. id \in Ids BY Typed, Bounds, QueueType DEF Ids
      <3> QED BY <3>1 DEF Requests
    <2> QED BY <1>6, <2>1, Asked DEF Retry
  <1>7. ASSUME NEW id \in DOMAIN versions, Cancel(id) \/ UpgradeConsensus(id) PROVE IInv'
    <2>1. PICK kind \in {"cancel", "upgrade"} : Asks([kind |-> kind, id |-> id]) /\ UNCHANGED draft
      BY <1>7 DEF Cancel, UpgradeConsensus
    <2> DEFINE r == [kind |-> kind, id |-> id]
    <2>2. r \in Requests /\ r.kind = kind /\ r.id = id
      <3>1. id \in Ids BY Typed, Bounds, QueueType DEF Ids
      <3> QED BY <3>1 DEF Requests
    <2>3. draft' \in Draft \cup {None} BY <2>1 DEF IInv, Outside
    <2> QED BY <2>1, <2>2, <2>3, Asked
  <1> QED BY <1>1, <1>2, <1>3, <1>4, <1>5, <1>6, <1>7 DEF Person

-----------------------------------------------------------------------------
(* The steps that leave every version as it was.                           *)

LEMMA Ending ==
  ASSUME IInv, Refused \/ Throws
  PROVE  IInv'
  BY EndsOnly DEF Refused, Throws, At, memory

LEMMA BeginStep ==
  ASSUME IInv, Begin
  PROVE  IInv'
  <1>1. /\ queue # <<>> /\ phase = "waiting" /\ May /\ Op.kind # "upgrade"
        /\ UNCHANGED <<scope, draft, versions, journal, handed, granted>>
    BY DEF Begin, At, memory
  <1>2. phase \notin Sending BY <1>1 DEF Sending
  <1>3. CASE Op.kind = "freeze"
    <2>1. Goes("sealing") BY <1>3 DEF Begin
    <2>2. "sealing" \in Phases \ Sent BY DEF Phases, Sent
    <2>3. Stands' BY <1>1, <1>3, <2>1 DEF Goes, Stands, Op, Confirming, Sending, Sent
    <2> QED BY <1>1, <1>2, <2>1, <2>2, <2>3, GoesOnly
  <1>4. CASE Op.kind = "confirm"
    <2>1. MayConfirm(versions[Op.id]) BY <1>1, <1>4 DEF May
    <2>2. versions[Op.id].anchor = "PENDING" BY <2>1 DEF MayConfirm, Pending
    <2>3. CASE Ends BY <1>1, <2>3, EndsOnly
    <2>4. ASSUME NEW next \in {"submitting", "collecting"}, Goes(next) PROVE IInv'
      <3>1. next \in Phases \ Sent BY DEF Phases, Sent
      <3>2. Stands' BY <1>1, <1>4, <2>2, <2>4 DEF Goes, Stands, Op, Confirming, Sending, Sent
      <3> QED BY <1>1, <1>2, <2>4, <3>1, <3>2, GoesOnly
    <2>5. Ends \/ \E next \in {"submitting", "collecting"} : Goes(next) BY <1>4 DEF Begin, Collects
    <2> QED BY <2>3, <2>4, <2>5
  <1>5. CASE Op.kind = "release"
    <2>1. Goes("consuming") BY <1>5 DEF Begin
    <2>2. "consuming" \in Phases \ Sent BY DEF Phases, Sent
    <2>3. versions[Op.id].mode # "Continuous" /\ Op.id \in DOMAIN versions
      BY <1>1, <1>5, QueueType DEF May, MayRelease
    <2>4. Stands' BY <1>1, <1>5, <2>1, <2>3 DEF Goes, Stands, Op, Confirming, Sending, Sent
    <2> QED BY <1>1, <1>2, <2>1, <2>2, <2>4, GoesOnly
  <1>6. CASE Op.kind = "retry"
    <2>1. Goes("retrying") BY <1>6 DEF Begin
    <2>2. "retrying" \in Phases \ Sent BY DEF Phases, Sent
    <2>3. versions[Op.id].mode # "Continuous" BY <1>1, <1>6 DEF May, MayRelease
    <2>4. Stands' BY <1>1, <1>6, <2>1, <2>3 DEF Goes, Stands, Op, Confirming, Sending, Sent
    <2> QED BY <1>1, <1>2, <2>1, <2>2, <2>4, GoesOnly
  <1>7. CASE Op.kind = "cancel"
    <2>1. Goes("cancelling") BY <1>7 DEF Begin
    <2>2. "cancelling" \in Phases \ Sent BY DEF Phases, Sent
    <2>3. Stands' BY <1>1, <1>7, <2>1 DEF Goes, Stands, Op, Confirming, Sending, Sent
    <2> QED BY <1>1, <1>2, <2>1, <2>2, <2>3, GoesOnly
  <1> QED BY <1>1, <1>3, <1>4, <1>5, <1>6, <1>7, OpType

LEMMA CollectedStep ==
  ASSUME IInv, Collected
  PROVE  IInv'
  <1>1. /\ queue # <<>> /\ phase = "collecting"
        /\ UNCHANGED <<scope, draft, versions, journal, handed, granted>>
    BY DEF Collected, At, memory
  <1>2. phase \notin Sending BY <1>1 DEF Sending
  <1>3. Op.kind = "confirm" /\ versions[Op.id].anchor = "PENDING" BY <1>1 DEF IInv, Stands, Confirming
  <1>4. CASE Ends BY <1>1, <1>4, EndsOnly
  <1>5. ASSUME NEW next \in {"validating", "confirming"}, Goes(next),
               versions[Op.id].mode = "Continuous" <=> next = "validating"
        PROVE  IInv'
    <2>1. next \in Phases \ Sent BY DEF Phases, Sent
    <2>2. Stands' BY <1>1, <1>3, <1>5 DEF Goes, Stands, Op, Confirming, Sending, Sent
    <2> QED BY <1>1, <1>2, <1>5, <2>1, <2>2, GoesOnly
  <1>6. Ends \/ \E next \in {"validating", "confirming"} :
                  Goes(next) /\ (versions[Op.id].mode = "Continuous" <=> next = "validating")
    BY DEF Collected
  <1> QED BY <1>4, <1>5, <1>6

\* The page answers, or does not.
LEMMA AnsweredStep ==
  ASSUME IInv, NEW outcome \in Outcomes, Answered(outcome)
  PROVE  IInv'
  <1>1. /\ queue # <<>> /\ phase = "answering" /\ phase' = "recording" /\ answer' = outcome
        /\ UNCHANGED <<scope, draft, versions, journal, handed, granted, queue, ended>>
    BY DEF Answered, At, memory
  <1>2. Turn' BY <1>1, TurnGoes DEF Phases, Sending
  <1>3. Memory' /\ Matching' BY <1>1, MemoryFrame DEF IsSending
  <1>4. Stands' BY <1>1 DEF IInv, Stands, Op, Confirming, Sending, Sent
  <1>5. Outside' BY <1>1 DEF IInv, Outside
  <1> QED BY <1>2, <1>3, <1>4, <1>5 DEF IInv

-----------------------------------------------------------------------------
(* The steps that change one version.                                      *)

\* What the invariant says of the version an operation is about.
LEMMA Known ==
  ASSUME IInv, NEW id \in DOMAIN versions
  PROVE  /\ versions[id] \in Version /\ journal[id] \in Record /\ handed[id] \in Nat /\ granted[id] \in Nat
         /\ id \in DOMAIN journal /\ id \in DOMAIN handed /\ id \in DOMAIN granted
         /\ Matches(versions[id], journal[id], handed[id], granted[id], IsSending(id))
         /\ versions = [versions EXCEPT ![id] = versions[id]]
         /\ journal = [journal EXCEPT ![id] = journal[id]]
         /\ handed = [handed EXCEPT ![id] = handed[id]]
         /\ granted = [granted EXCEPT ![id] = granted[id]]
  <1>1. id \in DOMAIN journal /\ id \in DOMAIN handed /\ id \in DOMAIN granted BY Typed
  <1>2. /\ versions = [versions EXCEPT ![id] = versions[id]]
        /\ journal = [journal EXCEPT ![id] = journal[id]]
        /\ handed = [handed EXCEPT ![id] = handed[id]]
        /\ granted = [granted EXCEPT ![id] = granted[id]]
    BY <1>1, PutSame DEF IInv, Memory
  <1>3. Matches(versions[id], journal[id], handed[id], granted[id], IsSending(id)) BY DEF IInv, Matching
  <1> QED BY <1>1, <1>2, <1>3, Typed

LEMMA AssuredType ==
  ASSUME NEW v \in Version, NEW anchor \in Anchors
  PROVE  LET w == Assured(v, anchor) IN
         /\ w \in Version /\ w.anchor = anchor /\ w.mode = v.mode /\ w.state = v.state
         /\ w.attempt = v.attempt /\ w.transaction = v.transaction
         /\ w.rev = v.rev /\ w.text = v.text /\ w.assurance = Append(v.assurance, anchor)
         /\ \A e : Contains(w.assurance, e) <=> Contains(v.assurance, e) \/ e = anchor
  <1> DEFINE s == Append(v.assurance, anchor)
             n == Len(v.assurance) + 1
  <1>1. v.assurance \in Seq(Anchors) BY DEF Version
  <1>2. /\ s \in Seq(Anchors) /\ Len(s) = n /\ s[n] = anchor /\ Len(v.assurance) \in Nat
        /\ \A i \in 1 .. Len(v.assurance) : s[i] = v.assurance[i]
    BY <1>1, AppendProperties, LenProperties
  <1>3. \A e : Contains(s, e) <=> Contains(v.assurance, e) \/ e = anchor BY <1>2 DEF Contains
  <1>4. Assured(v, anchor) = [v EXCEPT !.anchor = anchor, !.assurance = s] BY DEF Assured
  <1> HIDE DEF s
  <1> DEFINE w == Assured(v, anchor)
  <1>5. /\ w \in Version /\ w.anchor = anchor /\ w.mode = v.mode /\ w.state = v.state
        /\ w.attempt = v.attempt /\ w.transaction = v.transaction
        /\ w.rev = v.rev /\ w.text = v.text /\ w.assurance = s
    BY <1>2, <1>4 DEF Version
  <1>6. \A e : Contains(w.assurance, e) <=> Contains(v.assurance, e) \/ e = anchor BY <1>3, <1>5
  <1> HIDE DEF w
  <1> QED BY <1>5, <1>6 DEF w, s

LEMMA UpdatesEnd ==
  ASSUME IInv, queue # <<>>, Ends, UNCHANGED <<scope, draft>>,
         NEW id \in DOMAIN versions, NEW v \in Version, NEW j \in Record, NEW h \in Nat, NEW g \in Nat,
         versions' = [versions EXCEPT ![id] = v], journal' = [journal EXCEPT ![id] = j],
         handed' = [handed EXCEPT ![id] = h], granted' = [granted EXCEPT ![id] = g],
         Matches(v, j, h, g, FALSE)
  PROVE  IInv'
  <1>1. phase' = "waiting" BY DEF Ends
  <1>2. IsSending(id)' = FALSE /\ \A other \in DOMAIN versions : ~IsSending(other)' BY <1>1 DEF IsSending
  <1>3. /\ Memory' /\ Matching'
        /\ DOMAIN versions' = DOMAIN versions /\ Len(versions') = Len(versions)
    <2>1. Matches(v, j, h, g, IsSending(id)') BY <1>2
    <2> QED BY <1>2, <2>1, Updates
  <1>4. Turn' /\ Stands' BY <1>3, TurnEnds
  <1>5. Outside' BY DEF IInv, Outside
  <1> QED BY <1>3, <1>4, <1>5 DEF IInv

LEMMA UpdatesGo ==
  ASSUME IInv, queue # <<>>, UNCHANGED <<scope, draft, queue, ended>>,
         NEW id \in DOMAIN versions, id = Op.id,
         NEW v \in Version, NEW j \in Record, NEW h \in Nat, NEW g \in Nat,
         versions' = [versions EXCEPT ![id] = v], journal' = [journal EXCEPT ![id] = j],
         handed' = [handed EXCEPT ![id] = h], granted' = [granted EXCEPT ![id] = g],
         Matches(v, j, h, g, phase' = "dispatching"),
         phase' \in Phases, answer' \in Outcomes \cup {None}, answer' # None => phase' = "recording",
         phase \notin Sending \/ phase' \in Sending,
         versions'[id] = v /\ journal'[id] = j => Stands'
  PROVE  IInv'
  <1>1. Op' = Op BY DEF Op
  <1>2. IsSending(id)' = (phase' = "dispatching") BY <1>1 DEF IsSending
  <1>3. \A other \in DOMAIN versions : other # id => ~IsSending(other)' BY <1>1 DEF IsSending
  <1>4. /\ Memory' /\ Matching'
        /\ DOMAIN versions' = DOMAIN versions /\ Len(versions') = Len(versions)
        /\ versions'[id] = v /\ journal'[id] = j
    <2>1. Matches(v, j, h, g, IsSending(id)') BY <1>2
    <2> QED BY <1>3, <2>1, Updates
  <1>5. Turn' BY <1>4, TurnGoes
  <1>6. Outside' BY DEF IInv, Outside
  <1> QED BY <1>4, <1>5, <1>6 DEF IInv

\* The session's view alone changes.
LEMMA ViewEnds ==
  ASSUME IInv, queue # <<>>, Ends, UNCHANGED <<scope, draft, journal, handed, granted>>,
         NEW id \in DOMAIN versions, NEW v \in Version, versions' = [versions EXCEPT ![id] = v],
         Matches(v, journal[id], handed[id], granted[id], FALSE)
  PROVE  IInv'
  <1>1. PICK j \in Record, h \in Nat, g \in Nat : j = journal[id] /\ h = handed[id] /\ g = granted[id]
    BY Known
  <1>2. /\ journal' = [journal EXCEPT ![id] = j] /\ handed' = [handed EXCEPT ![id] = h]
        /\ granted' = [granted EXCEPT ![id] = g]
    BY <1>1, Known
  <1>3. Matches(v, j, h, g, FALSE) BY <1>1
  <1> QED BY <1>2, <1>3, UpdatesEnd

LEMMA ViewGoes ==
  ASSUME IInv, queue # <<>>, UNCHANGED <<scope, draft, queue, ended, journal, handed, granted>>,
         NEW id \in DOMAIN versions, id = Op.id, NEW v \in Version, versions' = [versions EXCEPT ![id] = v],
         Matches(v, journal[id], handed[id], granted[id], FALSE),
         phase' \in Phases \ Sent, answer' = None, phase \notin Sending,
         versions'[id] = v => Stands'
  PROVE  IInv'
  <1>1. PICK j \in Record, h \in Nat, g \in Nat : j = journal[id] /\ h = handed[id] /\ g = granted[id]
    BY Known
  <1>2. /\ journal' = [journal EXCEPT ![id] = j] /\ handed' = [handed EXCEPT ![id] = h]
        /\ granted' = [granted EXCEPT ![id] = g]
    BY <1>1, Known
  <1>3. (phase' = "dispatching") = FALSE BY DEF Sent
  <1>4. Matches(v, j, h, g, phase' = "dispatching") BY <1>1, <1>3
  <1>5. phase' \in Phases /\ answer' \in Outcomes \cup {None} /\ (answer' # None => phase' = "recording")
    OBVIOUS
  <1> QED BY <1>2, <1>4, <1>5, UpdatesGo

\* A version may get its transaction, and nothing else.
LEMMA SubmittedStep ==
  ASSUME IInv, NEW tx \in Transactions \cup {None}, Submitted(tx)
  PROVE  IInv'
  <1>1. /\ queue # <<>> /\ phase = "submitting"
        /\ UNCHANGED <<scope, draft, journal, handed, granted>>
    BY DEF Submitted, At
  <1>2. Op.kind = "confirm" /\ versions[Op.id].anchor = "PENDING" BY <1>1 DEF IInv, Stands, Confirming
  <1>3. PICK id \in DOMAIN versions : id = Op.id BY <1>1, <1>2, OpType
  <1> DEFINE t == Saves(versions[id], tx)
             v == [versions[id] EXCEPT !.transaction = t]
  <1>4. t \in Transactions \cup {None} BY Known DEF Saves, Version
  <1> HIDE DEF t
  <1>5. /\ v \in Version /\ v.mode = versions[id].mode /\ v.state = versions[id].state
        /\ v.anchor = versions[id].anchor /\ v.assurance = versions[id].assurance
        /\ v.attempt = versions[id].attempt
    BY <1>4, Known DEF Version
  <1>6. /\ versions' = [versions EXCEPT ![id] = v]
        /\ Ends \/ Goes("collecting")
    BY <1>3 DEF Submitted, Collects, t
  <1> HIDE DEF v
  <1>7. Matches(v, journal[id], handed[id], granted[id], FALSE)
    <2>1. IsSending(id) = FALSE BY <1>1 DEF IsSending
    <2>2. Matches(versions[id], journal[id], handed[id], granted[id], FALSE) BY <2>1, Known
    <2> QED BY <1>5, <2>2 DEF Matches
  <1>8. CASE Ends BY <1>1, <1>5, <1>6, <1>7, <1>8, ViewEnds
  <1>9. CASE Goes("collecting")
    <2>1. UNCHANGED <<queue, answer, ended>> /\ phase' = "collecting" BY <1>9 DEF Goes
    <2>2. answer = None BY <1>1 DEF IInv, Turn
    <2>3. versions'[id] = v => Stands'
      BY <1>2, <1>3, <1>5, <2>1 DEF Stands, Op, Confirming, Sending, Sent
    <2>4. phase' \in Phases \ Sent /\ phase \notin Sending /\ answer' = None
      BY <1>1, <2>1, <2>2 DEF Phases, Sending, Sent
    <2> QED BY <1>1, <1>3, <1>5, <1>6, <1>7, <2>1, <2>3, <2>4, ViewGoes
  <1> QED BY <1>6, <1>8, <1>9

LEMMA ValidatedStep ==
  ASSUME IInv, Validated
  PROVE  IInv'
  <1>1. /\ queue # <<>> /\ phase = "validating" /\ Ends
        /\ UNCHANGED <<scope, draft, journal, handed, granted>>
    BY DEF Validated, At
  <1>2. Op.kind = "confirm" /\ versions[Op.id].mode = "Continuous" BY <1>1 DEF IInv, Stands, Confirming
  <1>3. PICK id \in DOMAIN versions : id = Op.id BY <1>1, <1>2, OpType
  <1> DEFINE v == Assured(versions[id], "SOURCE_CORROBORATED")
  <1>4. versions' = [versions EXCEPT ![id] = v] BY <1>3 DEF Validated
  <1>5. /\ v \in Version /\ v.mode = versions[id].mode /\ v.state = versions[id].state
        /\ v.attempt = versions[id].attempt
    BY Known, AssuredType DEF Anchors
  <1> HIDE DEF v
  <1>6. Matches(v, journal[id], handed[id], granted[id], FALSE)
    <2>1. IsSending(id) = FALSE BY <1>1 DEF IsSending
    <2>2. Matches(versions[id], journal[id], handed[id], granted[id], FALSE) BY <2>1, Known
    <2> QED BY <1>2, <1>3, <1>5, <2>2 DEF Matches
  <1> QED BY <1>1, <1>4, <1>5, <1>6, ViewEnds

LEMMA UpgradedStep ==
  ASSUME IInv, Upgraded
  PROVE  IInv'
  <1>1. /\ queue # <<>> /\ phase = "waiting" /\ Ends /\ Op.kind = "upgrade"
        /\ UNCHANGED <<scope, draft, journal, handed, granted>>
    BY DEF Upgraded, At
  <1>2. PICK id \in DOMAIN versions : id = Op.id BY <1>1, OpType
  <1>3. versions[id].mode = "Continuous" \/ Contains(versions[id].assurance, "SOURCE_CORROBORATED")
    BY <1>1, <1>2 DEF Upgraded, May, MayUpgrade
  <1> DEFINE v == Assured(versions[id], "CONSENSUS_VERIFIED")
  <1>4. versions' = [versions EXCEPT ![id] = v] BY <1>2 DEF Upgraded
  <1>5. /\ v \in Version /\ v.mode = versions[id].mode /\ v.state = versions[id].state
        /\ v.attempt = versions[id].attempt /\ v.anchor = "CONSENSUS_VERIFIED"
        /\ Contains(v.assurance, "SOURCE_CORROBORATED") <=> Contains(versions[id].assurance, "SOURCE_CORROBORATED")
    BY Known, AssuredType DEF Anchors
  <1> HIDE DEF v
  <1>6. Matches(v, journal[id], handed[id], granted[id], FALSE)
    <2>1. IsSending(id) = FALSE BY <1>1 DEF IsSending
    <2>2. Matches(versions[id], journal[id], handed[id], granted[id], FALSE) BY <2>1, Known
    <2> QED BY <1>3, <1>5, <2>2 DEF Matches
  <1> QED BY <1>1, <1>4, <1>5, <1>6, ViewEnds

LEMMA CancelledStep ==
  ASSUME IInv, Cancelled
  PROVE  IInv'
  <1>1. /\ queue # <<>> /\ phase = "cancelling" /\ Ends /\ Cancels(journal[Op.id])
        /\ UNCHANGED <<scope, draft, handed, granted>>
    BY DEF Cancelled, At
  <1>2. Op.kind = "cancel" BY <1>1 DEF IInv, Stands
  <1>3. PICK id \in DOMAIN versions : id = Op.id BY <1>1, <1>2, OpType
  <1> DEFINE v == [versions[id] EXCEPT !.state = "CANCELLED"]
             j == [journal[id] EXCEPT !.cancelled = TRUE, !.authorized = FALSE]
  <1>4. journal[id].tries = 0 /\ ~journal[id].cancelled BY <1>1, <1>3 DEF Cancels
  <1>5. /\ v \in Version /\ v.mode = versions[id].mode /\ v.state = "CANCELLED"
        /\ v.anchor = versions[id].anchor /\ v.assurance = versions[id].assurance
        /\ v.attempt = versions[id].attempt
    BY Known DEF Version
  <1>6. /\ j \in Record /\ j.confirmed = journal[id].confirmed /\ j.authorized = FALSE /\ j.cancelled = TRUE
        /\ j.tries = journal[id].tries /\ j.last = journal[id].last
    BY Known DEF Record
  <1>7. versions' = [versions EXCEPT ![id] = v] /\ journal' = [journal EXCEPT ![id] = j]
    BY <1>3 DEF Cancelled
  <1> HIDE DEF v, j
  <1>8. Matches(v, j, handed[id], granted[id], FALSE)
    <2>1. IsSending(id) = FALSE BY <1>1 DEF IsSending
    <2>2. Matches(versions[id], journal[id], handed[id], granted[id], FALSE) BY <2>1, Known
    <2>3. handed[id] = 0 BY <1>4, <2>2 DEF Matches
    <2>4. handed[id] + One(FALSE) + One(j.authorized) + One(v.mode = "Continuous" /\ j.tries = 0) <= granted[id]
      <3>1. handed[id] + One(FALSE) + One(journal[id].authorized)
              + One(versions[id].mode = "Continuous" /\ journal[id].tries = 0) <= granted[id]
        BY <2>2 DEF Matches
      <3> QED BY <1>5, <1>6, <3>1, Known DEF One
    <2> QED BY <1>4, <1>5, <1>6, <2>2, <2>3, <2>4 DEF Matches
  <1> QED BY <1>1, <1>5, <1>6, <1>7, <1>8, Known, UpdatesEnd

LEMMA ConfirmedStep ==
  ASSUME IInv, Confirmed
  PROVE  IInv'
  <1>1. /\ queue # <<>> /\ phase = "confirming" /\ UNCHANGED <<scope, draft, handed>>
        /\ Ends \/ Goes("consuming")
    BY DEF Confirmed, At, ToRuntime
  <1>2. Op.kind = "confirm" /\ versions[Op.id].mode # "Continuous" BY <1>1 DEF IInv, Stands, Confirming
  <1>3. PICK id \in DOMAIN versions : id = Op.id BY <1>1, <1>2, OpType
  <1>4. PICK h \in Nat : h = handed[id] /\ handed' = [handed EXCEPT ![id] = h] BY <1>1, Known
  <1> DEFINE w == Assured(versions[id], "SOURCE_CORROBORATED")
             v == [w EXCEPT !.state = "SEALED_NOT_SENT"]
             j == [journal[id] EXCEPT !.confirmed = TRUE, !.authorized = TRUE]
             g == granted[id] + 1
  <1>5. ~journal[id].confirmed /\ ~journal[id].cancelled BY <1>3 DEF Confirmed
  <1>6. /\ v \in Version /\ v.mode = versions[id].mode /\ v.state = "SEALED_NOT_SENT"
        /\ v.anchor = "SOURCE_CORROBORATED" /\ Contains(v.assurance, "SOURCE_CORROBORATED")
        /\ v.attempt = versions[id].attempt
    <2>1. /\ w \in Version /\ w.mode = versions[id].mode /\ w.anchor = "SOURCE_CORROBORATED"
          /\ Contains(w.assurance, "SOURCE_CORROBORATED") /\ w.attempt = versions[id].attempt
      BY Known, AssuredType DEF Anchors
    <2> HIDE DEF w
    <2> QED BY <2>1 DEF Version
  <1>7. /\ j \in Record /\ j.confirmed = TRUE /\ j.authorized = TRUE /\ j.cancelled = journal[id].cancelled
        /\ j.tries = journal[id].tries /\ j.last = journal[id].last
    BY Known DEF Record
  <1>8. /\ versions' = [versions EXCEPT ![id] = v] /\ journal' = [journal EXCEPT ![id] = j]
        /\ granted' = [granted EXCEPT ![id] = g] /\ g \in Nat
    <2>1. versions' = [versions EXCEPT ![id] = v] BY <1>3 DEF Confirmed
    <2>2. journal' = [journal EXCEPT ![id] = j] BY <1>3 DEF Confirmed
    <2>3. granted' = [granted EXCEPT ![Op.id] = granted[Op.id] + 1] BY DEF Confirmed
    <2>4. granted' = [granted EXCEPT ![id] = g] /\ g \in Nat BY <1>3, <2>3, Known
    <2> QED BY <2>1, <2>2, <2>4
  <1> HIDE DEF v, w, j
  <1>9. Matches(v, j, h, g, FALSE)
    <2>1. IsSending(id) = FALSE BY <1>1 DEF IsSending
    <2>2. Matches(versions[id], journal[id], h, granted[id], FALSE) BY <1>4, <2>1, Known
    <2>3. h + One(FALSE) + One(j.authorized) + One(v.mode = "Continuous" /\ j.tries = 0) <= g
      <3>1. h + One(FALSE) + One(journal[id].authorized)
              + One(versions[id].mode = "Continuous" /\ journal[id].tries = 0) <= granted[id]
        BY <2>2 DEF Matches
      <3>2. versions[id].mode # "Continuous" /\ granted[id] \in Nat BY <1>2, <1>3, Known
      <3> QED BY <1>6, <1>7, <3>1, <3>2 DEF One
    <2>4. journal[id].cancelled = FALSE /\ j.cancelled = FALSE BY <1>5, <1>7, Known DEF Record
    <2> QED BY <1>2, <1>3, <1>6, <1>7, <2>2, <2>3, <2>4 DEF Matches
  <1> HIDE DEF g
  <1>10. CASE Ends BY <1>1, <1>6, <1>7, <1>8, <1>4, <1>9, <1>10, UpdatesEnd
  <1>11. CASE Goes("consuming")
    <2>1. UNCHANGED <<queue, answer, ended>> /\ phase' = "consuming" BY <1>11 DEF Goes
    <2>2. answer = None BY <1>1 DEF IInv, Turn
    <2>3. Matches(v, j, h, g, phase' = "dispatching")
      <3>1. (phase' = "dispatching") = FALSE BY <2>1
      <3> QED BY <1>9, <3>1
    <2>4. ASSUME versions'[id] = v, journal'[id] = j PROVE Stands'
      <3>1. id \in DOMAIN versions' /\ v.mode # "Continuous"
        BY <1>2, <1>3, <1>6, <1>8, PutType DEF IInv, Memory
      <3> QED BY <1>3, <2>1, <2>4, <3>1 DEF Stands, Op, Confirming, Sending, Sent
    <2>5. phase' \in Phases /\ phase \notin Sending /\ answer' \in Outcomes \cup {None}
          /\ (answer' # None => phase' = "recording")
      BY <1>1, <2>1, <2>2 DEF Phases, Sending
    <2> QED BY <1>1, <1>3, <1>4, <1>6, <1>7, <1>8, <2>1, <2>3, <2>4, <2>5, UpdatesGo
  <1> QED BY <1>1, <1>10, <1>11

LEMMA RetriedStep ==
  ASSUME IInv, Retried
  PROVE  IInv'
  <1>1. /\ queue # <<>> /\ phase = "retrying" /\ UNCHANGED <<scope, draft, versions, handed>>
        /\ Ends \/ Goes("consuming")
    BY DEF Retried, At, ToRuntime
  <1>2. Op.kind = "retry" /\ versions[Op.id].mode # "Continuous" BY <1>1 DEF IInv, Stands, Confirming
  <1>3. PICK id \in DOMAIN versions : id = Op.id BY <1>1, <1>2, OpType
  <1>4. PICK h \in Nat, v \in Version :
          /\ h = handed[id] /\ handed' = [handed EXCEPT ![id] = h]
          /\ v = versions[id] /\ versions' = [versions EXCEPT ![id] = v]
    BY <1>1, Known
  <1> DEFINE j == [journal[id] EXCEPT !.authorized = TRUE]
             g == granted[id] + 1
  <1>5. journal[id].tries > 0 /\ journal[id].authorized = FALSE
    BY <1>3, Known DEF Retried, Record
  <1>6. /\ j \in Record /\ j.confirmed = journal[id].confirmed /\ j.authorized = TRUE
        /\ j.cancelled = journal[id].cancelled /\ j.tries = journal[id].tries /\ j.last = journal[id].last
    BY Known DEF Record
  <1>7. journal' = [journal EXCEPT ![id] = j] /\ granted' = [granted EXCEPT ![id] = g] /\ g \in Nat
    BY <1>3, Known DEF Retried
  <1> HIDE DEF j
  <1>8. Matches(v, j, h, g, FALSE)
    <2>1. IsSending(id) = FALSE BY <1>1 DEF IsSending
    <2>2. Matches(v, journal[id], h, granted[id], FALSE) BY <1>4, <2>1, Known
    <2>3. h + One(FALSE) + One(j.authorized) + One(v.mode = "Continuous" /\ j.tries = 0) <= g
      <3>1. h + One(FALSE) + One(journal[id].authorized)
              + One(v.mode = "Continuous" /\ journal[id].tries = 0) <= granted[id]
        BY <2>2 DEF Matches
      <3> QED BY <1>5, <1>6, <3>1, Known DEF One
    <2> QED BY <1>6, <2>2, <2>3 DEF Matches
  <1> HIDE DEF g
  <1>9. CASE Ends BY <1>1, <1>4, <1>6, <1>7, <1>8, <1>9, UpdatesEnd
  <1>10. CASE Goes("consuming")
    <2>1. UNCHANGED <<queue, answer, ended>> /\ phase' = "consuming" BY <1>10 DEF Goes
    <2>2. answer = None BY <1>1 DEF IInv, Turn
    <2>3. Matches(v, j, h, g, phase' = "dispatching")
      <3>1. (phase' = "dispatching") = FALSE BY <2>1
      <3> QED BY <1>8, <3>1
    <2>4. Stands' BY <1>1, <1>2, <1>3, <2>1 DEF Stands, Op, Confirming, Sending, Sent
    <2>5. phase' \in Phases /\ phase \notin Sending /\ answer' \in Outcomes \cup {None}
          /\ (answer' # None => phase' = "recording")
      BY <1>1, <2>1, <2>2 DEF Phases, Sending
    <2> QED BY <1>1, <1>3, <1>4, <1>6, <1>7, <2>1, <2>3, <2>4, <2>5, UpdatesGo
  <1> QED BY <1>1, <1>9, <1>10

\* The runtime takes the approval and writes the attempt before the text leaves.
LEMMA ConsumedStep ==
  ASSUME IInv, Consumed
  PROVE  IInv'
  <1>1. /\ queue # <<>> /\ phase = "consuming" /\ UNCHANGED <<scope, draft, versions, handed, granted>>
        /\ UNCHANGED <<queue, answer, ended>> /\ phase' = "dispatching"
    BY DEF Consumed, At, Goes
  <1>2. PICK id \in DOMAIN versions : id = Op.id BY <1>1 DEF IInv, Stands, Sending
  <1>3. PICK h \in Nat, v \in Version, g \in Nat :
          /\ h = handed[id] /\ handed' = [handed EXCEPT ![id] = h]
          /\ v = versions[id] /\ versions' = [versions EXCEPT ![id] = v]
          /\ g = granted[id] /\ granted' = [granted EXCEPT ![id] = g]
    BY <1>1, Known
  <1> DEFINE n == journal[id].tries + 1
             j == [journal[id] EXCEPT !.authorized = FALSE, !.tries = n, !.last = "DISPATCHING"]
  <1>4. /\ v.mode = "Continuous" => journal[id].tries = 0
        /\ v.mode # "Continuous" => journal[id].confirmed = TRUE /\ journal[id].authorized = TRUE
        /\ journal[id].cancelled = FALSE
    BY <1>1, <1>2, <1>3, Known DEF Consumed, Releases, IInv, Stands, Record
  <1>5. /\ j \in Record /\ j.confirmed = journal[id].confirmed /\ j.authorized = FALSE
        /\ j.cancelled = journal[id].cancelled /\ j.tries = n /\ j.last = "DISPATCHING"
        /\ n \in Nat /\ n > 0
    <2>1. journal[id].tries < MaxAttempts /\ journal[id].tries \in Nat /\ MaxAttempts \in Nat
      BY <1>2, Known, Bounds DEF Consumed, Record
    <2>2. n \in 0 .. MaxAttempts /\ n \in Nat /\ n > 0 BY <2>1
    <2> HIDE DEF n
    <2> QED BY <2>2, Known DEF Record
  <1>6. journal' = [journal EXCEPT ![id] = j]
    <2>1. journal' = [journal EXCEPT ![Op.id] = [journal[Op.id] EXCEPT
            !.authorized = FALSE, !.tries = journal[Op.id].tries + 1, !.last = "DISPATCHING"]]
      BY DEF Consumed
    <2> QED BY <1>2, <2>1
  <1> HIDE DEF j, n
  <1>7. Matches(v, j, h, g, TRUE)
    <2>1. IsSending(id) = FALSE BY <1>1 DEF IsSending
    <2>2. Matches(v, journal[id], h, g, FALSE) BY <1>3, <2>1, Known
    <2>3. h + One(TRUE) + One(j.authorized) + One(v.mode = "Continuous" /\ j.tries = 0) <= g
      <3> DEFINE a == One(journal[id].authorized)
                 b == One(v.mode = "Continuous" /\ journal[id].tries = 0)
      <3>1. h + One(FALSE) + a + b <= g BY <2>2 DEF Matches
      <3>2. a + b >= 1 /\ a \in Nat /\ b \in Nat BY <1>4 DEF One
      <3>3. One(FALSE) = 0 BY DEF One
      <3>4. h + 1 <= g
        <4> HIDE DEF a, b
        <4>1. h + 0 + a + b <= g BY <3>1, <3>3
        <4> QED BY <1>3, <3>2, <4>1
      <3>5. One(TRUE) = 1 BY DEF One
      <3>6. One(j.authorized) = 0 BY <1>5 DEF One
      <3>7. One(v.mode = "Continuous" /\ j.tries = 0) = 0 BY <1>5 DEF One
      <3>8. h + 1 + 0 + 0 <= g BY <1>3, <3>4
      <3> QED BY <3>5, <3>6, <3>7, <3>8
    <2>4. j.tries # 0 /\ j.tries > 0 BY <1>5
    <2> QED BY <1>4, <1>5, <2>2, <2>3, <2>4 DEF Matches
  <1>8. Matches(v, j, h, g, phase' = "dispatching")
    <2>1. (phase' = "dispatching") = TRUE BY <1>1
    <2> QED BY <1>7, <2>1
  <1>9. phase' \in Phases /\ phase' \in Sending /\ answer' \in Outcomes \cup {None} /\ answer' = None
    BY <1>1 DEF IInv, Turn, Phases, Sending
  <1>10. journal'[id] = j => Stands'
    BY <1>1, <1>2, <1>5 DEF Stands, Op, Confirming, Sending, Sent
  <1>11. queue # <<>> /\ UNCHANGED <<scope, draft, queue, ended>> BY <1>1
  <1>12. j \in Record BY <1>5
  <1>13. phase' \in Phases /\ answer' \in Outcomes \cup {None} /\ (answer' # None => phase' = "recording")
         /\ (phase \notin Sending \/ phase' \in Sending)
    BY <1>9
  <1>14. /\ versions' = [versions EXCEPT ![id] = v] /\ handed' = [handed EXCEPT ![id] = h]
         /\ granted' = [granted EXCEPT ![id] = g]
    BY <1>3
  <1> QED BY <1>2, <1>6, <1>8, <1>10, <1>11, <1>12, <1>13, <1>14, UpdatesGo

\* The text is handed to the page, or an edit or a revocation keeps it back.
LEMMA DispatchStep ==
  ASSUME IInv, Dispatch
  PROVE  IInv'
  <1>1. queue # <<>> /\ phase = "dispatching" /\ UNCHANGED <<scope, draft, versions, journal, granted, queue, ended>>
    BY DEF Dispatch, At, memory, Goes
  <1>2. PICK id \in DOMAIN versions : id = Op.id BY <1>1 DEF IInv, Stands, Sending
  <1>3. journal[id].tries > 0 /\ journal[id].last = "DISPATCHING" BY <1>1, <1>2 DEF IInv, Stands, Sent
  <1>4. answer = None BY <1>1 DEF IInv, Turn
  <1>5. CASE phase' = "recording" /\ answer' = "FAILED_BEFORE_EGRESS" /\ UNCHANGED handed
    <2>1. Turn' BY <1>1, <1>5, TurnGoes DEF Phases, Sending, Outcomes
    <2>2. Memory' /\ Matching' BY <1>1, <1>5, MemoryFrame DEF IsSending
    <2>3. Stands' BY <1>1, <1>2, <1>3, <1>5 DEF Stands, Op, Confirming, Sending, Sent, Outcomes
    <2>4. Outside' BY <1>1 DEF IInv, Outside
    <2> QED BY <2>1, <2>2, <2>3, <2>4 DEF IInv
  <1>6. CASE phase' = "answering" /\ answer' = answer /\ handed' = [handed EXCEPT ![Op.id] = @ + 1]
    <2>1. PICK v \in Version, j \in Record, g \in Nat :
            /\ v = versions[id] /\ versions' = [versions EXCEPT ![id] = v]
            /\ j = journal[id] /\ journal' = [journal EXCEPT ![id] = j]
            /\ g = granted[id] /\ granted' = [granted EXCEPT ![id] = g]
      BY <1>1, Known
    <2> DEFINE h == handed[id] + 1
    <2>2. handed[id] \in Nat /\ h \in Nat /\ handed' = [handed EXCEPT ![id] = h] BY <1>2, <1>6, Known
    <2>3. Matches(v, j, h, g, FALSE)
      <3>1. IsSending(id) = TRUE BY <1>1, <1>2 DEF IsSending
      <3>2. Matches(v, j, handed[id], g, TRUE) BY <2>1, <3>1, Known
      <3> DEFINE a == One(j.authorized)
                 b == One(v.mode = "Continuous" /\ j.tries = 0)
      <3>3. handed[id] + One(TRUE) + a + b <= g BY <3>2 DEF Matches
      <3>4. a \in Nat /\ b \in Nat BY DEF One
      <3>5. One(TRUE) = 1 BY DEF One
      <3>6. One(FALSE) = 0 BY DEF One
      <3>7. h + One(FALSE) + a + b <= g
        <4> HIDE DEF a, b
        <4>1. handed[id] + 1 + a + b <= g BY <3>3, <3>5
        <4>2. h + 0 + a + b <= g BY <2>2, <3>4, <4>1
        <4> QED BY <3>6, <4>2
      <3>8. j.tries # 0
        <4>1. j.tries \in Nat BY DEF Record
        <4> QED BY <1>3, <2>1, <4>1
      <3> QED BY <3>2, <3>7, <3>8 DEF Matches
    <2> HIDE DEF h
    <2>4. Matches(v, j, h, g, phase' = "dispatching")
      <3>1. (phase' = "dispatching") = FALSE BY <1>6
      <3> QED BY <2>3, <3>1
    <2>5. journal'[id] = j => Stands'
      BY <1>1, <1>2, <1>3, <1>6, <2>1 DEF Stands, Op, Confirming, Sending, Sent
    <2>6. phase' \in Phases /\ answer' \in Outcomes \cup {None} /\ (answer' # None => phase' = "recording")
          /\ (phase \notin Sending \/ phase' \in Sending)
      BY <1>4, <1>6 DEF Phases, Sending
    <2>7. queue # <<>> /\ UNCHANGED <<scope, draft, queue, ended>> BY <1>1
    <2>8. versions' = [versions EXCEPT ![id] = v] /\ journal' = [journal EXCEPT ![id] = j]
          /\ granted' = [granted EXCEPT ![id] = g]
      BY <2>1
    <2> QED BY <1>2, <2>2, <2>4, <2>5, <2>6, <2>7, <2>8, UpdatesGo
  <1> QED BY <1>5, <1>6 DEF Dispatch, Goes

\* The outcome becomes the runtime's and the session's.
LEMMA RecordedStep ==
  ASSUME IInv, Recorded
  PROVE  IInv'
  <1>1. queue # <<>> /\ phase = "recording" /\ Ends /\ UNCHANGED <<scope, draft, handed, granted>>
    BY DEF Recorded, At
  <1>2. PICK id \in DOMAIN versions : id = Op.id BY <1>1 DEF IInv, Stands, Sending
  <1>3. journal[id].tries > 0 /\ answer \in Outcomes BY <1>1, <1>2 DEF IInv, Stands, Sent
  <1>4. PICK h \in Nat, g \in Nat :
          /\ h = handed[id] /\ handed' = [handed EXCEPT ![id] = h]
          /\ g = granted[id] /\ granted' = [granted EXCEPT ![id] = g]
    BY <1>1, Known
  <1> DEFINE try == [no |-> journal[id].tries, state |-> answer]
             v == [versions[id] EXCEPT !.attempt = try, !.state = answer]
             j == [journal[id] EXCEPT !.last = answer]
  <1>5. /\ v \in Version /\ v.mode = versions[id].mode /\ v.state = answer
        /\ v.anchor = versions[id].anchor /\ v.assurance = versions[id].assurance /\ v.attempt = try
    <2>1. try \in Try
      <3>1. journal[id].tries \in 1 .. MaxAttempts BY <1>3, Known, Bounds DEF Record
      <3> QED BY <1>3, <3>1 DEF Try
    <2> HIDE DEF try
    <2> QED BY <1>3, <2>1, Known DEF Version
  <1>6. /\ j \in Record /\ j.confirmed = journal[id].confirmed /\ j.authorized = journal[id].authorized
        /\ j.cancelled = journal[id].cancelled /\ j.tries = journal[id].tries /\ j.last = answer
    BY <1>3, Known DEF Record
  <1>7. versions' = [versions EXCEPT ![id] = v] /\ journal' = [journal EXCEPT ![id] = j]
    <2>1. versions' = [versions EXCEPT ![id] = v] BY <1>2 DEF Recorded
    <2>2. journal' = [journal EXCEPT ![id] = j] BY <1>2 DEF Recorded
    <2> QED BY <2>1, <2>2
  <1>8. try = [no |-> j.tries, state |-> j.last] BY <1>6
  <1> HIDE DEF v, j, try
  <1>9. Matches(v, j, h, g, FALSE)
    <2>1. IsSending(id) = FALSE BY <1>1 DEF IsSending
    <2>2. Matches(versions[id], journal[id], h, g, FALSE) BY <1>4, <2>1, Known
    <2>3. j.tries # 0 BY <1>3, <1>6, Known DEF Record
    <2>4. answer # "CANCELLED" BY <1>3 DEF Outcomes
    <2> QED BY <1>5, <1>6, <1>8, <2>2, <2>3, <2>4 DEF Matches
  <1> QED BY <1>1, <1>4, <1>5, <1>6, <1>7, <1>9, UpdatesEnd

\* A new version is known, and a continuous one goes on to its release.
LEMMA SealedStep ==
  ASSUME IInv, Sealed
  PROVE  IInv'
  <1> DEFINE v == NewVersion(Op.draft, Op.mode)
             n == Len(versions) + 1
             g == IF v.mode = "Continuous" THEN 1 ELSE 0
  <1>1. /\ queue # <<>> /\ phase = "sealing" /\ UNCHANGED <<scope, draft>>
        /\ versions' = Append(versions, v) /\ journal' = Append(journal, NewRecord)
        /\ handed' = Append(handed, 0) /\ granted' = Append(granted, g)
    BY DEF Sealed, At
  <1>2. Op.kind = "freeze" /\ Op.draft \in Draft /\ Op.mode \in Modes
    BY <1>1, OpType DEF IInv, Stands
  <1>3. 1 \in Unsealed BY <1>1, <1>2, QueueType DEF Unsealed, Sending
  <1>4. Len(versions) \in Nat /\ n \in Nat /\ Cardinality(Unsealed) \in Nat /\ MaxVersions \in Nat
    BY Typed, QueueType, Bounds
  <1>5. v \in Version /\ v.mode = Op.mode /\ v.state = "PENDING" /\ v.anchor = "PENDING" /\ v.attempt = None
        /\ v.assurance = <<>>
    <2>1. <<>> \in Seq(Anchors) OBVIOUS
    <2>2. "PENDING" \in Anchors BY DEF Anchors
    <2> QED BY <1>2, <2>1, <2>2, SessionAssumption DEF NewVersion, Version, Draft
  <1>6. NewRecord \in Record
    <2>1. 0 \in 0 .. MaxAttempts BY Bounds
    <2> QED BY <2>1 DEF NewRecord, Record
  <1>7. Matches(v, NewRecord, 0, g, FALSE)
    <2>1. ~Contains(v.assurance, "SOURCE_CORROBORATED")
      <3>1. Len(v.assurance) = 0 BY <1>5, EmptySeq
      <3> QED BY <3>1 DEF Contains
    <2>2. /\ NewRecord.confirmed = FALSE /\ NewRecord.authorized = FALSE /\ NewRecord.cancelled = FALSE
          /\ NewRecord.tries = 0
      BY DEF NewRecord
    <2>3. 0 + One(FALSE) + One(NewRecord.authorized) + One(v.mode = "Continuous" /\ NewRecord.tries = 0) <= g
      BY <2>2 DEF One
    <2>4. v.attempt = IF NewRecord.tries = 0 THEN None
                      ELSE [no |-> NewRecord.tries, state |-> NewRecord.last]
      BY <1>5, <2>2
    <2>5. ~NewRecord.cancelled /\ v.state # "CANCELLED" BY <1>5, <2>2
    <2>6. ~NewRecord.confirmed /\ v.anchor = "PENDING" /\ ~(NewRecord.tries > 0) BY <1>5, <2>2
    <2> HIDE DEF v, g
    <2> QED BY <2>1, <2>3, <2>4, <2>5, <2>6 DEF Matches
  <1> HIDE DEF v
  <1>8. g \in Nat OBVIOUS
  <1> HIDE DEF g
  <1>9. /\ versions' \in Seq(Version) /\ Len(versions') = n /\ versions'[n] = v
        /\ \A i \in 1 .. Len(versions) : versions'[i] = versions[i]
    BY <1>1, <1>5, AppendProperties DEF IInv, Memory
  <1>10. /\ journal' \in Seq(Record) /\ Len(journal') = n /\ journal'[n] = NewRecord
         /\ \A i \in 1 .. Len(versions) : journal'[i] = journal[i]
    BY <1>1, <1>6, AppendProperties DEF IInv, Memory
  <1>11. /\ handed' \in Seq(Nat) /\ Len(handed') = n /\ handed'[n] = 0
         /\ \A i \in 1 .. Len(versions) : handed'[i] = handed[i]
    BY <1>1, AppendProperties DEF IInv, Memory
  <1>12. /\ granted' \in Seq(Nat) /\ Len(granted') = n /\ granted'[n] = g
         /\ \A i \in 1 .. Len(versions) : granted'[i] = granted[i]
    BY <1>1, <1>8, AppendProperties DEF IInv, Memory
  <1>13. DOMAIN versions' = 1 .. n /\ DOMAIN versions = 1 .. Len(versions) /\ n \in DOMAIN versions'
         /\ DOMAIN versions \subseteq DOMAIN versions'
    BY <1>4, <1>9, Typed, LenProperties
  <1>14. Memory' BY <1>9, <1>10, <1>11, <1>12 DEF Memory
  <1>15. \/ Ends
         \/ /\ v.mode = "Continuous" /\ queue' = [queue EXCEPT ![1].id = n]
            /\ phase' = "consuming" /\ UNCHANGED <<answer, ended>>
    BY DEF Sealed, v
  <1>16. phase' \in {"waiting", "consuming"} BY <1>15 DEF Ends
  <1>17. Matching'
    <2>1. SUFFICES ASSUME NEW id \in 1 .. n
                   PROVE  Matches(versions'[id], journal'[id], handed'[id], granted'[id], FALSE)
      <3>1. \A id : IsSending(id)' = FALSE BY <1>16 DEF IsSending
      <3> QED BY <1>13, <2>1, <3>1 DEF Matching
    <2>2. CASE id = n BY <1>7, <1>9, <1>10, <1>11, <1>12, <2>2
    <2>3. CASE id # n
      <3>1. id \in 1 .. Len(versions) BY <1>4, <2>3
      <3>2. IsSending(id) = FALSE BY <1>1 DEF IsSending
      <3>3. id \in DOMAIN versions BY <1>13, <3>1
      <3>4. Matches(versions[id], journal[id], handed[id], granted[id], IsSending(id)) BY <3>3, Known
      <3>5. Matches(versions[id], journal[id], handed[id], granted[id], FALSE) BY <3>2, <3>4
      <3> QED BY <1>9, <1>10, <1>11, <1>12, <3>1, <3>5
    <2> QED BY <2>2, <2>3
  <1>18. Outside' BY <1>1 DEF IInv, Outside
  <1>19. CASE Ends
    <2>1. Cardinality(Unsealed') + 1 <= Cardinality(Unsealed) /\ Cardinality(Unsealed') \in Nat
      BY <1>1, <1>3, <1>19, TailUnsealed DEF Ends
    <2>2. Len(versions') + Cardinality(Unsealed') <= MaxVersions BY <1>4, <1>9, <2>1, Bounds
    <2>3. Turn' /\ Stands' BY <1>1, <1>13, <1>19, <2>2, TurnPops
    <2> QED BY <1>14, <1>17, <1>18, <2>3 DEF IInv
  <1>20. CASE /\ v.mode = "Continuous" /\ queue' = [queue EXCEPT ![1].id = n]
              /\ phase' = "consuming" /\ UNCHANGED <<answer, ended>>
    <2> DEFINE r == [Op EXCEPT !.id = n]
    <2>1. 1 \in DOMAIN queue /\ Op = queue[1] /\ Op \in Requests BY <1>1, QueueType
    <2>2. n \in Ids
      <3>1. Cardinality(Unsealed) # 0 BY <1>3, QueueType, FS_EmptySet
      <3>2. n <= MaxVersions BY <1>4, <3>1, Bounds
      <3> QED BY <1>4, <3>2 DEF Ids
    <2>3. r \in Requests /\ r.kind = "freeze" /\ r.id = n
      BY <1>2, <2>1, <2>2 DEF Requests
    <2>4. queue' = [queue EXCEPT ![1] = r] BY <1>20, <2>1
    <2> HIDE DEF r
    <2>5. /\ queue' \in Seq(Requests) /\ Len(queue') = Len(queue) /\ DOMAIN queue' = DOMAIN queue
          /\ queue'[1] = r /\ \A i \in DOMAIN queue : i # 1 => queue'[i] = queue[i]
      BY <2>1, <2>3, <2>4, PutType DEF IInv, Turn
    <2>6. \A i \in DOMAIN queue : queue'[i].kind = queue[i].kind BY <1>2, <2>1, <2>3, <2>5
    <2>7. Cardinality(Unsealed') + 1 <= Cardinality(Unsealed) /\ Cardinality(Unsealed') \in Nat
      BY <1>1, <1>3, <1>20, <2>5, <2>6, PhaseUnsealed DEF Sending
    <2>8. Len(versions') + Cardinality(Unsealed') <= MaxVersions BY <1>4, <1>9, <2>7, Bounds
    <2>9. queue' # <<>> /\ Op' = r
      <3>1. Len(queue') # 0 BY <1>1, <2>5, EmptySeq DEF IInv, Turn
      <3> QED BY <2>5, <3>1, EmptySeq DEF Op
    <2>10. \A i \in DOMAIN queue' : queue'[i].kind # "freeze" => queue'[i].id \in DOMAIN versions'
      BY <1>13, <2>3, <2>5, Bounds
    <2>11. answer = None BY <1>1 DEF IInv, Turn
    <2>12. Turn'
      BY <1>20, <2>5, <2>8, <2>9, <2>10, <2>11, Bounds DEF Turn, Phases
    <2>13. Stands'
      <3>1. ~NewRecord.cancelled BY DEF NewRecord
      <3> QED BY <1>10, <1>13, <1>20, <2>3, <2>9, <3>1 DEF Stands, Confirming, Sending, Sent
    <2> QED BY <1>14, <1>17, <1>18, <2>12, <2>13 DEF IInv
  <1> QED BY <1>15, <1>19, <1>20

-----------------------------------------------------------------------------
(* The theorems.                                                           *)

LEMMA InitIInv == Init => IInv
  <1> SUFFICES ASSUME Init PROVE IInv OBVIOUS
  <1>1. /\ <<>> \in Seq(Version) /\ <<>> \in Seq(Record) /\ <<>> \in Seq(Nat) /\ <<>> \in Seq(Requests)
        /\ DOMAIN <<>> = {}
    OBVIOUS
  <1>2. Unsealed = {} BY <1>1 DEF Init, Unsealed
  <1>3. Len(<<>>) = 0 BY EmptySeq
  <1>4. Memory BY <1>1, <1>3 DEF Init, Memory
  <1>5. Cardinality(Unsealed) = 0 BY <1>2, FS_EmptySet
  <1>6. MaxQueue \in Nat /\ MaxRequests \in Nat /\ MaxVersions \in Nat BY SessionAssumption
  <1>7. Turn BY <1>1, <1>3, <1>5, <1>6 DEF Init, Turn, Phases
  <1>8. Outside /\ Matching BY <1>1 DEF Init, Outside, Matching
  <1> QED BY <1>4, <1>7, <1>8 DEF IInv, Init

LEMMA NextIInv == IInv /\ [Next]_vars => IInv'
  <1> SUFFICES ASSUME IInv, [Next]_vars PROVE IInv' OBVIOUS
  <1>1. CASE Person BY <1>1, PersonStep
  <1>2. CASE Progress
    BY <1>2, BeginStep, Ending, SealedStep, SubmittedStep, CollectedStep, ValidatedStep, ConfirmedStep,
       RetriedStep, CancelledStep, UpgradedStep, ConsumedStep, DispatchStep, AnsweredStep, RecordedStep
    DEF Progress
  <1>3. CASE UNCHANGED vars BY <1>3, Still DEF vars, IInv, Outside
  <1> QED BY <1>1, <1>2, <1>3 DEF Next

LEMMA SpecIInv == Spec => []IInv
  BY InitIInv, NextIInv, PTL DEF Spec

\* Each hand-over of a version has an approval of its own, a protected version shows its evidence
\* before it, and what was acknowledged as cancelled is never sent, however the operations, the
\* edits and the failures of their awaits are ordered.
THEOREM ApprovedOnly == Spec => []SentAsApproved
  <1>1. ASSUME IInv PROVE SentAsApproved
    <2>1. SUFFICES ASSUME NEW id \in DOMAIN versions
                   PROVE  /\ journal[id].cancelled => handed[id] = 0 /\ versions[id].state = "CANCELLED"
                          /\ handed[id] <= granted[id]
                          /\ versions[id].mode # "Continuous" /\ handed[id] > 0
                               => Contains(versions[id].assurance, "SOURCE_CORROBORATED")
      BY DEF SentAsApproved, CancelledIsUnsent
    <2>2. /\ Matches(versions[id], journal[id], handed[id], granted[id], IsSending(id))
          /\ handed[id] \in Nat /\ granted[id] \in Nat /\ journal[id].tries \in Nat
      BY <1>1, Known, Bounds DEF Record
    <2>3. journal[id].cancelled => handed[id] = 0 /\ versions[id].state = "CANCELLED" BY <2>2 DEF Matches
    <2>4. handed[id] <= granted[id]
      <3> DEFINE a == One(IsSending(id))
                 b == One(journal[id].authorized)
                 c == One(versions[id].mode = "Continuous" /\ journal[id].tries = 0)
      <3>1. a \in Nat /\ b \in Nat /\ c \in Nat BY DEF One
      <3>2. handed[id] + a + b + c <= granted[id] BY <2>2 DEF Matches
      <3> HIDE DEF a, b, c
      <3> QED BY <2>2, <3>1, <3>2
    <2>5. versions[id].mode # "Continuous" /\ handed[id] > 0
            => Contains(versions[id].assurance, "SOURCE_CORROBORATED")
      BY <2>2 DEF Matches
    <2> QED BY <2>3, <2>4, <2>5
  <1> QED BY <1>1, SpecIInv, PTL

\* What the session shows of a version is what the runtime knows: its last attempt and that one's
\* outcome, unless the outcome could not be written, its confirmation and its cancellation.
THEOREM ShownAsKnown == Spec => []ViewIsJournal
  <1>1. ASSUME IInv PROVE ViewIsJournal
    <2>1. TypeOK
      <3>1. Len(versions) <= MaxVersions BY <1>1, Typed, QueueType, Bounds
      <3>2. ended \in 0 .. MaxRequests BY <1>1, QueueType, Bounds
      <3> QED BY <1>1, <3>1, <3>2 DEF IInv, Memory, Turn, Outside, TypeOK
    <2>2. ASSUME NEW id \in DOMAIN versions
          PROVE  /\ \/ journal[id].last = "DISPATCHING"
                    \/ versions[id].attempt = IF journal[id].tries = 0 THEN None
                                              ELSE [no |-> journal[id].tries, state |-> journal[id].last]
                 /\ versions[id].mode # "Continuous" => (journal[id].confirmed <=> versions[id].anchor # "PENDING")
                 /\ journal[id].cancelled <=> versions[id].state = "CANCELLED"
      <3>1. Matches(versions[id], journal[id], handed[id], granted[id], IsSending(id)) BY <1>1, Known
      <3> QED BY <3>1 DEF Matches
    <2> QED BY <2>1, <2>2 DEF ViewIsJournal
  <1> QED BY <1>1, SpecIInv, PTL

-----------------------------------------------------------------------------
(* What a step may never do.                                               *)

Unheld == \A id \in DOMAIN versions : handed'[id] > handed[id] => IsDraft(versions[id])

\* What a version was told of its evidence stays.
Grows(before, after) ==
  /\ after.assurance # before.assurance => Degree[after.anchor] > Degree[before.anchor]
  /\ Degree[after.anchor] >= Degree[before.anchor]
  /\ before.transaction # None => after.transaction = before.transaction
Growing == \A id \in DOMAIN versions : Grows(versions[id], versions'[id])

LEMMA Degrees ==
  /\ \A a \in Anchors : Degree[a] \in 0 .. 2
  /\ Degree["PENDING"] = 0 /\ Degree["SOURCE_CORROBORATED"] = 1 /\ Degree["CONSENSUS_VERIFIED"] = 2
  /\ \A a \in Anchors : a # "CONSENSUS_VERIFIED" => Degree[a] < 2
  BY DEF Degree, Anchors

LEMMA KeptGrows ==
  ASSUME NEW v \in Version, NEW w, w.anchor = v.anchor, w.assurance = v.assurance, w.transaction = v.transaction
  PROVE  Grows(v, w)
  <1>1. v.anchor \in Anchors BY DEF Version
  <1>2. Degree[v.anchor] \in 0 .. 2 BY <1>1, Degrees
  <1> QED BY <1>2 DEF Grows

LEMMA OneGrows ==
  ASSUME IInv, NEW id \in DOMAIN versions, NEW w \in Version, versions' = [versions EXCEPT ![id] = w],
         Grows(versions[id], w)
  PROVE  Growing
  <1>1. versions'[id] = w /\ \A k \in DOMAIN versions : k # id => versions'[k] = versions[k]
    BY PutType DEF IInv, Memory
  <1>2. ASSUME NEW k \in DOMAIN versions PROVE Grows(versions[k], versions'[k])
    <2>1. CASE k = id BY <1>1, <2>1
    <2>2. CASE k # id BY <1>1, <2>2, Typed, KeptGrows
    <2> QED BY <2>1, <2>2
  <1> QED BY <1>2 DEF Growing

\* A text goes to the page only in Dispatch, which looks at the draft.
LEMMA HandsOver ==
  ASSUME IInv, [Next]_vars
  PROVE  Unheld
  <1>1. ASSUME UNCHANGED handed PROVE Unheld
    <2>1. \A id \in DOMAIN versions : handed[id] \in Nat BY Typed
    <2> QED BY <1>1, <2>1 DEF Unheld
  <1>2. CASE Person
    BY <1>1, <1>2 DEF Person, Enroll, Revoke, UpdateDraft, Freeze, Confirm, Release, Retry, Cancel,
                      UpgradeConsensus, Asks, history
  <1>3. CASE Dispatch
    <2>1. CASE UNCHANGED handed BY <1>1, <2>1
    <2>2. CASE /\ handed' = [handed EXCEPT ![Op.id] = @ + 1] /\ IsDraft(versions[Op.id])
      <3>1. SUFFICES ASSUME NEW id \in DOMAIN versions, handed'[id] > handed[id] PROVE IsDraft(versions[id])
        BY DEF Unheld
      <3>2. id \in DOMAIN handed /\ handed[id] \in Nat BY Typed
      <3>3. id = Op.id BY <2>2, <3>1, <3>2
      <3> QED BY <2>2, <3>3
    <2> QED BY <1>3, <2>1, <2>2 DEF Dispatch
  <1>4. CASE Sealed
    <2>1. \A i \in 1 .. Len(handed) : handed'[i] = handed[i]
      BY <1>4, AppendProperties DEF Sealed, IInv, Memory
    <2>2. \A id \in DOMAIN versions : id \in 1 .. Len(handed) /\ handed[id] \in Nat
      BY Typed DEF IInv, Memory
    <2> QED BY <2>1, <2>2 DEF Unheld
  <1>5. CASE Progress /\ ~Dispatch /\ ~Sealed
    BY <1>1, <1>5 DEF Progress, Begin, Refused, Throws, Submitted, Collected, Validated, Confirmed, Retried,
                      Cancelled, Upgraded, Consumed, Answered, Recorded
  <1>6. CASE UNCHANGED vars BY <1>1, <1>6 DEF vars
  <1> QED BY <1>2, <1>3, <1>4, <1>5, <1>6 DEF Next

\* Evidence is taken for a version that has none, and an upgrade for one that has not been upgraded.
LEMMA Grown ==
  ASSUME IInv, [Next]_vars
  PROVE  Growing
  <1>1. ASSUME UNCHANGED versions PROVE Growing BY <1>1, Typed, KeptGrows DEF Growing
  <1>2. CASE Person
    BY <1>1, <1>2 DEF Person, Enroll, Revoke, UpdateDraft, Freeze, Confirm, Release, Retry, Cancel,
                      UpgradeConsensus, Asks, memory
  <1>3. CASE Sealed
    <2>1. \A i \in 1 .. Len(versions) : versions'[i] = versions[i]
      <3>1. PICK v \in Version : versions' = Append(versions, v)
        <4>1. Op.kind = "freeze" /\ Op.draft \in Draft /\ Op.mode \in Modes
          BY <1>3, OpType DEF Sealed, At, IInv, Stands
        <4>2. NewVersion(Op.draft, Op.mode) \in Version
          <5>1. <<>> \in Seq(Anchors) /\ "PENDING" \in Anchors BY DEF Anchors
          <5> QED BY <4>1, <5>1, SessionAssumption DEF NewVersion, Version, Draft
        <4> QED BY <1>3, <4>2 DEF Sealed
      <3> QED BY <3>1, AppendProperties DEF IInv, Memory
    <2> QED BY <2>1, Typed, KeptGrows DEF Growing
  <1>4. ASSUME NEW tx \in Transactions \cup {None}, Submitted(tx) PROVE Growing
    <2>1. Op.kind = "confirm" BY <1>4 DEF Submitted, At, IInv, Stands, Confirming
    <2>2. PICK id \in DOMAIN versions : id = Op.id BY <1>4, <2>1, OpType DEF Submitted, At
    <2> DEFINE t == Saves(versions[id], tx)
               w == [versions[id] EXCEPT !.transaction = t]
    <2>3. t \in Transactions \cup {None} /\ (versions[id].transaction # None => t = versions[id].transaction)
      BY Known DEF Saves, Version
    <2>4. versions' = [versions EXCEPT ![id] = w] BY <1>4, <2>2 DEF Submitted
    <2> HIDE DEF t
    <2>5. w \in Version /\ w.anchor = versions[id].anchor /\ w.assurance = versions[id].assurance /\ w.transaction = t
      BY <2>3, Known DEF Version
    <2> HIDE DEF w
    <2>6. Grows(versions[id], w)
      <3>1. versions[id].anchor \in Anchors BY Known DEF Version
      <3>2. Degree[versions[id].anchor] \in 0 .. 2 BY <3>1, Degrees
      <3> QED BY <2>3, <2>5, <3>2 DEF Grows
    <2> QED BY <2>4, <2>5, <2>6, OneGrows
  <1>5. CASE Validated
    <2>1. Op.kind = "confirm" /\ versions[Op.id].anchor = "PENDING"
      BY <1>5 DEF Validated, At, IInv, Stands, Confirming
    <2>2. PICK id \in DOMAIN versions : id = Op.id BY <1>5, <2>1, OpType DEF Validated, At
    <2> DEFINE w == Assured(versions[id], "SOURCE_CORROBORATED")
    <2>3. versions' = [versions EXCEPT ![id] = w] BY <1>5, <2>2 DEF Validated
    <2>4. w \in Version /\ w.anchor = "SOURCE_CORROBORATED" /\ w.transaction = versions[id].transaction
      BY Known, AssuredType DEF Anchors
    <2> HIDE DEF w
    <2>5. Grows(versions[id], w) BY <2>1, <2>2, <2>4, Degrees DEF Grows
    <2> QED BY <2>3, <2>4, <2>5, OneGrows
  <1>6. CASE Confirmed
    <2>1. Op.kind = "confirm" /\ versions[Op.id].anchor = "PENDING"
      BY <1>6 DEF Confirmed, At, IInv, Stands, Confirming
    <2>2. PICK id \in DOMAIN versions : id = Op.id BY <1>6, <2>1, OpType DEF Confirmed, At
    <2> DEFINE u == Assured(versions[id], "SOURCE_CORROBORATED")
               w == [u EXCEPT !.state = "SEALED_NOT_SENT"]
    <2>3. versions' = [versions EXCEPT ![id] = w] BY <1>6, <2>2 DEF Confirmed
    <2>4. u \in Version /\ u.anchor = "SOURCE_CORROBORATED" /\ u.transaction = versions[id].transaction
      BY Known, AssuredType DEF Anchors
    <2> HIDE DEF u
    <2>5. w \in Version /\ w.anchor = "SOURCE_CORROBORATED" /\ w.transaction = versions[id].transaction
      BY <2>4 DEF Version
    <2> HIDE DEF w
    <2>6. Grows(versions[id], w) BY <2>1, <2>2, <2>5, Degrees DEF Grows
    <2> QED BY <2>3, <2>5, <2>6, OneGrows
  <1>7. CASE Upgraded
    <2>1. Op.kind = "upgrade" /\ MayUpgrade(versions[Op.id]) BY <1>7 DEF Upgraded, May
    <2>2. PICK id \in DOMAIN versions : id = Op.id BY <1>7, <2>1, OpType DEF Upgraded, At
    <2> DEFINE w == Assured(versions[id], "CONSENSUS_VERIFIED")
    <2>3. versions' = [versions EXCEPT ![id] = w] BY <1>7, <2>2 DEF Upgraded
    <2>4. w \in Version /\ w.anchor = "CONSENSUS_VERIFIED" /\ w.transaction = versions[id].transaction
      BY Known, AssuredType DEF Anchors
    <2> HIDE DEF w
    <2>5. versions[id].anchor \in Anchors /\ versions[id].anchor # "CONSENSUS_VERIFIED"
      BY <2>1, <2>2, Known DEF MayUpgrade, Version
    <2>6. Degree[versions[id].anchor] \in 0 .. 2 /\ Degree[versions[id].anchor] < 2 BY <2>5, Degrees
    <2>7. Grows(versions[id], w) BY <2>4, <2>6, Degrees DEF Grows
    <2> QED BY <2>3, <2>4, <2>7, OneGrows
  <1>8. CASE Cancelled
    <2>1. Op.kind = "cancel" BY <1>8 DEF Cancelled, At, IInv, Stands
    <2>2. PICK id \in DOMAIN versions : id = Op.id BY <1>8, <2>1, OpType DEF Cancelled, At
    <2> DEFINE w == [versions[id] EXCEPT !.state = "CANCELLED"]
    <2>3. versions' = [versions EXCEPT ![id] = w] BY <1>8, <2>2 DEF Cancelled
    <2>4. /\ w \in Version /\ w.anchor = versions[id].anchor /\ w.assurance = versions[id].assurance
          /\ w.transaction = versions[id].transaction
      BY Known DEF Version
    <2> HIDE DEF w
    <2> QED BY <2>3, <2>4, Known, KeptGrows, OneGrows
  <1>9. CASE Recorded
    <2>1. phase = "recording" /\ answer \in Outcomes BY <1>9 DEF Recorded, At, IInv, Stands
    <2>2. PICK id \in DOMAIN versions : id = Op.id /\ journal[id].tries > 0
      BY <1>9, <2>1 DEF Recorded, At, IInv, Stands, Sending, Sent
    <2> DEFINE try == [no |-> journal[id].tries, state |-> answer]
               w == [versions[id] EXCEPT !.attempt = try, !.state = answer]
    <2>3. versions' = [versions EXCEPT ![id] = w] BY <1>9, <2>2 DEF Recorded
    <2>4. try \in Try
      <3>1. journal[id].tries \in 1 .. MaxAttempts BY <2>2, Known, Bounds DEF Record
      <3> QED BY <2>1, <3>1 DEF Try
    <2> HIDE DEF try
    <2>5. /\ w \in Version /\ w.anchor = versions[id].anchor /\ w.assurance = versions[id].assurance
          /\ w.transaction = versions[id].transaction
      BY <2>1, <2>4, Known DEF Version
    <2> HIDE DEF w
    <2> QED BY <2>3, <2>5, Known, KeptGrows, OneGrows
  <1>10. CASE Begin \/ Refused \/ Throws \/ Collected \/ Retried \/ Consumed \/ Dispatch
              \/ \E outcome \in Outcomes : Answered(outcome)
    BY <1>1, <1>10 DEF Begin, Refused, Throws, Collected, Retried, Consumed, Dispatch, Answered, memory
  <1>11. CASE UNCHANGED vars BY <1>1, <1>11 DEF vars
  <1> QED BY <1>2, <1>3, <1>4, <1>5, <1>6, <1>7, <1>8, <1>9, <1>10, <1>11 DEF Next, Progress

\* No step sends a text out of date, or takes back what a version was told of its evidence, or of
\* its sponsored transaction.
THEOREM VersionsKept == Spec => VersionsHold
  <1>1. IInv /\ [Next]_vars => [Unheld]_vars /\ [Growing]_vars BY HandsOver, Grown
  <1>2. Spec => [][Unheld]_vars /\ [][Growing]_vars BY <1>1, SpecIInv, PTL DEF Spec
  <1> QED BY <1>2 DEF VersionsHold, OnlyTheLatestIsSent, AssuranceGrows, Unheld, Growing, Grows
=============================================================================
