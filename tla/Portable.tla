-------------------------------- MODULE Portable --------------------------------
(***************************************************************************)
(* The recipient's check of a portable bundle (recipient/portable.mjs):    *)
(* records with their own signatures, anchor references that share proof   *)
(* objects, and a trust configuration that did not come with them.         *)
(*                                                                         *)
(* A proof's digest is the proof itself: objects that do not match theirs  *)
(* are refused before anything else.  What verifyDisclosure said of each   *)
(* record's integrity and signature comes with the bundle.                 *)
(***************************************************************************)
EXTENDS Archive

CONSTANTS
  MaxReferences,    \* bound on anchor references (128)
  MaxVerifications  \* distinct verifications before the bundle is refused (8)

VARIABLES
  bundle,  \* what was received, None before
  trust,   \* what it is held against
  checked, \* the verdict on each reference so far
  cache,   \* verifyPortable's cache: one verification per root, adapter and proof
  refused, \* the whole bundle was refused
  report   \* each record's verdict, None before

portableVars == <<bundle, trust, checked, cache, refused, report>>

ASSUME PortableAssumption == {MaxReferences, MaxVerifications} \subseteq Nat \ {0}

PortableInit ==
  /\ bundle = None /\ trust = None /\ checked = <<>> /\ cache = {} /\ refused = FALSE /\ report = None

Trusts ==
  {None, [adapter |-> "log", checkpoint |-> [key |-> "log key", minimum |-> 2]]} \cup
  {[adapter |-> "algorand", checkpoint |-> checkpoint] : checkpoint \in {None, Checkpoint(0), Checkpoint(1)}}

\* A batch of the forger's own, with a record of this one in it.
OtherBatch == <<batch[1]>>

\* Archives a bundle may carry: parts of true ones and of forged ones in any combination.
SomeHeaders(round) == {Header(r, by) : r \in {1, round}, by \in {"network", "forger"}}
SomeArchives(round) ==
  [kind : {"archive"}, round : {round}, note : {Payload, merkleRoot(OtherBatch)}, full : SomeHeaders(round),
   light : SomeHeaders(round), index : 0 .. Interval - 1, chain : UNION {[1 .. n -> Links] : n \in 0 .. MaxLinks}]

\* Entries of the log it trusts, or of another, or too old.
LogEntries ==
  [kind : {"entry"}, payload : {Payload, merkleRoot(OtherBatch)}, sequence : {1, 2}, signer : {"log key", "another"}]

\* An envelope: a record, a place in a batch that may not be its own, and a proof.
Envelope(record, of, position, adapter, proof) ==
  [record |-> record, batch |-> inclusion(of, position), adapter |-> adapter, proof |-> proof]
SomeEnvelopes(proofs) ==
  {Envelope(batch[i], batch, p, "algorand", proof) : i \in DOMAIN batch, p \in 0 .. Len(batch) - 1, proof \in proofs} \cup
  {Envelope(batch[1], OtherBatch, 0, "algorand", proof) : proof \in proofs}

\* shareAnchors: the references as they are, and each proof once.
ShareAnchors(envelopes) == [references |-> envelopes, objects |-> {envelopes[i].proof : i \in DOMAIN envelopes}]

-----------------------------------------------------------------------------
\* A bundle arrives. Its maker may have left objects out or put others in, and some records did
\* not verify.
Receive(envelopes, left, extra, sound, trusted) ==
  /\ bundle' = [references |-> envelopes, sound |-> sound,
                objects |-> (ShareAnchors(envelopes).objects \ left) \cup extra]
  /\ trust' = trusted /\ UNCHANGED <<checked, cache, refused, report>>

\* One reference. The checkpoint is tried with every archive, other trust with what is true.
ReceiveOne(adapter, proof, trusted) ==
  Receive(<<Envelope(batch[1], batch, 0, adapter, proof)>>, {}, {}, {batch[1]}, trusted)
Selected == [adapter |-> "algorand", checkpoint |-> Checkpoint(1)]

\* An archive with another block's full header.
WithHeader(archive, full) == [archive EXCEPT !.full = full]

\* Several references to the same few proofs: true, forged and of another place.
ReceiveMany(sound) ==
  LET true   == ArchiveFrom(1)
      proofs == {true, WithHeader(true, Header(placed, "forger")), [true EXCEPT !.note = merkleRoot(OtherBatch)]}
  IN
  /\ placed > Interval
  /\ \E n \in 2 .. MaxReferences : \E envelopes \in [1 .. n -> SomeEnvelopes(proofs)], left \in {{}, {true}}, extra \in {{}, {true}} :
       Receive(envelopes, left, extra, sound, Selected)

\* A plausible bug in CacheId, used only to test the properties.
CacheIdByProof(reference) == [root |-> None, adapter |-> reference.adapter, proof |-> reference.proof]
CacheId(reference) == [root |-> reference.batch.root, adapter |-> reference.adapter, proof |-> reference.proof]

\* verifyPortable's loop: the next reference.
CheckReference ==
  LET i == Len(checked) + 1
      reference == bundle.references[i]
      id == CacheId(reference)
      fresh == VerifyAnchor(reference, trust, reference.record)
  IN
  /\ bundle # None /\ ~refused /\ report = None /\ i <= Len(bundle.references)
  /\ IF \E j \in 1 .. i - 1 : bundle.references[j] = reference
     THEN refused' = TRUE /\ UNCHANGED <<checked, cache>>
     ELSE IF reference.record \notin bundle.sound
     THEN checked' = Append(checked, Indeterminate) /\ UNCHANGED <<cache, refused>>
     ELSE IF ~verifyInclusion(reference.record, reference.batch)
     THEN checked' = Append(checked, Invalid) /\ UNCHANGED <<cache, refused>>
     ELSE IF reference.proof \notin bundle.objects
     THEN checked' = Append(checked, Indeterminate) /\ UNCHANGED <<cache, refused>>
     ELSE IF \E known \in cache : known.id = id
     THEN /\ checked' = Append(checked, (CHOOSE known \in cache : known.id = id).verdict)
          /\ UNCHANGED <<cache, refused>>
     ELSE IF Cardinality(cache) >= MaxVerifications
     THEN refused' = TRUE /\ UNCHANGED <<checked, cache>>
     ELSE /\ cache' = cache \cup {[id |-> id, verdict |-> fresh]}
          /\ checked' = Append(checked, fresh) /\ UNCHANGED refused
  /\ UNCHANGED <<bundle, trust, report>>

\* A plausible bug in Joined, used only to test the properties.
JoinedBest(verdicts) ==
  IF verdicts = {} THEN Indeterminate
  ELSE CHOOSE v \in verdicts : v.anchor = "CONSENSUS_VERIFIED" \/ \A other \in verdicts : other.anchor # "CONSENSUS_VERIFIED"
\* A record's verdict: what all its references agree on, the anchor and the time each for itself.
Joined(verdicts) ==
  LET Agreed(values) == IF Cardinality(values) = 1 THEN CHOOSE value \in values : TRUE ELSE "INDETERMINATE" IN
  Report(Agreed({v.anchor : v \in verdicts}), Agreed({v.timestamp : v \in verdicts}))

\* Every object must have been referenced; then each record's references are joined.
Conclude ==
  /\ bundle # None /\ ~refused /\ report = None /\ Len(checked) = Len(bundle.references)
  /\ IF \E object \in bundle.objects : \A i \in DOMAIN checked : bundle.references[i].proof # object
     THEN refused' = TRUE /\ UNCHANGED report
     ELSE /\ report' = [record \in {batch[i] : i \in DOMAIN batch} |->
                          Joined({checked[i] : i \in {j \in DOMAIN checked : bundle.references[j].record = record}})]
          /\ UNCHANGED refused
  /\ UNCHANGED <<bundle, trust, checked, cache>>

Received ==
  /\ bundle = None
  /\ \/ \E round \in {placed, Interval + 1} \ {0} : \E proof \in SomeArchives(round) : ReceiveOne("algorand", proof, Selected)
     \/ \E adapter \in {"algorand", "log", "another"}, trusted \in Trusts :
          \E proof \in LogEntries \cup {None} \cup (IF placed > Interval THEN {ArchiveFrom(1)} ELSE {}) :
            ReceiveOne(adapter, proof, trusted)
     \/ \E sound \in {{batch[1]}, {batch[i] : i \in DOMAIN batch}} : ReceiveMany(sound)

PortableNext == Received \/ CheckReference \/ Conclude

-----------------------------------------------------------------------------
(* Properties.                                                             *)

\* A reference that may be believed: its record verified, its proof was sent, its place in a batch
\* is its own, and the recipient trusts such proofs.
Believable(reference, adapter) ==
  /\ reference.record \in bundle.sound /\ reference.proof \in bundle.objects
  /\ \E of \in {batch, OtherBatch} : \E p \in 0 .. Len(of) - 1 : reference.batch = inclusion(of, p) /\ of[p + 1] = reference.record
  /\ trust # None /\ trust.adapter = adapter /\ reference.adapter = adapter /\ trust.checkpoint # None

\* The network holds the reference's batch where its archive says, and the archive is exactly what
\* leads there from the checkpoint, and short enough to be looked at; its full header may still be
\* another.
HeldByTheNetwork(reference) ==
  /\ reference.proof # None /\ reference.proof.kind = "archive" /\ reference.batch.root = Payload
  /\ trust.checkpoint.last > 0 /\ placed > trust.checkpoint.last
  /\ reference.proof = WithHeader(ArchiveFrom(trust.checkpoint.last \div Interval), reference.proof.full)
  /\ reference.proof.full.round = placed /\ Len(reference.proof.chain) <= MaxLinks

HeldByTheLog(reference) ==
  /\ reference.proof # None /\ reference.proof.kind = "entry" /\ reference.proof.payload = reference.batch.root
  /\ reference.proof.signer = trust.checkpoint.key /\ reference.proof.sequence >= trust.checkpoint.minimum

\* No combination of true and forged parts earns a verdict, and everything true does: a reference
\* is verified exactly when the network or the log holds its batch, whatever was verified and
\* cached for another record before, and a block's time is believed only with that block's own
\* header; a record is then reported as verified when every reference to it was, and there is one
\* (Verify, verifyAnchor, the cache and the join of verifyPortable).
VerdictsAreEarned ==
  /\ \A i \in DOMAIN checked :
       LET reference == bundle.references[i] IN
       /\ checked[i].anchor = "CONSENSUS_VERIFIED" <=> Believable(reference, "algorand") /\ HeldByTheNetwork(reference)
       /\ checked[i].anchor = "FIXTURE_VERIFIED" <=> Believable(reference, "log") /\ HeldByTheLog(reference)
       /\ checked[i].timestamp = "BLOCK_HASH_BOUND" <=>
            checked[i].anchor = "CONSENSUS_VERIFIED" /\ reference.proof.full = Block(placed)
  /\ report # None => \A record \in DOMAIN report :
       LET mine == {i \in DOMAIN checked : bundle.references[i].record = record} IN
       \A verdict \in {"CONSENSUS_VERIFIED", "FIXTURE_VERIFIED"} :
         report[record].anchor = verdict <=> mine # {} /\ \A i \in mine : checked[i].anchor = verdict
=============================================================================
