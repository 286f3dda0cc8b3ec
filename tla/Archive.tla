-------------------------------- MODULE Archive --------------------------------
(***************************************************************************)
(* The network a batch is anchored in, and the offline check that it was:  *)
(* verifyAnchor (anchor/verifier.mjs) and the native Verify it calls       *)
(* (anchor/algorand/proof/verify.go).                                      *)
(*                                                                         *)
(* State Proofs each attest an interval of Interval rounds and name the    *)
(* voters that sign the next.  Hashes, signatures and encodings are        *)
(* symbolic: a header is the network's own or a forger's; a proof verifies *)
(* only under the voters that signed it, voters 0 being the forger's.      *)
(***************************************************************************)
EXTENDS Merkle

CONSTANTS
  Rounds,      \* the network's rounds are 1 .. Rounds
  Interval,    \* rounds one State Proof attests (256)
  Digests,     \* the record digests a batch is made of, in order
  MaxLinks,    \* longest chain that is looked at (32)
  None

VARIABLES
  batch,  \* the records that were anchored together
  placed  \* the round their transaction was confirmed in, 0 while there is none

ASSUME ArchiveAssumption ==
  /\ {Rounds, Interval, MaxLinks} \subseteq Nat \ {0} /\ Rounds % Interval = 0 /\ Interval < Rounds
  /\ Digests \in Seq({Digests[i] : i \in DOMAIN Digests})
  /\ Len(Digests) > 0 /\ Len(Digests) <= MaxBatchSize

Payload == merkleRoot(batch)

\* A block header: the network's, or one that a forger made to hold what he likes.
Header(round, by) == [round |-> round, by |-> by]
Block(round) == Header(round, "network")
Headers == {Header(round, by) : round \in 1 .. Rounds, by \in {"network", "forger"}}
Commits(header, payload) ==
  header.by = "forger" \/ (header.round = placed /\ payload = Payload)

\* A State Proof message: its interval, who signed it, and the voters it names for the next.
Link(k, signers, next) ==
  [first |-> (k - 1) * Interval + 1, last |-> k * Interval, signers |-> signers, next |-> next]
Attested(k) == Link(k, k, k + 1)
Attests(link, header, index) == link.signers = 0 \/ header = Block(link.first + index)
Links == LET ks == 1 .. Rounds \div Interval IN
         {Attested(k) : k \in ks} \cup {Link(k, 0, next) : k \in ks, next \in {0, 2}}

\* A checkpoint taken after interval k: complete unless k is 0.
Checkpoint(k) == [last |-> k * Interval, voters |-> k + 1]

\* The archive of a batch that the network holds, for one who trusts Checkpoint(from).
ArchiveFrom(from) ==
  LET target == (placed - 1) \div Interval + 1 IN
  [kind |-> "archive", round |-> placed, note |-> Payload, full |-> Block(placed), light |-> Block(placed),
   index |-> (placed - 1) % Interval, chain |-> [i \in 1 .. target - from |-> Attested(from + i)]]

ASSUME LinkAssumption == None \notin Links

-----------------------------------------------------------------------------
(* Verify.                                                                 *)

Report(anchor, timestamp) == [anchor |-> anchor, timestamp |-> timestamp]
Invalid == Report("INVALID", "INDETERMINATE")
Unsupported == Report("UNSUPPORTED", "INDETERMINATE")
Indeterminate == Report("INDETERMINATE", "INDETERMINATE")

\* What a chain has proved so far: the last round attested, who signs next, the target's interval.
Proved(last, voters, target) == [ok |-> TRUE, last |-> last, voters |-> voters, target |-> target]
Broken == [ok |-> FALSE, last |-> 0, voters |-> 0, target |-> None]

\* One link: adjacent, signed by the voters named before, and the last if it holds the round.
Extends(proved, archive, i) ==
  LET link == archive.chain[i]
      within == archive.round \in link.first .. link.last
  IN IF \/ ~proved.ok \/ link.first # proved.last + 1 \/ link.last # proved.last + Interval
        \/ link.signers # proved.voters \/ (within /\ i # Len(archive.chain))
     THEN Broken
     ELSE Proved(link.last, link.next, IF within THEN link ELSE proved.target)

ChainFrom(archive, checkpoint) ==
  LET proved[i \in 0 .. Len(archive.chain)] ==
        IF i = 0 THEN Proved(checkpoint.last, checkpoint.voters, None) ELSE Extends(proved[i - 1], archive, i)
  IN proved[Len(archive.chain)]

\* The transaction is what was expected and the light header commits to it.
TransactionHolds(archive, payload) ==
  /\ archive.full.round = archive.round /\ archive.light.round = archive.round
  /\ archive.note = payload /\ Commits(archive.light, archive.note)

\* The header of the target interval, at the round's own place in it.
HeaderHolds(archive, target) ==
  archive.index = archive.round - target.first /\ Attests(target, archive.light, archive.index)

Verify(archive, checkpoint, payload) ==
  IF archive.kind # "archive" THEN Invalid
  ELSE IF archive.chain = <<>> THEN Indeterminate
  ELSE IF ~TransactionHolds(archive, payload) THEN Invalid
  ELSE IF checkpoint.last = 0 THEN Indeterminate
  ELSE IF Len(archive.chain) > MaxLinks THEN Unsupported
  ELSE LET proved == ChainFrom(archive, checkpoint) IN
       IF ~proved.ok THEN Invalid
       ELSE IF proved.target = None THEN Indeterminate
       ELSE IF ~HeaderHolds(archive, proved.target) THEN Invalid
       ELSE Report("CONSENSUS_VERIFIED", IF archive.full = archive.light THEN "BLOCK_HASH_BOUND" ELSE "INVALID")

-----------------------------------------------------------------------------
(* verifyAnchor.                                                           *)

\* A signed log instead of a network: its key, and the least sequence number trusted.
VerifyLogEntry(entry, checkpoint, payload) ==
  IF entry.kind # "entry" \/ entry.payload # payload THEN Invalid
  ELSE IF checkpoint = None THEN Indeterminate
  ELSE IF entry.sequence < checkpoint.minimum \/ entry.signer # checkpoint.key THEN Invalid
  ELSE Report("FIXTURE_VERIFIED", "SOURCE_REPORTED")

\* An envelope names a record, its place in a batch, an adapter and a proof. The trust it is held
\* against was chosen separately.
VerifyAnchor(envelope, trust, expected) ==
  IF envelope.record # expected \/ ~verifyInclusion(envelope.record, envelope.batch) THEN Invalid
  ELSE IF trust = None THEN Indeterminate
  ELSE IF trust.adapter # envelope.adapter THEN Invalid
  ELSE IF envelope.proof = None THEN Indeterminate
  ELSE IF envelope.adapter = "log" THEN VerifyLogEntry(envelope.proof, trust.checkpoint, envelope.batch.root)
  ELSE IF envelope.adapter # "algorand" THEN Unsupported
  ELSE IF trust.checkpoint = None THEN Indeterminate
  ELSE Verify(envelope.proof, trust.checkpoint, envelope.batch.root)
=============================================================================
