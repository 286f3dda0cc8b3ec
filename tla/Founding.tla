------------------------------- MODULE Founding -------------------------------
(***************************************************************************)
(* How a vault comes into the custody of the key store: created for a new  *)
(* installation, restored from a recovery package into a new directory, or *)
(* adopted with the key its caller kept until now.  From then on it is     *)
(* Vault's.                                                                *)
(*                                                                         *)
(* A founding call stores two items, the master key and the signing key,   *)
(* writes a database over several committed steps and, when anything       *)
(* fails, deletes the items again; each deletion may fail and the process  *)
(* may die at any point.  While a call is under way nobody else works on   *)
(* the directory.                                                          *)
(***************************************************************************)
EXTENDS Vault

VARIABLES
  stage,   \* how far the directory's database has come
  vault,   \* the vault in the directory, by the key it was created with
  signers, \* vaults whose signing key is in the key store
  call,    \* the founding call under way, None otherwise
  kept,    \* history: the vault a caller was given, by a founding call or by opening it
  orphans  \* history: vaults whose items a call left behind: it died or could not delete them

foundingVars == <<stage, vault, signers, call, kept, orphans>>

Stages == {"absent", "made", "headed", "sealed", "indexed"}
Steps == {"master", "signer", "make", "head", "seal first", "index", "check", "reopen",
          "import", "seal", "commit", "doubt", "drop signer", "drop master"}
Recovered == UNION {[1 .. n -> Contents] : n \in 0 .. 1}
Calls == [kind : {"create", "restore", "adopt"}, by : Procs, key : VaultKeys, records : Seq(Contents),
          step : Steps, nonce : 0 .. MaxWraps]

ASSUME FoundingAssumption == None \notin Calls

\* Nothing yet, or a vault whose key its caller holds.
FoundingInit ==
  /\ Unopened /\ store = {}
  /\ \/ stage = "absent" /\ vault = None
     \/ stage = "indexed" /\ vault = FirstKey
  /\ signers = {} /\ call = None /\ kept = None /\ orphans = {}

-----------------------------------------------------------------------------
(* Beginning and ending a call.                                            *)

Call(kind, p, k, records) ==
  [kind |-> kind, by |-> p, key |-> k, records |-> records, step |-> "master", nonce |-> 0]

Begins(kind, p, k, records) ==
  /\ call = None /\ \A q \in Procs : proc[q] = Closed
  /\ call' = Call(kind, p, k, records)
  /\ UNCHANGED <<db, store, proc, wraps, acked, stage, vault, signers, kept, orphans>>

\* A vault of a new identifier, key and signing key; the package was authenticated before.
Create(p, k) == k \notin generated /\ generated' = generated \cup {k} /\ Begins("create", p, k, <<>>)
Restore(p, k, records) ==
  k \notin generated /\ generated' = generated \cup {k} /\ Begins("restore", p, k, records)

\* Its caller's key opens it and everything in it verifies; it is not yet in custody.
AdoptLegacy(p) ==
  /\ stage = "indexed" /\ kept = None /\ db.active = FirstKey /\ vault = FirstKey
  /\ Begins("adopt", p, FirstKey, db.index.records) /\ UNCHANGED generated

At(step) == call # None /\ call.step = step
Goes(step) == call' = [call EXCEPT !.step = step]

\* The caller is given the vault, unlocked.
Returns ==
  /\ call' = None /\ kept' = vault
  /\ proc' = [proc EXCEPT ![call.by] = Ready(db.active)]
  /\ acked' = acked \cup {<<i, call.records[i]>> : i \in DOMAIN call.records}

-----------------------------------------------------------------------------
(* Its steps.                                                              *)

StoreMasterKey ==
  /\ At("master") /\ store' = store \cup {call.key} /\ Goes("signer")
  /\ UNCHANGED <<db, proc, generated, wraps, acked, stage, vault, signers, kept, orphans>>

StoreSigningKey ==
  /\ At("signer") /\ signers' = signers \cup {call.key}
  /\ Goes(IF call.kind = "adopt" THEN "reopen" ELSE "make")
  /\ UNCHANGED <<db, store, proc, generated, wraps, acked, stage, vault, kept, orphans>>

\* The directory must be new; then the empty tables.
MakeDirectory ==
  /\ At("make") /\ stage = "absent"
  /\ stage' = "made" /\ vault' = call.key /\ Goes("head")
  /\ UNCHANGED <<db, store, proc, generated, wraps, acked, signers, kept, orphans>>

\* The header, then the nonce counter.
WriteHeader ==
  /\ At("head")
  /\ stage' = "headed" /\ db' = NewDatabase(call.key, 0) /\ Goes("seal first")
  /\ UNCHANGED <<store, proc, generated, wraps, acked, vault, signers, kept, orphans>>

SealFirstIndex ==
  /\ At("seal first") /\ Reserve(call.key)
  /\ stage' = "sealed" /\ Goes("index")
  /\ UNCHANGED <<store, proc, generated, acked, vault, signers, kept, orphans>>

WriteFirstIndex ==
  /\ At("index")
  /\ stage' = "indexed" /\ Goes("check")
  /\ UNCHANGED <<db, store, proc, generated, wraps, acked, vault, signers, kept, orphans>>

\* It is read back, and a created vault is done; an adopted one is opened with the stored items.
Opened ==
  /\ \/ At("check")
     \/ At("reopen") /\ db.active \in store /\ vault \in signers
  /\ IF call.kind = "restore" THEN Goes("import") /\ UNCHANGED <<proc, acked, kept>> ELSE Returns
  /\ UNCHANGED <<db, store, generated, wraps, stage, vault, signers, orphans>>

\* importRecovered: each object is wrapped, then the index, and all are committed together.
ImportObject ==
  /\ At("import") /\ call.records # <<>> /\ Reserve(call.key) /\ Goes("seal")
  /\ UNCHANGED <<store, proc, generated, acked, stage, vault, signers, kept, orphans>>

SealImport ==
  /\ \/ At("seal")
     \/ At("import") /\ call.records = <<>>
  /\ Reserve(call.key)
  /\ call' = [call EXCEPT !.step = "commit", !.nonce = db.usage[call.key] + 1]
  /\ UNCHANGED <<store, proc, generated, acked, stage, vault, signers, kept, orphans>>

\* A fault after the commit leaves the restore in doubt.
CommitImport ==
  /\ At("commit")
  /\ db' = [db EXCEPT !.index = [key |-> call.key, nonce |-> call.nonce, records |-> call.records],
                      !.blobs = [c \in Contents |-> IF c \in Range(call.records) THEN call.key ELSE None]]
  /\ \/ Returns
     \/ Goes("doubt") /\ UNCHANGED <<proc, acked, kept>>
  /\ UNCHANGED <<store, generated, wraps, stage, vault, signers, orphans>>

-----------------------------------------------------------------------------
(* Its failures.                                                           *)

\* Any step fails: a restore that had its vault looks at what there is, every other call deletes
\* its items.
StepFails ==
  /\ call # None /\ call.step \notin {"doubt", "drop signer", "drop master"}
  /\ Goes(IF call.step \in {"import", "seal", "commit"} THEN "doubt" ELSE "drop signer")
  /\ UNCHANGED <<db, store, proc, generated, wraps, acked, stage, vault, signers, kept, orphans>>

\* A plausible bug in Whole, used only to test the properties.
WholeIfReadable == TRUE
\* verifyAll counts as many records as were recovered.
Whole == Len(db.index.records) = Len(call.records)

\* A restore whose commit was made before it failed is given all the same. Otherwise, or when it
\* cannot be verified, its items are deleted, unless not even the header can be read.
Doubt ==
  /\ At("doubt")
  /\ \/ Whole /\ Returns /\ UNCHANGED orphans
     \/ Goes("drop signer") /\ UNCHANGED <<proc, acked, kept, orphans>>
     \/ call' = None /\ orphans' = orphans \cup {call.key} /\ UNCHANGED <<proc, acked, kept>>
  /\ UNCHANGED <<db, store, generated, wraps, stage, vault, signers>>

\* A plausible bug in DropSigner, used only to test the properties.
DropSignerOnly ==
  /\ At("drop signer")
  /\ call' = None
  /\ \/ signers' = signers \ {call.key} /\ UNCHANGED orphans
     \/ orphans' = orphans \cup {call.key} /\ UNCHANGED signers
  /\ UNCHANGED <<db, store, proc, generated, wraps, acked, stage, vault, kept>>
\* A deletion that fails is passed over.
DropSigner ==
  /\ At("drop signer")
  /\ Goes("drop master")
  /\ \/ signers' = signers \ {call.key} /\ UNCHANGED orphans
     \/ orphans' = orphans \cup {call.key} /\ UNCHANGED signers
  /\ UNCHANGED <<db, store, proc, generated, wraps, acked, stage, vault, kept>>

DropMaster ==
  /\ At("drop master")
  /\ call' = None
  /\ \/ store' = store \ {call.key} /\ UNCHANGED orphans
     \/ orphans' = orphans \cup {call.key} /\ UNCHANGED store
  /\ UNCHANGED <<db, proc, generated, wraps, acked, stage, vault, signers, kept>>

FounderDies ==
  /\ call # None
  /\ call' = None /\ orphans' = orphans \cup {call.key}
  /\ UNCHANGED <<db, store, proc, generated, wraps, acked, stage, vault, signers, kept>>

\* The person throws away a directory that no call gave him and that does not open.
Discard ==
  /\ call = None /\ kept = None /\ stage # "absent" /\ vault # FirstKey
  /\ stage' = "absent" /\ vault' = None
  /\ UNCHANGED <<db, store, proc, generated, wraps, acked, signers, call, kept, orphans>>

-----------------------------------------------------------------------------
\* Whatever Vault does, with both items in the store. Opening a vault gives it to the caller too.
Works ==
  /\ call = None /\ stage = "indexed" /\ vault \in signers
  /\ \E p \in Procs : Lifetime(p) \/ Evidence(p) \/ Rotation(p)
  /\ kept' = vault
  /\ UNCHANGED <<stage, vault, signers, call, orphans>>

Founds == StoreMasterKey \/ StoreSigningKey \/ MakeDirectory \/ WriteHeader \/ SealFirstIndex
          \/ WriteFirstIndex \/ Opened \/ ImportObject \/ SealImport \/ CommitImport
Fails == StepFails \/ Doubt \/ DropSigner \/ DropMaster \/ FounderDies

FoundingNext ==
  \/ \E p \in Procs : AdoptLegacy(p) \/ \E k \in VaultKeys :
       Create(p, k) \/ \E records \in Recovered : Restore(p, k, records)
  \/ Founds \/ Fails \/ Discard \/ Works

FoundingSpec == FoundingInit /\ [][FoundingNext]_<<vars, foundingVars>>

-----------------------------------------------------------------------------
(* Properties.                                                             *)

FoundingTypeOK ==
  /\ TypeOK
  /\ stage \in Stages /\ vault \in VaultKeys \cup {None} /\ signers \subseteq VaultKeys
  /\ call \in Calls \cup {None} /\ (call # None => call.records \in Recovered \cup {db.index.records})
  /\ kept \in VaultKeys \cup {None} /\ orphans \subseteq VaultKeys

\* A vault that a caller was given opens ever after: its database is whole and the key store holds
\* the key its header selects and its signing key, through every later rotation, failure and crash.
\* And key material never outlives its use unnoticed: an item belongs to that vault, is named by a
\* pending retirement that the next open can settle, or is of a call under way or one that died or
\* could not delete it (create, adoptLegacy, restore, rotateVaultKey, reconcileKeyRetirements). What was
\* acknowledged or restored stays readable all the while.
Custody ==
  LET inUse    == IF kept = None THEN {} ELSE {db.active} \cup Named(db.intent)
      underWay == IF call = None THEN {} ELSE {call.key}
  IN
  /\ FoundingTypeOK /\ AcknowledgedReadable
  /\ kept # None => kept = vault /\ stage = "indexed" /\ ActiveKeyKept /\ vault \in signers
  /\ store \subseteq inUse \cup underWay \cup orphans
  /\ signers \subseteq ({kept} \ {None}) \cup underWay \cup orphans
  /\ db.intent # None => db.active \in Named(db.intent)
=============================================================================
