-------------------------------- MODULE Vault --------------------------------
(***************************************************************************)
(* The encrypted evidence vault and the lifetime of its master keys.       *)
(*                                                                         *)
(* One SQLite database holds the header (which key is active), the index   *)
(* of records, the wrapped blobs, one nonce counter per key and at most    *)
(* one key-retirement intent.  The keys themselves are items of a separate *)
(* key store.  Every committed transaction and every key-store call is one *)
(* step; a process may die, or a call fail, between any two of them, and   *)
(* several processes may have the database open.                           *)
(***************************************************************************)
EXTENDS Naturals, FiniteSets, Sequences, Functions

CONSTANTS
  Procs,       \* processes that open the vault
  VaultKeys,   \* random 32-byte vault master keys
  FirstKey,    \* the key the vault was created with
  Contents,    \* evidence, by its digest
  MaxWraps,    \* MAX_WRAPS: wraps one key may make
  MaxRecords,  \* LIMITS.objects: records the index may hold
  None

ASSUME VaultAssumption ==
  /\ FirstKey \in VaultKeys /\ None \notin VaultKeys \cup Contents
  /\ {MaxWraps, MaxRecords} \subseteq Nat \ {0}

VARIABLES
  db,        \* durable: the database
  store,     \* durable: vault keys present in the key store
  proc,      \* memory: what each process holds and does
  generated, \* keys ever drawn: a random key is never drawn twice
  wraps,     \* key -> nonce -> how many times it was used
  acked      \* records whose capture was acknowledged

vars == <<db, store, proc, generated, wraps, acked>>

Nonces == 1 .. MaxWraps
Index == [key : VaultKeys, nonce : Nonces, records : Seq(Contents)]
Intent == [retired : VaultKeys, replacement : VaultKeys]
Objects(index) == Range(index.records)

ASSUME VaultNoneAssumption == None \notin Index \cup Intent \cup 0 .. MaxWraps

Phases == {"closed", "opened", "ready",                          \* unlock
           "seal", "box", "append",                              \* capture
           "provision", "provisioned", "rewrap", "switch", "undo", \* rotateVaultKey
           "retire", "forget"}                                   \* the end of either

Closed == [phase |-> "closed", vmk |-> None, base |-> None, content |-> None, todo |-> {},
           nonce |-> 0, old |-> None, new |-> None, victim |-> None]
Ready(vmk) == [Closed EXCEPT !.phase = "ready", !.vmk = vmk]

\* A database that the constructor created for a key, with so many of its nonces reserved.
NewDatabase(k, reserved) ==
  [active |-> k, index |-> [key |-> k, nonce |-> 1, records |-> <<>>],
   blobs |-> [c \in Contents |-> None],
   usage |-> [other \in VaultKeys |-> IF other = k THEN reserved ELSE None], intent |-> None]

\* Before any process has the database open.
Unopened ==
  /\ db = NewDatabase(FirstKey, 1)
  /\ proc = [p \in Procs |-> Closed]
  /\ generated = {FirstKey}
  /\ wraps = [k \in VaultKeys |-> [n \in Nonces |-> IF k = FirstKey /\ n = 1 THEN 1 ELSE 0]]
  /\ acked = {}

Init == Unopened /\ store = {FirstKey}

-----------------------------------------------------------------------------
(* Nonces: reserved and committed before the key encrypts with them.       *)

HasNonce(k) == db.usage[k] # None /\ db.usage[k] < MaxWraps

\* A plausible bug in Reserve, used only to test the properties.
ReserveNothing(k) ==
  /\ HasNonce(k)
  /\ wraps' = [wraps EXCEPT ![k][db.usage[k] + 1] = @ + 1]
  /\ UNCHANGED db
Reserve(k) ==
  /\ HasNonce(k)
  /\ db' = [db EXCEPT !.usage[k] = @ + 1]
  /\ wraps' = [wraps EXCEPT ![k][db.usage[k] + 1] = @ + 1]

\* The optimistic check of commit: the index envelope is still the one that was read.
\* A plausible bug in Unchanged, used only to test the properties.
UnchangedRecords(p) == db.index.records = proc[p].base.records
Unchanged(p) == db.index = proc[p].base

\* assertKey: the key in memory is the one the header selects.
Current(p) == proc[p].vmk = db.active

-----------------------------------------------------------------------------
(* Opening: the retirement an earlier rotation left behind is settled.     *)

Unlock(p) ==
  /\ proc[p].phase = "closed"
  /\ db.active \in store
  /\ proc' = [proc EXCEPT ![p] = [Closed EXCEPT !.phase = "opened", !.vmk = db.active]]
  /\ UNCHANGED <<db, store, generated, wraps, acked>>

\* A plausible bug in Obsolete, used only to test the properties.
ObsoleteReplacement(intent) == intent.replacement
Obsolete(intent) ==
  IF db.active = intent.replacement THEN intent.retired ELSE intent.replacement

ReconcileKeyRetirements(p) ==
  /\ proc[p].phase = "opened"
  /\ proc' = [proc EXCEPT ![p] =
       IF db.intent = None THEN Ready(@.vmk)
       ELSE IF db.active \notin {db.intent.retired, db.intent.replacement} THEN Closed
       ELSE [@ EXCEPT !.phase = "retire", !.victim = Obsolete(db.intent),
                      !.old = db.intent.retired, !.new = db.intent.replacement]]
  /\ UNCHANGED <<db, store, generated, wraps, acked>>

Lock(p) ==
  /\ proc[p].phase = "ready"
  /\ proc' = [proc EXCEPT ![p] = Closed]
  /\ UNCHANGED <<db, store, generated, wraps, acked>>

\* The obsolete item is deleted; a locked or failing store leaves the intent for the next open.
Retire(p) ==
  /\ proc[p].phase = "retire"
  /\ store' = store \ {proc[p].victim}
  /\ proc' = [proc EXCEPT ![p].phase = "forget"]
  /\ UNCHANGED <<db, generated, wraps, acked>>

RetireFails(p) ==
  /\ proc[p].phase \in {"retire", "forget"}
  /\ proc' = [proc EXCEPT ![p] = Ready(@.vmk)]
  /\ UNCHANGED <<db, store, generated, wraps, acked>>

CompleteKeyRetirement(p) ==
  LET own == [retired |-> proc[p].old, replacement |-> proc[p].new] IN
  /\ proc[p].phase = "forget"
  /\ db' = [db EXCEPT !.intent = IF @ = own THEN None ELSE @]
  /\ proc' = [proc EXCEPT ![p] = Ready(@.vmk)]
  /\ UNCHANGED <<store, generated, wraps, acked>>

-----------------------------------------------------------------------------
(* Capture: read the index, wrap the object, wrap the index, commit.       *)

Capture(p, c) ==
  /\ proc[p].phase = "ready" /\ Current(p)
  /\ Len(db.index.records) < MaxRecords
  /\ proc' = [proc EXCEPT ![p].phase = IF c \in Objects(db.index) THEN "box" ELSE "seal",
                          ![p].base = db.index, ![p].content = c]
  /\ UNCHANGED <<db, store, generated, wraps, acked>>

SealObject(p) ==
  /\ proc[p].phase = "seal"
  /\ Reserve(proc[p].vmk)
  /\ proc' = [proc EXCEPT ![p].phase = "box"]
  /\ UNCHANGED <<store, generated, acked>>

BoxIndex(p) ==
  /\ proc[p].phase = "box"
  /\ Reserve(proc[p].vmk)
  /\ proc' = [proc EXCEPT ![p].phase = "append", ![p].nonce = db.usage[proc[p].vmk] + 1]
  /\ UNCHANGED <<store, generated, acked>>

\* Blob, index and header commit together, and only over the index that was read.
AppendRecord(p) ==
  LET k == proc[p].vmk
      c == proc[p].content
      before == proc[p].base.records
  IN
  /\ proc[p].phase = "append" /\ Unchanged(p)
  /\ db' = [db EXCEPT !.active = k,
                      !.index = [key |-> k, nonce |-> proc[p].nonce, records |-> Append(before, c)],
                      !.blobs[c] = IF c \in Objects(proc[p].base) THEN @ ELSE k]
  /\ acked' = acked \cup {<<Len(before) + 1, c>>}
  /\ proc' = [proc EXCEPT ![p] = Ready(k)]
  /\ UNCHANGED <<store, generated, wraps>>

\* A recovery package wraps its manifest and changes nothing else.
ExportRecovery(p) ==
  /\ proc[p].phase = "ready" /\ Current(p)
  /\ Reserve(proc[p].vmk)
  /\ UNCHANGED <<store, proc, generated, acked>>

\* LIMIT_EXCEEDED, CONFLICT, a busy database or a full disk: nothing was committed.
CaptureFails(p) ==
  /\ proc[p].phase \in {"seal", "box", "append"}
  /\ proc' = [proc EXCEPT ![p] = Ready(@.vmk)]
  /\ UNCHANGED <<db, store, generated, wraps, acked>>

-----------------------------------------------------------------------------
(* Rotation of the vault key.                                              *)

\* No other retirement is pending.
Settled == db.intent = None

\* The intent is durable before the replacement reaches the key store.
BeginRotation(p, k) ==
  /\ proc[p].phase = "ready"
  /\ k \notin generated
  /\ generated' = generated \cup {k}
  /\ \/ /\ Settled
        /\ db' = [db EXCEPT !.intent = [retired |-> db.active, replacement |-> k]]
        /\ proc' = [proc EXCEPT ![p].phase = "provision", ![p].old = db.active, ![p].new = k]
     \/ /\ proc' = [proc EXCEPT ![p].phase = "undo", ![p].old = db.active, ![p].new = k]
        /\ UNCHANGED db      \* CONFLICT with another retirement, or the transaction fails
  /\ UNCHANGED <<store, wraps, acked>>

Provision(p) ==
  /\ proc[p].phase = "provision"
  /\ store' = store \cup {proc[p].new}
  /\ proc' = [proc EXCEPT ![p].phase = "provisioned"]
  /\ UNCHANGED <<db, generated, wraps, acked>>

\* rotate reads and verifies the index and opens the replacement's nonce counter.
ReadForRotation(p) ==
  LET k == proc[p].new IN
  /\ proc[p].phase = "provisioned"
  /\ Current(p) /\ db.usage[k] = None
  /\ db' = [db EXCEPT !.usage[k] = 0]
  /\ proc' = [proc EXCEPT ![p].phase = "rewrap", ![p].base = db.index, ![p].todo = Objects(db.index)]
  /\ UNCHANGED <<store, generated, wraps, acked>>

RewrapObject(p) ==
  /\ proc[p].phase = "rewrap"
  /\ Reserve(proc[p].new)
  /\ \E c \in proc[p].todo : proc' = [proc EXCEPT ![p].todo = @ \ {c}]
  /\ UNCHANGED <<store, generated, acked>>

RewrapIndex(p) ==
  /\ proc[p].phase = "rewrap" /\ proc[p].todo = {}
  /\ Reserve(proc[p].new)
  /\ proc' = [proc EXCEPT ![p].phase = "switch", ![p].nonce = db.usage[proc[p].new] + 1]
  /\ UNCHANGED <<store, generated, acked>>

\* Every blob, the index and the header switch to the replacement together.  A fault after the
\* commit finds the header switched, and the live object follows it.
SwitchKey(p) ==
  LET k == proc[p].new IN
  /\ proc[p].phase = "switch" /\ Unchanged(p)
  /\ db' = [db EXCEPT !.active = k,
                      !.index = [key |-> k, nonce |-> proc[p].nonce, records |-> proc[p].base.records],
                      !.blobs = [c \in Contents |-> IF c \in Objects(proc[p].base) THEN k ELSE @[c]]]
  /\ \E next \in {"retire", "ready"} :      \* "ready": the fault after the commit
       proc' = [proc EXCEPT ![p] =
         IF next = "ready" THEN Ready(k)
         ELSE [@ EXCEPT !.phase = "retire", !.vmk = k, !.victim = proc[p].old, !.base = None, !.nonce = 0]]
  /\ UNCHANGED <<store, generated, wraps, acked>>

RotationFails(p) ==
  /\ proc[p].phase \in {"provision", "provisioned", "rewrap", "switch"}
  /\ proc' = [proc EXCEPT ![p].phase = "undo", ![p].todo = {}, ![p].base = None, ![p].nonce = 0]
  /\ UNCHANGED <<db, store, generated, wraps, acked>>

\* The catch of rotateVaultKey: a replacement that was never activated is removed again.
UndoRotation(p) ==
  /\ proc[p].phase = "undo"
  /\ proc' = [proc EXCEPT ![p] =
       IF db.active = @.old THEN [@ EXCEPT !.phase = "retire", !.victim = proc[p].new] ELSE Ready(@.vmk)]
  /\ UNCHANGED <<db, store, generated, wraps, acked>>

Crash(p) ==
  /\ proc[p].phase # "closed"
  /\ proc' = [proc EXCEPT ![p] = Closed]
  /\ UNCHANGED <<db, store, generated, wraps, acked>>

-----------------------------------------------------------------------------
Lifetime(p) == Unlock(p) \/ ReconcileKeyRetirements(p) \/ Lock(p) \/ Crash(p)
Evidence(p) == \/ \E c \in Contents : Capture(p, c)
               \/ SealObject(p) \/ BoxIndex(p) \/ AppendRecord(p) \/ CaptureFails(p) \/ ExportRecovery(p)
Rotation(p) == \/ \E k \in VaultKeys : BeginRotation(p, k)
               \/ Provision(p) \/ ReadForRotation(p) \/ RewrapObject(p) \/ RewrapIndex(p)
               \/ SwitchKey(p) \/ RotationFails(p) \/ UndoRotation(p)
               \/ Retire(p) \/ RetireFails(p) \/ CompleteKeyRetirement(p)

Next == \E p \in Procs : Lifetime(p) \/ Evidence(p) \/ Rotation(p)
Spec == Init /\ [][Next]_vars

-----------------------------------------------------------------------------
(* Properties.                                                             *)

\* The database, the key store and the processes keep their shapes; no counter passes its limit.
TypeOK ==
  /\ db \in [active : VaultKeys, index : Index, blobs : [Contents -> VaultKeys \cup {None}],
             usage : [VaultKeys -> 0 .. MaxWraps \cup {None}], intent : Intent \cup {None}]
  /\ store \subseteq VaultKeys
  /\ proc \in [Procs -> [phase : Phases, vmk : VaultKeys \cup {None}, base : Index \cup {None},
                         content : Contents \cup {None}, todo : SUBSET Contents,
                         nonce : 0 .. MaxWraps, old : VaultKeys \cup {None},
                         new : VaultKeys \cup {None}, victim : VaultKeys \cup {None}]]
  /\ generated \subseteq VaultKeys
  /\ wraps \in [VaultKeys -> [Nonces -> Nat]]
  /\ acked \subseteq (1 .. MaxRecords) \X Contents

\* The key the durable header selects is in the key store: no rotation, failed or interrupted
\* at any point, loses the vault (rotateVaultKey and reconcileKeyRetirements).
ActiveKeyKept == db.active \in store

\* The items a pending retirement speaks for.
Named(intent) == IF intent = None THEN {} ELSE {intent.retired, intent.replacement}

\* No key encrypts twice with one nonce, across processes, crashes and failed commits (nonce).
NonceUnique == \A k \in VaultKeys, n \in Nonces : wraps[k][n] <= 1

\* Every record whose capture was acknowledged, or that a restore returned, stays at its place, and
\* one key, the header's, reads it: the header, the index and every blob the index needs are under
\* one key whatever writers and rotations overlap, and a concurrent stale writer or rotation fails
\* rather than replace a newer index (commit).
AcknowledgedReadable ==
  /\ db.index.key = db.active
  /\ \A c \in Objects(db.index) : db.blobs[c] = db.active
  /\ \A r \in acked : r[1] \in DOMAIN db.index.records /\ db.index.records[r[1]] = r[2]
=============================================================================
