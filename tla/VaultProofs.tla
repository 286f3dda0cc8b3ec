----------------------------- MODULE VaultProofs -----------------------------
(***************************************************************************)
(* Proofs about Vault for any number of processes, keys, contents and      *)
(* nonces, and about Founding when one process has the vault.              *)
(***************************************************************************)
EXTENDS Founding, SequenceTheorems, TLAPS

(***************************************************************************)
(* Vault's inductive invariant.                                            *)
(***************************************************************************)

Database == [active : VaultKeys, index : Index, blobs : [Contents -> VaultKeys \cup {None}],
             usage : [VaultKeys -> 0 .. MaxWraps \cup {None}], intent : Intent \cup {None}]
Process == [phase : Phases, vmk : VaultKeys \cup {None}, base : Index \cup {None},
            content : Contents \cup {None}, todo : SUBSET Contents,
            nonce : 0 .. MaxWraps, old : VaultKeys \cup {None},
            new : VaultKeys \cup {None}, victim : VaultKeys \cup {None}]

Capturing == {"seal", "box", "append"}
Replacing == {"provision", "provisioned", "rewrap", "switch"}
Retiring == {"retire", "forget"}

\* What a process knows at each point of a capture, a rotation or a retirement: the index it read
\* is under the key it holds.
Holds(r) ==
  /\ r.phase # "closed" => r.vmk # None
  /\ r.phase \in Capturing => /\ r.base # None /\ r.base.key = r.vmk
                              /\ Len(r.base.records) < MaxRecords /\ r.content # None
  /\ r.phase \in {"append", "switch"} => r.nonce # 0
  /\ r.phase \in Replacing \cup Retiring \cup {"undo"} => r.old # None /\ r.new # None
  /\ r.phase \in {"rewrap", "switch"} => r.base # None /\ Len(r.base.records) <= MaxRecords
  /\ r.phase \in Retiring => r.victim # None
Holding == \A p \in Procs : Holds(proc[p])

Readable == AcknowledgedReadable /\ Len(db.index.records) <= MaxRecords

\* The counter of a key says which of its nonces were used.
Spent(k, n) == db.usage[k] # None /\ n <= db.usage[k]
Counted == \A k \in VaultKeys, n \in Nonces : wraps[k][n] = IF Spent(k, n) THEN 1 ELSE 0

VaultIInv == TypeOK /\ Holding /\ Readable

-----------------------------------------------------------------------------
(* Shapes.                                                                 *)

LEMMA Types == TypeOK <=> /\ db \in Database
                          /\ store \subseteq VaultKeys
                          /\ proc \in [Procs -> Process]
                          /\ generated \subseteq VaultKeys
                          /\ wraps \in [VaultKeys -> [Nonces -> Nat]]
                          /\ acked \subseteq (1 .. MaxRecords) \X Contents
  BY DEF TypeOK, Database, Process

LEMMA ClosedHolds == Closed \in Process /\ Holds(Closed) /\ Closed.phase = "closed"
  <1>1. 0 \in 0 .. MaxWraps BY VaultAssumption
  <1> QED BY <1>1 DEF Closed, Process, Phases, Holds, Capturing, Replacing, Retiring

LEMMA ReadyHolds ==
  ASSUME NEW k \in VaultKeys
  PROVE  Ready(k) \in Process /\ Holds(Ready(k)) /\ Ready(k).phase = "ready" /\ Ready(k).vmk = k
  <1>1. k # None BY VaultAssumption
  <1>2. Ready(k) \in Process /\ Ready(k).phase = "ready" /\ Ready(k).vmk = k
    BY ClosedHolds DEF Ready, Process, Phases
  <1> QED BY <1>1, <1>2 DEF Holds, Capturing, Replacing, Retiring

\* One process moves, to a place that is as it should be.
Moves(p) == \E r \in Process : Holds(r) /\ proc' = [proc EXCEPT ![p] = r]

LEMMA Moved ==
  ASSUME TypeOK, Holding, NEW p \in Procs, Moves(p)
  PROVE  proc' \in [Procs -> Process] /\ Holding'
  <1>1. PICK r \in Process : Holds(r) /\ proc' = [proc EXCEPT ![p] = r] BY DEF Moves
  <1>2. proc \in [Procs -> Process] BY Types
  <1>3. proc' \in [Procs -> Process] BY <1>1, <1>2
  <1>4. ASSUME NEW q \in Procs PROVE Holds(proc'[q])
    <2>1. CASE q = p BY <1>1, <1>2, <2>1
    <2>2. CASE q # p BY <1>1, <1>2, <2>2 DEF Holding
    <2> QED BY <2>1, <2>2
  <1> QED BY <1>3, <1>4 DEF Holding

LEMMA ObjectsType ==
  ASSUME NEW index \in Index
  PROVE  /\ Objects(index) \subseteq Contents
         /\ index.records \in Seq(Contents) /\ Len(index.records) \in Nat
  BY DEF Objects, Index, Range

\* Adding one record adds its content and moves no other.
LEMMA ObjectsOfAppend ==
  ASSUME NEW s \in Seq(Contents), NEW c \in Contents
  PROVE  /\ Append(s, c) \in Seq(Contents) /\ Len(Append(s, c)) = Len(s) + 1
         /\ Range(Append(s, c)) = Range(s) \cup {c}
         /\ \A i \in DOMAIN s : i \in DOMAIN Append(s, c) /\ Append(s, c)[i] = s[i]
         /\ Append(s, c)[Len(s) + 1] = c
  BY AppendProperties DEF Range

-----------------------------------------------------------------------------
(* Nonces.                                                                 *)

LEMMA Reserved ==
  ASSUME TypeOK, NEW k \in VaultKeys, Reserve(k)
  PROVE  /\ db' = [db EXCEPT !.usage = db'.usage] /\ db' \in Database
         /\ db.usage[k] \in Nat /\ db.usage[k] + 1 \in Nonces
         /\ db'.usage = [db.usage EXCEPT ![k] = db.usage[k] + 1]
         /\ wraps' \in [VaultKeys -> [Nonces -> Nat]]
         /\ wraps' = [wraps EXCEPT ![k][db.usage[k] + 1] = @ + 1]
  <1>1. db \in Database /\ wraps \in [VaultKeys -> [Nonces -> Nat]] BY Types
  <1>2. db.usage[k] \in 0 .. MaxWraps /\ db.usage[k] < MaxWraps BY <1>1 DEF Reserve, HasNonce, Database
  <1>3. db.usage[k] + 1 \in Nonces /\ db.usage[k] + 1 \in 0 .. MaxWraps BY <1>2, VaultAssumption DEF Nonces
  <1>4. db' = [db EXCEPT !.usage = [db.usage EXCEPT ![k] = db.usage[k] + 1]] BY <1>1 DEF Reserve, Database
  <1>5. [db.usage EXCEPT ![k] = db.usage[k] + 1] \in [VaultKeys -> 0 .. MaxWraps \cup {None}]
    BY <1>1, <1>3 DEF Database
  <1>6. db' \in Database /\ db'.usage = [db.usage EXCEPT ![k] = db.usage[k] + 1]
        /\ db' = [db EXCEPT !.usage = db'.usage]
    BY <1>1, <1>4, <1>5 DEF Database
  <1>7. wraps' = [wraps EXCEPT ![k] = [wraps[k] EXCEPT ![db.usage[k] + 1] = @ + 1]]
    BY <1>1 DEF Reserve
  <1>8. wraps' \in [VaultKeys -> [Nonces -> Nat]] BY <1>1, <1>3, <1>7
  <1> QED BY <1>2, <1>3, <1>6, <1>8 DEF Reserve

LEMMA CountedReserve ==
  ASSUME TypeOK, Counted, NEW k \in VaultKeys, Reserve(k)
  PROVE  Counted'
  <1>1. db \in Database /\ wraps \in [VaultKeys -> [Nonces -> Nat]] BY Types
  <1>2. /\ db.usage[k] \in Nat /\ db.usage[k] + 1 \in Nonces
        /\ db'.usage = [db.usage EXCEPT ![k] = db.usage[k] + 1]
        /\ wraps' = [wraps EXCEPT ![k][db.usage[k] + 1] = @ + 1]
    BY Reserved
  <1>3. db.usage[k] # None /\ db'.usage[k] = db.usage[k] + 1 /\ db'.usage[k] # None
    BY <1>1, <1>2, VaultNoneAssumption DEF Database, Reserve, HasNonce, Nonces
  <1>4. ASSUME NEW l \in VaultKeys, NEW n \in Nonces
        PROVE  wraps'[l][n] = IF db'.usage[l] # None /\ n <= db'.usage[l] THEN 1 ELSE 0
    <2>1. wraps[l][n] = IF db.usage[l] # None /\ n <= db.usage[l] THEN 1 ELSE 0 BY DEF Counted, Spent
    <2>2. CASE l # k
      <3>1. wraps'[l] = wraps[l] /\ db'.usage[l] = db.usage[l] BY <1>1, <1>2, <2>2 DEF Database
      <3> QED BY <2>1, <3>1
    <2>3. CASE l = k
      <3>1. n \in Nat BY DEF Nonces
      <3>2. CASE n = db.usage[k] + 1
        <4>1. wraps'[k][n] = wraps[k][n] + 1 BY <1>1, <1>2, <3>2
        <4>2. wraps[k][n] = 0 BY <1>2, <2>1, <2>3, <3>2
        <4> QED BY <1>2, <1>3, <2>3, <3>2, <4>1, <4>2
      <3>3. CASE n # db.usage[k] + 1
        <4>1. wraps'[k][n] = wraps[k][n] BY <1>1, <1>2, <3>3
        <4>2. n <= db.usage[k] <=> n <= db.usage[k] + 1 BY <1>2, <3>1, <3>3
        <4> QED BY <1>2, <1>3, <2>1, <2>3, <4>1, <4>2
      <3> QED BY <3>2, <3>3
    <2> QED BY <2>2, <2>3
  <1> QED BY <1>4 DEF Counted, Spent

\* What is read of the database does not depend on its counters or on its intent.
LEMMA ReadableKept ==
  ASSUME Readable, db'.active = db.active, db'.index = db.index, db'.blobs = db.blobs, acked' = acked
  PROVE  Readable'
  BY DEF Readable, AcknowledgedReadable, Objects

-----------------------------------------------------------------------------
(* Steps that move a process and leave the database alone.                 *)

Rests == UNCHANGED <<db, wraps, acked>> /\ generated' \subseteq VaultKeys /\ store' \subseteq VaultKeys

LEMMA RestingKeeps ==
  ASSUME VaultIInv, NEW p \in Procs, Moves(p), Rests
  PROVE  VaultIInv'
  <1>1. proc' \in [Procs -> Process] /\ Holding' BY Moved DEF VaultIInv
  <1>2. TypeOK'
    BY <1>1 DEF TypeOK, Process, VaultIInv, Rests
  <1>3. Readable' BY ReadableKept DEF VaultIInv, Rests
  <1> QED BY <1>1, <1>2, <1>3 DEF VaultIInv

LEMMA UnlockKeeps == ASSUME VaultIInv, NEW p \in Procs, Unlock(p) PROVE VaultIInv'
  <1> DEFINE r == [Closed EXCEPT !.phase = "opened", !.vmk = db.active]
  <1>1. db.active \in VaultKeys /\ db.active # None BY VaultAssumption, Types DEF VaultIInv, Database
  <1>2. r \in Process /\ r.phase = "opened" /\ r.vmk # None BY <1>1, ClosedHolds DEF Process, Phases
  <1>3. Holds(r) BY <1>2 DEF Holds, Capturing, Replacing, Retiring
  <1>4. Moves(p) BY <1>2, <1>3 DEF Moves, Unlock
  <1>5. Rests BY Types DEF Unlock, Rests, VaultIInv
  <1> QED BY <1>4, <1>5, RestingKeeps

\* A process is where a step found it, with what that place promises.
LEMMA ProcessType ==
  ASSUME VaultIInv, NEW p \in Procs
  PROVE  /\ proc[p] \in Process /\ Holds(proc[p]) /\ db \in Database
         /\ proc[p].phase # "closed" => proc[p].vmk \in VaultKeys
         /\ store \subseteq VaultKeys /\ generated \subseteq VaultKeys
  BY Types DEF VaultIInv, Holding, Holds, Process

LEMMA ReconcileKeeps == ASSUME VaultIInv, NEW p \in Procs, ReconcileKeyRetirements(p) PROVE VaultIInv'
  <1>0. Rests BY Types DEF ReconcileKeyRetirements, Rests, VaultIInv
  <1> SUFFICES Moves(p) BY <1>0, RestingKeeps
  <1>1. proc[p].vmk \in VaultKeys /\ proc[p] \in Process /\ db \in Database
    BY ProcessType DEF ReconcileKeyRetirements
  <1>2. CASE db.intent # None /\ db.active \in {db.intent.retired, db.intent.replacement}
    <2> DEFINE r == [proc[p] EXCEPT !.phase = "retire", !.victim = Obsolete(db.intent),
                                    !.old = db.intent.retired, !.new = db.intent.replacement]
    <2>1. db.intent.retired \in VaultKeys /\ db.intent.replacement \in VaultKeys BY <1>1, <1>2 DEF Database, Intent
    <2>2. Obsolete(db.intent) \in VaultKeys BY <2>1 DEF Obsolete
    <2>3. /\ r \in Process /\ r.phase = "retire" /\ r.vmk = proc[p].vmk /\ r.victim = Obsolete(db.intent)
          /\ r.old = db.intent.retired /\ r.new = db.intent.replacement
      BY <1>1, <2>1, <2>2 DEF Process, Phases
    <2> HIDE DEF r
    <2>4. Holds(r) BY <1>1, <2>1, <2>2, <2>3, VaultAssumption DEF Holds, Capturing, Replacing, Retiring
    <2>5. proc' = [proc EXCEPT ![p] = r] BY <1>2 DEF ReconcileKeyRetirements, r
    <2> QED BY <2>3, <2>4, <2>5 DEF Moves
  <1>3. CASE db.intent = None
    <2>1. proc' = [proc EXCEPT ![p] = Ready(proc[p].vmk)] BY <1>3 DEF ReconcileKeyRetirements
    <2> QED BY <1>1, <2>1, ReadyHolds DEF Moves
  <1>4. CASE db.intent # None /\ db.active \notin {db.intent.retired, db.intent.replacement}
    <2>1. proc' = [proc EXCEPT ![p] = Closed] BY <1>4 DEF ReconcileKeyRetirements
    <2> QED BY <2>1, ClosedHolds DEF Moves
  <1> QED BY <1>2, <1>3, <1>4

\* A process gives up and forgets what it did.
LEMMA ResetKeeps ==
  ASSUME VaultIInv, NEW p \in Procs, Lock(p) \/ Crash(p) \/ RetireFails(p) \/ CaptureFails(p)
  PROVE  VaultIInv'
  <1>0. Rests BY Types DEF Lock, Crash, RetireFails, CaptureFails, Rests, VaultIInv
  <1> SUFFICES Moves(p) BY <1>0, RestingKeeps
  <1>1. CASE Lock(p) \/ Crash(p)
    <2>1. proc' = [proc EXCEPT ![p] = Closed] BY <1>1 DEF Lock, Crash
    <2> QED BY <2>1, ClosedHolds DEF Moves
  <1>2. CASE RetireFails(p) \/ CaptureFails(p)
    <2>1. proc[p].vmk \in VaultKeys BY <1>2, ProcessType DEF RetireFails, CaptureFails
    <2>2. proc' = [proc EXCEPT ![p] = Ready(proc[p].vmk)] BY <1>2 DEF RetireFails, CaptureFails
    <2> QED BY <2>1, <2>2, ReadyHolds DEF Moves
  <1> QED BY <1>1, <1>2

LEMMA RetireKeeps == ASSUME VaultIInv, NEW p \in Procs, Retire(p) PROVE VaultIInv'
  <1> DEFINE r == [proc[p] EXCEPT !.phase = "forget"]
  <1>1. proc[p] \in Process /\ Holds(proc[p]) /\ store \subseteq VaultKeys /\ generated \subseteq VaultKeys
    BY ProcessType
  <1>2. r \in Process /\ Holds(r) /\ proc' = [proc EXCEPT ![p] = r]
    BY <1>1 DEF Process, Phases, Holds, Capturing, Replacing, Retiring, Retire
  <1>3. Moves(p) BY <1>2 DEF Moves
  <1>4. Rests BY <1>1 DEF Retire, Rests
  <1> QED BY <1>3, <1>4, RestingKeeps

LEMMA ProvisionKeeps == ASSUME VaultIInv, NEW p \in Procs, Provision(p) PROVE VaultIInv'
  <1> DEFINE r == [proc[p] EXCEPT !.phase = "provisioned"]
  <1>1. proc[p] \in Process /\ Holds(proc[p]) /\ store \subseteq VaultKeys /\ generated \subseteq VaultKeys
    BY ProcessType
  <1>2. r \in Process /\ Holds(r) /\ proc' = [proc EXCEPT ![p] = r]
    BY <1>1 DEF Process, Phases, Holds, Capturing, Replacing, Retiring, Provision
  <1>3. Moves(p) BY <1>2 DEF Moves
  <1>4. proc[p].new \in VaultKeys BY <1>1 DEF Process, Holds, Replacing, Provision
  <1>5. Rests BY <1>1, <1>4 DEF Provision, Rests
  <1> QED BY <1>3, <1>5, RestingKeeps

LEMMA CaptureKeeps ==
  ASSUME VaultIInv, NEW p \in Procs, NEW c \in Contents, Capture(p, c)
  PROVE  VaultIInv'
  <1> DEFINE place == IF c \in Objects(db.index) THEN "box" ELSE "seal"
             r == [proc[p] EXCEPT !.phase = place, !.base = db.index, !.content = c]
  <1>1. proc[p] \in Process /\ Holds(proc[p]) /\ db \in Database /\ proc[p].vmk \in VaultKeys
    BY ProcessType DEF Capture
  <1>2. db.index \in Index /\ db.index # None /\ c # None
    BY <1>1, VaultAssumption, VaultNoneAssumption DEF Database
  <1>3. place \in {"box", "seal"} OBVIOUS
  <1>4. /\ r \in Process /\ r.phase = place /\ r.base = db.index /\ r.content = c /\ r.vmk = proc[p].vmk
    BY <1>1, <1>2 DEF Process, Phases
  <1>5. proc' = [proc EXCEPT ![p] = r] BY <1>1, Types DEF VaultIInv, Capture, Process
  <1>6. proc[p].vmk = db.index.key /\ Len(db.index.records) < MaxRecords
    BY DEF Capture, Current, VaultIInv, Readable, AcknowledgedReadable
  <1> HIDE DEF r, place
  <1>7. Holds(r) BY <1>1, <1>2, <1>3, <1>4, <1>6, VaultAssumption DEF Holds, Capturing, Replacing, Retiring
  <1>8. Moves(p) BY <1>4, <1>5, <1>7 DEF Moves
  <1>9. Rests BY Types DEF Capture, Rests, VaultIInv
  <1> QED BY <1>8, <1>9, RestingKeeps

LEMMA RotationFailsKeeps == ASSUME VaultIInv, NEW p \in Procs, RotationFails(p) PROVE VaultIInv'
  <1> DEFINE r == [proc[p] EXCEPT !.phase = "undo", !.todo = {}, !.base = None, !.nonce = 0]
  <1>1. proc[p] \in Process /\ Holds(proc[p]) BY ProcessType
  <1>2. 0 \in 0 .. MaxWraps BY VaultAssumption
  <1>3. r \in Process /\ r.phase = "undo" /\ r.vmk = proc[p].vmk /\ r.old = proc[p].old /\ r.new = proc[p].new
    BY <1>1, <1>2 DEF Process, Phases
  <1>4. proc' = [proc EXCEPT ![p] = r] BY <1>1, Types DEF VaultIInv, RotationFails, Process
  <1> HIDE DEF r
  <1>5. Holds(r) BY <1>1, <1>3 DEF Holds, Capturing, Replacing, Retiring, RotationFails
  <1>6. Moves(p) BY <1>3, <1>4, <1>5 DEF Moves
  <1>7. Rests BY Types DEF RotationFails, Rests, VaultIInv
  <1> QED BY <1>6, <1>7, RestingKeeps

LEMMA UndoKeeps == ASSUME VaultIInv, NEW p \in Procs, UndoRotation(p) PROVE VaultIInv'
  <1>0. Rests BY Types DEF UndoRotation, Rests, VaultIInv
  <1> SUFFICES Moves(p) BY <1>0, RestingKeeps
  <1>1. proc[p] \in Process /\ Holds(proc[p]) /\ proc[p].vmk \in VaultKeys BY ProcessType DEF UndoRotation
  <1>2. CASE db.active = proc[p].old
    <2> DEFINE r == [proc[p] EXCEPT !.phase = "retire", !.victim = proc[p].new]
    <2>1. /\ r \in Process /\ r.phase = "retire" /\ r.vmk = proc[p].vmk /\ r.old = proc[p].old
          /\ r.new = proc[p].new /\ r.victim = proc[p].new
      BY <1>1 DEF Process, Phases
    <2>2. proc' = [proc EXCEPT ![p] = r] BY <1>2 DEF UndoRotation
    <2> HIDE DEF r
    <2>3. Holds(r) BY <1>1, <2>1 DEF Holds, Capturing, Replacing, Retiring, UndoRotation
    <2> QED BY <2>1, <2>2, <2>3 DEF Moves
  <1>3. CASE db.active # proc[p].old
    <2>1. proc' = [proc EXCEPT ![p] = Ready(proc[p].vmk)] BY <1>3 DEF UndoRotation
    <2> QED BY <1>1, <2>1, ReadyHolds DEF Moves
  <1> QED BY <1>2, <1>3

-----------------------------------------------------------------------------
(* Steps that write the database.                                          *)

LEMMA WritingKeeps ==
  ASSUME VaultIInv, NEW p \in Procs, Moves(p) \/ UNCHANGED proc,
         db' \in Database, store' \subseteq VaultKeys, generated' \subseteq VaultKeys,
         wraps' \in [VaultKeys -> [Nonces -> Nat]], acked' \subseteq (1 .. MaxRecords) \X Contents, Readable'
  PROVE  VaultIInv'
  <1>1. proc' \in [Procs -> Process] /\ Holding'
    <2>1. CASE Moves(p) BY <2>1, Moved DEF VaultIInv
    <2>2. CASE UNCHANGED proc BY <2>2, Types DEF VaultIInv, Holding
    <2> QED BY <2>1, <2>2
  <1>2. TypeOK' BY <1>1 DEF TypeOK, Process, Database
  <1> QED BY <1>1, <1>2 DEF VaultIInv

\* A wrap costs a nonce and changes nothing that can be read.
LEMMA WrappingKeeps ==
  ASSUME VaultIInv, NEW p \in Procs, NEW k \in VaultKeys, Moves(p) \/ UNCHANGED proc,
         Reserve(k), UNCHANGED <<store, generated, acked>>
  PROVE  VaultIInv'
  <1>1. TypeOK /\ db \in Database /\ store \subseteq VaultKeys /\ generated \subseteq VaultKeys
        /\ acked \subseteq (1 .. MaxRecords) \X Contents
    BY Types DEF VaultIInv
  <1>2. db' = [db EXCEPT !.usage = db'.usage] /\ db' \in Database /\ wraps' \in [VaultKeys -> [Nonces -> Nat]]
    BY <1>1, Reserved
  <1>3. db'.active = db.active /\ db'.index = db.index /\ db'.blobs = db.blobs BY <1>1, <1>2 DEF Database
  <1>4. Readable' BY <1>3, ReadableKept DEF VaultIInv
  <1> QED BY <1>1, <1>2, <1>4, WritingKeeps

LEMMA SealObjectKeeps == ASSUME VaultIInv, NEW p \in Procs, SealObject(p) PROVE VaultIInv'
  <1> DEFINE r == [proc[p] EXCEPT !.phase = "box"]
  <1>1. proc[p] \in Process /\ Holds(proc[p]) /\ proc[p].vmk \in VaultKeys BY ProcessType DEF SealObject
  <1>2. r \in Process /\ Holds(r) /\ proc' = [proc EXCEPT ![p] = r]
    BY <1>1 DEF Process, Phases, Holds, Capturing, Replacing, Retiring, SealObject
  <1>3. Moves(p) BY <1>2 DEF Moves
  <1> QED BY <1>1, <1>3, WrappingKeeps DEF SealObject

\* The next nonce of a key is one of the range, and not the value that stands for none.
LEMMA NextNonce ==
  ASSUME VaultIInv, NEW k \in VaultKeys, Reserve(k)
  PROVE  db.usage[k] + 1 \in 0 .. MaxWraps /\ db.usage[k] + 1 # 0
  <1>1. db.usage[k] \in Nat /\ db.usage[k] + 1 \in Nonces BY Reserved DEF VaultIInv
  <1> QED BY <1>1, VaultAssumption DEF Nonces

LEMMA BoxIndexKeeps == ASSUME VaultIInv, NEW p \in Procs, BoxIndex(p) PROVE VaultIInv'
  <1> DEFINE n == db.usage[proc[p].vmk] + 1
             r == [proc[p] EXCEPT !.phase = "append", !.nonce = n]
  <1>1. proc[p] \in Process /\ Holds(proc[p]) /\ proc[p].vmk \in VaultKeys BY ProcessType DEF BoxIndex
  <1>2. n \in 0 .. MaxWraps /\ n # 0 BY <1>1, NextNonce DEF BoxIndex
  <1>3. /\ r \in Process /\ r.phase = "append" /\ r.nonce = n /\ r.base = proc[p].base
        /\ r.vmk = proc[p].vmk /\ r.content = proc[p].content
    BY <1>1, <1>2 DEF Process, Phases
  <1>4. proc' = [proc EXCEPT ![p] = r] BY <1>1, Types DEF VaultIInv, BoxIndex, Process
  <1> HIDE DEF r, n
  <1>5. Holds(r) BY <1>1, <1>2, <1>3 DEF Holds, Capturing, Replacing, Retiring, BoxIndex
  <1>6. Moves(p) BY <1>3, <1>4, <1>5 DEF Moves
  <1> QED BY <1>1, <1>6, WrappingKeeps DEF BoxIndex

LEMMA ExportKeeps == ASSUME VaultIInv, NEW p \in Procs, ExportRecovery(p) PROVE VaultIInv'
  <1>1. proc[p].vmk \in VaultKeys BY ProcessType DEF ExportRecovery
  <1> QED BY <1>1, WrappingKeeps DEF ExportRecovery

LEMMA RewrapObjectKeeps == ASSUME VaultIInv, NEW p \in Procs, RewrapObject(p) PROVE VaultIInv'
  <1>1. proc[p] \in Process /\ Holds(proc[p]) BY ProcessType
  <1>2. PICK c \in proc[p].todo : proc' = [proc EXCEPT ![p].todo = @ \ {c}] BY DEF RewrapObject
  <1> DEFINE r == [proc[p] EXCEPT !.todo = @ \ {c}]
  <1>3. r \in Process /\ Holds(r) /\ proc' = [proc EXCEPT ![p] = r]
    BY <1>1, <1>2 DEF Process, Holds, Capturing, Replacing, Retiring
  <1>4. Moves(p) BY <1>3 DEF Moves
  <1>5. proc[p].new \in VaultKeys BY <1>1 DEF Process, Holds, Replacing, RewrapObject
  <1> QED BY <1>4, <1>5, WrappingKeeps DEF RewrapObject

LEMMA RewrapIndexKeeps == ASSUME VaultIInv, NEW p \in Procs, RewrapIndex(p) PROVE VaultIInv'
  <1> DEFINE n == db.usage[proc[p].new] + 1
             r == [proc[p] EXCEPT !.phase = "switch", !.nonce = n]
  <1>1. proc[p] \in Process /\ Holds(proc[p]) BY ProcessType
  <1>2. proc[p].new \in VaultKeys BY <1>1 DEF Process, Holds, Replacing, RewrapIndex
  <1>3. n \in 0 .. MaxWraps /\ n # 0 BY <1>2, NextNonce DEF RewrapIndex
  <1>4. /\ r \in Process /\ r.phase = "switch" /\ r.nonce = n /\ r.base = proc[p].base
        /\ r.vmk = proc[p].vmk /\ r.old = proc[p].old /\ r.new = proc[p].new
    BY <1>1, <1>3 DEF Process, Phases
  <1>5. proc' = [proc EXCEPT ![p] = r] BY <1>1, Types DEF VaultIInv, RewrapIndex, Process
  <1> HIDE DEF r, n
  <1>6. Holds(r) BY <1>1, <1>3, <1>4 DEF Holds, Capturing, Replacing, Retiring, RewrapIndex
  <1>7. Moves(p) BY <1>4, <1>5, <1>6 DEF Moves
  <1> QED BY <1>2, <1>7, WrappingKeeps DEF RewrapIndex

LEMMA CompleteKeeps == ASSUME VaultIInv, NEW p \in Procs, CompleteKeyRetirement(p) PROVE VaultIInv'
  <1>1. proc[p].vmk \in VaultKeys /\ db \in Database BY ProcessType DEF CompleteKeyRetirement
  <1>2. proc' = [proc EXCEPT ![p] = Ready(proc[p].vmk)] BY DEF CompleteKeyRetirement
  <1>3. Moves(p) BY <1>1, <1>2, ReadyHolds DEF Moves
  <1>4. PICK i \in {None, db.intent} : db' = [db EXCEPT !.intent = i] BY DEF CompleteKeyRetirement
  <1>5. db' \in Database /\ db'.active = db.active /\ db'.index = db.index /\ db'.blobs = db.blobs
    BY <1>1, <1>4 DEF Database
  <1>6. UNCHANGED <<store, generated, wraps, acked>> BY DEF CompleteKeyRetirement
  <1>7. Readable' BY <1>5, <1>6, ReadableKept DEF VaultIInv
  <1> QED BY <1>3, <1>5, <1>6, <1>7, Types, WritingKeeps DEF VaultIInv

LEMMA BeginRotationKeeps ==
  ASSUME VaultIInv, NEW p \in Procs, NEW k \in VaultKeys, BeginRotation(p, k)
  PROVE  VaultIInv'
  <1>1. proc[p] \in Process /\ Holds(proc[p]) /\ db \in Database /\ generated \subseteq VaultKeys BY ProcessType
  <1>2. db.active \in VaultKeys /\ db.active # None /\ k # None BY <1>1, VaultAssumption DEF Database
  <1>3. PICK place \in {"provision", "undo"} :
          proc' = [proc EXCEPT ![p].phase = place, ![p].old = db.active, ![p].new = k]
    BY DEF BeginRotation
  <1> DEFINE r == [proc[p] EXCEPT !.phase = place, !.old = db.active, !.new = k]
  <1>4. r \in Process /\ r.phase = place /\ r.vmk = proc[p].vmk /\ r.old = db.active /\ r.new = k
    BY <1>1, <1>2 DEF Process, Phases
  <1>5. proc' = [proc EXCEPT ![p] = r] BY <1>1, <1>3, Types DEF VaultIInv, Process
  <1> HIDE DEF r
  <1>6. Holds(r) BY <1>1, <1>2, <1>4 DEF Holds, Capturing, Replacing, Retiring, BeginRotation
  <1>7. Moves(p) BY <1>4, <1>5, <1>6 DEF Moves
  <1>8. db' \in Database /\ db'.active = db.active /\ db'.index = db.index /\ db'.blobs = db.blobs
    <2>1. CASE db' = db BY <1>1, <2>1
    <2>2. CASE db' = [db EXCEPT !.intent = [retired |-> db.active, replacement |-> k]]
      <3>1. [retired |-> db.active, replacement |-> k] \in Intent BY <1>2 DEF Intent
      <3> QED BY <1>1, <2>2, <3>1 DEF Database
    <2> QED BY <2>1, <2>2 DEF BeginRotation
  <1>9. UNCHANGED <<store, wraps, acked>> /\ generated' \subseteq VaultKeys BY <1>1 DEF BeginRotation
  <1>10. Readable' BY <1>8, <1>9, ReadableKept DEF VaultIInv
  <1> QED BY <1>7, <1>8, <1>9, <1>10, Types, WritingKeeps DEF VaultIInv

LEMMA ReadForRotationKeeps == ASSUME VaultIInv, NEW p \in Procs, ReadForRotation(p) PROVE VaultIInv'
  <1> DEFINE r == [proc[p] EXCEPT !.phase = "rewrap", !.base = db.index, !.todo = Objects(db.index)]
  <1>1. proc[p] \in Process /\ Holds(proc[p]) /\ db \in Database BY ProcessType
  <1>2. db.index \in Index /\ db.index # None BY <1>1, VaultNoneAssumption DEF Database
  <1>3. Objects(db.index) \subseteq Contents BY <1>2, ObjectsType
  <1>4. proc[p].new \in VaultKeys BY <1>1 DEF Process, Holds, Replacing, ReadForRotation
  <1>5. r \in Process /\ r.phase = "rewrap" /\ r.base = db.index /\ r.vmk = proc[p].vmk /\ r.old = proc[p].old /\ r.new = proc[p].new
    BY <1>1, <1>2, <1>3 DEF Process, Phases
  <1>6. proc' = [proc EXCEPT ![p] = r] BY <1>1, Types DEF VaultIInv, ReadForRotation, Process
  <1> HIDE DEF r
  <1>7. Len(db.index.records) <= MaxRecords BY DEF VaultIInv, Readable
  <1>8. Holds(r) BY <1>1, <1>2, <1>5, <1>7 DEF Holds, Capturing, Replacing, Retiring, ReadForRotation
  <1>9. Moves(p) BY <1>5, <1>6, <1>8 DEF Moves
  <1>10. db' = [db EXCEPT !.usage = [db.usage EXCEPT ![proc[p].new] = 0]] BY <1>1 DEF ReadForRotation, Database
  <1>11. [db.usage EXCEPT ![proc[p].new] = 0] \in [VaultKeys -> 0 .. MaxWraps \cup {None}]
    BY <1>1, <1>4, VaultAssumption DEF Database
  <1>12. db' \in Database /\ db'.active = db.active /\ db'.index = db.index /\ db'.blobs = db.blobs
    BY <1>1, <1>10, <1>11 DEF Database
  <1>13. UNCHANGED <<store, generated, wraps, acked>> BY DEF ReadForRotation
  <1>14. Readable' BY <1>12, <1>13, ReadableKept DEF VaultIInv
  <1> QED BY <1>9, <1>12, <1>13, <1>14, Types, WritingKeeps DEF VaultIInv

\* The record is added to the index that was read, which is the one there is.
LEMMA AppendRecordKeeps == ASSUME VaultIInv, NEW p \in Procs, AppendRecord(p) PROVE VaultIInv'
  <1> DEFINE k == proc[p].vmk
             c == proc[p].content
             before == db.index.records
             index == [key |-> k, nonce |-> proc[p].nonce, records |-> Append(before, c)]
             blobs == [db.blobs EXCEPT ![c] = IF c \in Objects(db.index) THEN @ ELSE k]
  <1>1. proc[p] \in Process /\ Holds(proc[p]) /\ db \in Database /\ k \in VaultKeys
    BY ProcessType DEF AppendRecord
  <1>2. proc[p].base = db.index /\ db.index \in Index /\ db.index.key = db.active
    BY <1>1 DEF AppendRecord, Unchanged, VaultIInv, Readable, AcknowledgedReadable, Database
  <1>3. k = db.active /\ Len(before) < MaxRecords /\ c \in Contents /\ proc[p].nonce \in Nonces
    BY <1>1, <1>2, VaultAssumption DEF AppendRecord, Holds, Capturing, Process, Nonces
  <1>4. before \in Seq(Contents) /\ Len(before) \in Nat BY <1>2, ObjectsType
  <1>5. index \in Index /\ index.key = k /\ index.records = Append(before, c)
    BY <1>1, <1>3, <1>4, ObjectsOfAppend DEF Index
  <1>6. blobs \in [Contents -> VaultKeys \cup {None}] BY <1>1, <1>3 DEF Database
  <1> HIDE DEF index, blobs
  <1>7. db' = [db EXCEPT !.active = k, !.index = index, !.blobs = blobs]
    BY <1>1, <1>2 DEF AppendRecord, index, blobs, Database
  <1>8. db' \in Database /\ db'.active = k /\ db'.index = index /\ db'.blobs = blobs
    BY <1>1, <1>5, <1>6, <1>7 DEF Database
  <1>9. acked' = acked \cup {<<Len(before) + 1, c>>} BY <1>2 DEF AppendRecord
  <1>10. acked \subseteq (1 .. MaxRecords) \X Contents BY Types DEF VaultIInv
  <1>11. acked' \subseteq (1 .. MaxRecords) \X Contents BY <1>3, <1>4, <1>9, <1>10, VaultAssumption
  <1>12. proc' = [proc EXCEPT ![p] = Ready(k)] BY DEF AppendRecord
  <1>13. Moves(p) BY <1>1, <1>12, ReadyHolds DEF Moves
  <1>14. Readable'
    <2>1. ASSUME NEW d \in Range(Append(before, c)) PROVE blobs[d] = k
      <3>1. d \in Range(before) \cup {c} BY <1>3, <1>4, <2>1, ObjectsOfAppend
      <3>2. CASE d \in Objects(db.index)
        <4>1. db.blobs[d] = db.active /\ d \in Contents
          BY <1>2, <3>2, ObjectsType DEF VaultIInv, Readable, AcknowledgedReadable
        <4> QED BY <1>1, <1>3, <3>2, <4>1 DEF blobs, Database
      <3>3. CASE d \notin Objects(db.index)
        <4>1. d = c BY <3>1, <3>3 DEF Objects
        <4> QED BY <1>1, <1>3, <3>3, <4>1 DEF blobs, Database
      <3> QED BY <3>2, <3>3
    <2>2. ASSUME NEW a \in acked'
          PROVE  a[1] \in DOMAIN Append(before, c) /\ Append(before, c)[a[1]] = a[2]
      <3>1. CASE a \in acked
        <4>1. a[1] \in DOMAIN before /\ before[a[1]] = a[2]
          BY <3>1 DEF VaultIInv, Readable, AcknowledgedReadable
        <4> QED BY <1>3, <1>4, <4>1, ObjectsOfAppend
      <3>2. CASE a = <<Len(before) + 1, c>>
        <4>1. Append(before, c)[Len(before) + 1] = c /\ Append(before, c) \in Seq(Contents)
              /\ Len(Append(before, c)) = Len(before) + 1
          BY <1>3, <1>4, ObjectsOfAppend
        <4>2. Len(before) + 1 \in DOMAIN Append(before, c) BY <1>4, <4>1
        <4> QED BY <3>2, <4>1, <4>2
      <3> QED BY <1>9, <3>1, <3>2
    <2>3. Len(index.records) <= MaxRecords
      BY <1>3, <1>4, <1>5, ObjectsOfAppend, VaultAssumption
    <2>4. db'.index.records = Append(before, c) /\ db'.index.key = db'.active
          /\ Objects(db'.index) = Range(Append(before, c)) /\ db'.blobs = blobs /\ db'.active = k
      BY <1>5, <1>8 DEF Objects
    <2> HIDE DEF before, c, k
    <2> QED BY <1>5, <1>8, <2>1, <2>2, <2>3, <2>4 DEF Readable, AcknowledgedReadable
  <1>15. UNCHANGED <<store, generated, wraps>> BY DEF AppendRecord
  <1> QED BY <1>8, <1>11, <1>13, <1>14, <1>15, Types, WritingKeeps DEF VaultIInv

\* Everything the index needs moves to the replacement at once.
LEMMA SwitchKeyKeeps == ASSUME VaultIInv, NEW p \in Procs, SwitchKey(p) PROVE VaultIInv'
  <1> DEFINE k == proc[p].new
             index == [key |-> k, nonce |-> proc[p].nonce, records |-> db.index.records]
             blobs == [c \in Contents |-> IF c \in Objects(db.index) THEN k ELSE db.blobs[c]]
  <1>1. proc[p] \in Process /\ Holds(proc[p]) /\ db \in Database BY ProcessType
  <1>2. proc[p].base = db.index /\ db.index \in Index
    BY <1>1 DEF SwitchKey, Unchanged, Database
  <1>3. k \in VaultKeys /\ proc[p].old \in VaultKeys /\ proc[p].nonce \in Nonces
    BY <1>1, VaultAssumption DEF SwitchKey, Holds, Replacing, Process, Nonces
  <1>4. index \in Index /\ index.key = k /\ index.records = db.index.records BY <1>2, <1>3 DEF Index
  <1>5. blobs \in [Contents -> VaultKeys \cup {None}] BY <1>1, <1>3 DEF Database
  <1>6. db' = [db EXCEPT !.active = k, !.index = index, !.blobs = blobs]
    BY <1>1, <1>2 DEF SwitchKey, Database
  <1>7. \A c \in Objects(db.index) : blobs[c] = k BY <1>2, ObjectsType
  <1> HIDE DEF index, blobs
  <1>8. db' \in Database /\ db'.active = k /\ db'.index = index /\ db'.blobs = blobs
    BY <1>1, <1>3, <1>4, <1>5, <1>6 DEF Database
  <1>9. UNCHANGED <<store, generated, wraps, acked>> BY DEF SwitchKey
  <1>10. Readable'
    BY <1>4, <1>7, <1>8, <1>9 DEF VaultIInv, Readable, AcknowledgedReadable, Objects
  <1>11. Moves(p)
    <2> DEFINE r == [proc[p] EXCEPT !.phase = "retire", !.vmk = k, !.victim = proc[p].old, !.base = None, !.nonce = 0]
    <2>1. CASE proc' = [proc EXCEPT ![p] = Ready(k)] BY <1>3, <2>1, ReadyHolds DEF Moves
    <2>2. CASE proc' = [proc EXCEPT ![p] = r]
      <3>1. 0 \in 0 .. MaxWraps BY VaultAssumption
      <3>2. /\ r \in Process /\ r.phase = "retire" /\ r.vmk = k /\ r.victim = proc[p].old
            /\ r.old = proc[p].old /\ r.new = k
        BY <1>1, <1>3, <3>1 DEF Process, Phases
      <3> HIDE DEF r
      <3>3. Holds(r) BY <1>3, <3>2, VaultAssumption DEF Holds, Capturing, Replacing, Retiring
      <3> QED BY <2>2, <3>2, <3>3 DEF Moves
    <2> QED BY <2>1, <2>2 DEF SwitchKey
  <1> QED BY <1>8, <1>9, <1>10, <1>11, Types, WritingKeeps DEF VaultIInv

-----------------------------------------------------------------------------
(* The theorems about Vault.                                               *)

LEMMA StepKeeps ==
  ASSUME VaultIInv, NEW p \in Procs, Lifetime(p) \/ Evidence(p) \/ Rotation(p)
  PROVE  VaultIInv'
  <1>1. CASE Lifetime(p)
    BY <1>1, UnlockKeeps, ReconcileKeeps, ResetKeeps DEF Lifetime
  <1>2. CASE Evidence(p)
    BY <1>2, CaptureKeeps, SealObjectKeeps, BoxIndexKeeps, AppendRecordKeeps, ResetKeeps, ExportKeeps DEF Evidence
  <1>3. CASE Rotation(p)
    BY <1>3, BeginRotationKeeps, ProvisionKeeps, ReadForRotationKeeps, RewrapObjectKeeps, RewrapIndexKeeps,
       SwitchKeyKeeps, RotationFailsKeeps, UndoKeeps, RetireKeeps, ResetKeeps, CompleteKeeps DEF Rotation
  <1> QED BY <1>1, <1>2, <1>3

LEMMA NewDatabaseType ==
  ASSUME NEW k \in VaultKeys, NEW n \in 0 .. MaxWraps
  PROVE  LET new == NewDatabase(k, n) IN
         /\ new \in Database /\ new.active = k /\ new.index.key = k /\ new.index.records = <<>>
         /\ new.intent = None /\ new.usage = [l \in VaultKeys |-> IF l = k THEN n ELSE None]
  <1>1. 1 \in Nonces BY VaultAssumption DEF Nonces
  <1>2. [key |-> k, nonce |-> 1, records |-> <<>>] \in Index BY <1>1 DEF Index
  <1>3. [l \in VaultKeys |-> IF l = k THEN n ELSE None] \in [VaultKeys -> 0 .. MaxWraps \cup {None}] OBVIOUS
  <1> QED BY <1>2, <1>3 DEF NewDatabase, Database

LEMMA NewDatabaseReadable ==
  ASSUME NEW k \in VaultKeys, NEW n \in 0 .. MaxWraps, db = NewDatabase(k, n), acked = {}
  PROVE  Readable
  <1>1. /\ db.active = k /\ db.index.key = k /\ db.index.records = <<>> BY NewDatabaseType
  <1>2. Objects(db.index) = {} BY <1>1 DEF Objects, Range
  <1> QED BY <1>1, <1>2, VaultAssumption DEF Readable, AcknowledgedReadable

LEMMA StartsSound == ASSUME Unopened, store \subseteq VaultKeys PROVE VaultIInv /\ Counted
  <1>1. FirstKey \in VaultKeys /\ 1 \in 0 .. MaxWraps BY VaultAssumption
  <1>2. db = NewDatabase(FirstKey, 1) /\ acked = {} BY DEF Unopened
  <1>3. db \in Database /\ db.usage = [l \in VaultKeys |-> IF l = FirstKey THEN 1 ELSE None]
    BY <1>1, <1>2, NewDatabaseType
  <1>4. proc \in [Procs -> Process] /\ Holding BY ClosedHolds DEF Unopened, Holding
  <1>5. wraps \in [VaultKeys -> [Nonces -> Nat]] /\ generated \subseteq VaultKeys BY <1>1 DEF Unopened
  <1>6. TypeOK BY <1>2, <1>3, <1>4, <1>5, Types
  <1>7. Readable BY <1>1, <1>2, NewDatabaseReadable
  <1>8. Counted
    <2> SUFFICES ASSUME NEW k \in VaultKeys, NEW n \in Nonces
                 PROVE  wraps[k][n] = IF Spent(k, n) THEN 1 ELSE 0
      BY DEF Counted
    <2>1. wraps[k][n] = IF k = FirstKey /\ n = 1 THEN 1 ELSE 0 BY DEF Unopened
    <2>2. n \in Nat \ {0} BY DEF Nonces
    <2>3. Spent(k, n) <=> k = FirstKey /\ n = 1 BY <1>1, <1>3, <2>2, VaultNoneAssumption DEF Spent
    <2> QED BY <2>1, <2>3
  <1> QED BY <1>4, <1>6, <1>7, <1>8 DEF VaultIInv

\* Nothing but a reservation touches a counter in use or a nonce.
LEMMA StepCounts ==
  ASSUME VaultIInv, Counted, NEW p \in Procs, Lifetime(p) \/ Evidence(p) \/ Rotation(p)
  PROVE  Counted'
  <1>1. ASSUME db'.usage = db.usage, wraps' = wraps PROVE Counted' BY <1>1 DEF Counted, Spent
  <1>2. ASSUME NEW k \in VaultKeys, Reserve(k) PROVE Counted' BY <1>2, CountedReserve DEF VaultIInv
  <1>3. proc[p] \in Process /\ Holds(proc[p]) /\ db \in Database
        /\ (proc[p].phase # "closed" => proc[p].vmk \in VaultKeys)
    BY ProcessType
  <1>4. CASE Lifetime(p) BY <1>1, <1>4 DEF Lifetime, Unlock, ReconcileKeyRetirements, Lock, Crash
  <1>5. CASE Evidence(p)
    <2>1. ASSUME NEW c \in Contents, Capture(p, c) PROVE Counted' BY <1>1, <2>1 DEF Capture
    <2>2. CASE SealObject(p) BY <1>2, <1>3, <2>2 DEF SealObject
    <2>3. CASE BoxIndex(p) BY <1>2, <1>3, <2>3 DEF BoxIndex
    <2>4. CASE AppendRecord(p)
      <3>1. db'.usage = db.usage /\ wraps' = wraps BY <1>3, <2>4 DEF AppendRecord, Database
      <3> QED BY <1>1, <3>1
    <2>5. CASE CaptureFails(p) BY <1>1, <2>5 DEF CaptureFails
    <2>6. CASE ExportRecovery(p) BY <1>2, <1>3, <2>6 DEF ExportRecovery
    <2> QED BY <1>5, <2>1, <2>2, <2>3, <2>4, <2>5, <2>6 DEF Evidence
  <1>6. CASE Rotation(p)
    <2>1. ASSUME NEW k \in VaultKeys, BeginRotation(p, k) PROVE Counted'
      <3>1. db'.usage = db.usage /\ wraps' = wraps BY <1>3, <2>1 DEF BeginRotation, Database
      <3> QED BY <1>1, <3>1
    <2>2. CASE Provision(p) BY <1>1, <2>2 DEF Provision
    <2>3. CASE ReadForRotation(p)
      <3>1. proc[p].new \in VaultKeys /\ db.usage[proc[p].new] = None
        BY <1>3, <2>3 DEF Process, Holds, Replacing, ReadForRotation
      <3>2. db'.usage = [db.usage EXCEPT ![proc[p].new] = 0] /\ wraps' = wraps
        BY <1>3, <2>3 DEF ReadForRotation, Database
      <3>3. ASSUME NEW k \in VaultKeys, NEW n \in Nonces
            PROVE  db'.usage[k] # None /\ n <= db'.usage[k] <=> db.usage[k] # None /\ n <= db.usage[k]
        <4>1. ~(n <= 0) /\ db.usage \in [VaultKeys -> 0 .. MaxWraps \cup {None}]
          BY <1>3 DEF Nonces, Database
        <4> QED BY <3>1, <3>2, <4>1
      <3> QED BY <3>2, <3>3 DEF Counted, Spent
    <2>4. CASE RewrapObject(p) \/ RewrapIndex(p)
      <3>1. proc[p].new \in VaultKeys BY <1>3, <2>4 DEF Process, Holds, Replacing, RewrapObject, RewrapIndex
      <3> QED BY <1>2, <2>4, <3>1 DEF RewrapObject, RewrapIndex
    <2>5. CASE SwitchKey(p) \/ CompleteKeyRetirement(p)
      <3>1. db'.usage = db.usage /\ wraps' = wraps
        BY <1>3, <2>5 DEF SwitchKey, CompleteKeyRetirement, Database
      <3> QED BY <1>1, <3>1
    <2>6. CASE RotationFails(p) \/ UndoRotation(p) \/ Retire(p) \/ RetireFails(p)
      BY <1>1, <2>6 DEF RotationFails, UndoRotation, Retire, RetireFails
    <2> QED BY <1>6, <2>1, <2>2, <2>3, <2>4, <2>5, <2>6 DEF Rotation
  <1> QED BY <1>4, <1>5, <1>6

LEMMA VaultAlways == Spec => [](VaultIInv /\ Counted)
  <1>1. Init => VaultIInv /\ Counted
    <2> SUFFICES ASSUME Init PROVE VaultIInv /\ Counted OBVIOUS
    <2>1. store \subseteq VaultKeys BY VaultAssumption DEF Init
    <2> QED BY <2>1, StartsSound DEF Init
  <1>2. VaultIInv /\ Counted /\ [Next]_vars => (VaultIInv /\ Counted)'
    <2> SUFFICES ASSUME VaultIInv, Counted, [Next]_vars PROVE VaultIInv' /\ Counted' OBVIOUS
    <2>1. CASE Next
      <3>1. PICK p \in Procs : Lifetime(p) \/ Evidence(p) \/ Rotation(p) BY <2>1 DEF Next
      <3> QED BY <3>1, StepKeeps, StepCounts
    <2>2. CASE UNCHANGED vars
      BY <2>2 DEF vars, VaultIInv, TypeOK, Holding, Readable, AcknowledgedReadable, Counted, Spent
    <2> QED BY <2>1, <2>2
  <1> QED BY <1>1, <1>2, PTL DEF Spec

\* No key encrypts twice with one nonce: the counter is committed before the key is used, so no
\* process, crash or failed commit finds it behind (nonce).
THEOREM NoncesUsedOnce == Spec => []NonceUnique
  <1>1. VaultIInv /\ Counted => NonceUnique BY DEF NonceUnique, Counted
  <1> QED BY <1>1, VaultAlways, PTL

\* Whatever writers and rotations overlap, what was acknowledged stays at its place and the key of
\* the header reads all the index needs (commit, rotate).
THEOREM AcknowledgedStays == Spec => []AcknowledgedReadable
  <1>1. VaultIInv => AcknowledgedReadable BY DEF VaultIInv, Readable
  <1> QED BY <1>1, VaultAlways, PTL

(***************************************************************************)
(* One process: no rotation loses the key its vault is opened with.        *)
(***************************************************************************)

Alone == \A p, q \in Procs : p = q

\* The items a vault needs or a pending retirement speaks for.
Drawn == {db.active} \cup Named(db.intent)

\* What a process does with keys is the business of the intent d.intent: the key it rotates to is
\* the replacement, and the one it deletes is not the one the header of d selects.
Rotates(r, d, items) ==
  /\ r.phase # "closed" => r.vmk = d.active
  /\ r.phase \in Replacing => /\ d.intent # None /\ r.old = d.active
                              /\ r.old = d.intent.retired /\ r.new = d.intent.replacement
  /\ r.phase \in Replacing \ {"provision"} => r.new \in items
  /\ r.phase = "undo" => r.old = d.active /\ r.old # r.new
  /\ r.phase \in Retiring => /\ r.old # r.new /\ d.active \in {r.old, r.new}
                             /\ r.victim \in {r.old, r.new} \ {d.active}
  /\ r.phase = "forget" => r.victim \notin items
Rotating == \A p \in Procs : Rotates(proc[p], db, store)

Pending == db.intent # None => db.active \in Named(db.intent) /\ db.intent.retired # db.intent.replacement

OneInv ==
  /\ db.active \in store /\ Pending /\ Rotating
  /\ Drawn \subseteq generated /\ store \subseteq Drawn \cup orphans

LEMMA ClosedRotates == \A d, items : Rotates(Closed, d, items)
  BY ClosedHolds DEF Rotates, Replacing, Retiring

LEMMA ReadyRotates ==
  ASSUME NEW d, NEW items, d.active \in VaultKeys
  PROVE  Rotates(Ready(d.active), d, items)
  BY ReadyHolds DEF Rotates, Replacing, Retiring

\* A step that touches neither key is sound once its process is where it should be.
LEMMA QuietKeeps ==
  ASSUME OneInv, Alone, NEW p \in Procs, db'.active = db.active, db'.intent = db.intent, store' = store,
         generated \subseteq generated', orphans' = orphans, Rotates(proc'[p], db, store)
  PROVE  OneInv'
  <1>1. ASSUME NEW q \in Procs PROVE Rotates(proc'[q], db', store')
    <2>1. q = p BY DEF Alone
    <2> QED BY <2>1 DEF Rotates
  <1>2. Drawn' = Drawn BY DEF Drawn, Named
  <1> QED BY <1>1, <1>2 DEF OneInv, Rotating, Pending, Named

LEMMA OneType ==
  ASSUME VaultIInv, OneInv, NEW p \in Procs
  PROVE  /\ proc \in [Procs -> Process] /\ proc[p] \in Process /\ Holds(proc[p]) /\ Rotates(proc[p], db, store)
         /\ db \in Database /\ db.active \in VaultKeys /\ db.active # None
         /\ store \subseteq VaultKeys /\ generated \subseteq VaultKeys
  <1>1. db \in Database /\ proc \in [Procs -> Process] /\ proc[p] \in Process /\ Holds(proc[p])
        /\ store \subseteq VaultKeys /\ generated \subseteq VaultKeys
    BY ProcessType, Types DEF VaultIInv
  <1> QED BY <1>1, VaultAssumption DEF OneInv, Rotating, Database

LEMMA LifetimeAlone ==
  ASSUME VaultIInv, OneInv, Alone, NEW p \in Procs, Lifetime(p), orphans' = orphans
  PROVE  OneInv'
  <1>1. proc \in [Procs -> Process] /\ proc[p] \in Process /\ Rotates(proc[p], db, store) /\ db \in Database
        /\ db.active \in VaultKeys
    BY OneType
  <1>2. db' = db /\ store' = store /\ generated' = generated
    BY DEF Lifetime, Unlock, ReconcileKeyRetirements, Lock, Crash
  <1>3. Rotates(Ready(db.active), db, store) /\ Rotates(Closed, db, store) BY <1>1, ReadyRotates, ClosedRotates
  <1> SUFFICES Rotates(proc'[p], db, store) BY <1>2, QuietKeeps
  <1>4. CASE Unlock(p)
    <2>1. proc'[p] = [Closed EXCEPT !.phase = "opened", !.vmk = db.active] BY <1>1, <1>4 DEF Unlock
    <2>2. proc'[p].phase = "opened" /\ proc'[p].vmk = db.active BY <2>1, ClosedHolds DEF Process
    <2> QED BY <2>2 DEF Rotates, Replacing, Retiring
  <1>5. CASE Lock(p) \/ Crash(p)
    <2>1. proc'[p] = Closed BY <1>1, <1>5 DEF Lock, Crash
    <2> QED BY <1>3, <2>1
  <1>6. CASE ReconcileKeyRetirements(p)
    <2>1. proc[p].vmk = db.active BY <1>1, <1>6 DEF ReconcileKeyRetirements, Rotates
    <2>2. CASE db.intent = None
      <3>1. proc'[p] = Ready(db.active) BY <1>1, <1>6, <2>1, <2>2 DEF ReconcileKeyRetirements
      <3> QED BY <1>3, <3>1
    <2>3. CASE db.intent # None
      <3>1. /\ db.active \in {db.intent.retired, db.intent.replacement}
            /\ db.intent.retired # db.intent.replacement
        BY <2>3 DEF OneInv, Pending, Named
      <3>2. proc'[p] = [proc[p] EXCEPT !.phase = "retire", !.victim = Obsolete(db.intent),
                                       !.old = db.intent.retired, !.new = db.intent.replacement]
        BY <1>1, <1>6, <2>3, <3>1 DEF ReconcileKeyRetirements
      <3>3. /\ proc'[p].phase = "retire" /\ proc'[p].victim = Obsolete(db.intent) /\ proc'[p].vmk = db.active
            /\ proc'[p].old = db.intent.retired /\ proc'[p].new = db.intent.replacement
        BY <1>1, <2>1, <3>2 DEF Process
      <3>4. Obsolete(db.intent) \in {db.intent.retired, db.intent.replacement} \ {db.active}
        BY <3>1 DEF Obsolete
      <3> QED BY <3>1, <3>3, <3>4 DEF Rotates, Replacing, Retiring
    <2> QED BY <2>2, <2>3
  <1> QED BY <1>4, <1>5, <1>6 DEF Lifetime

\* A process keeps its key, and is at none of the places of a rotation.
LEMMA WorkingRotates ==
  ASSUME NEW r, r.phase \in Capturing \cup {"ready"}, r.vmk = db.active
  PROVE  Rotates(r, db, store)
  BY DEF Rotates, Capturing, Replacing, Retiring

LEMMA EvidenceAlone ==
  ASSUME VaultIInv, OneInv, Alone, NEW p \in Procs, Evidence(p), orphans' = orphans
  PROVE  OneInv'
  <1>1. proc \in [Procs -> Process] /\ proc[p] \in Process /\ Rotates(proc[p], db, store) /\ db \in Database
        /\ db.active \in VaultKeys
    BY OneType
  <1>2. proc[p].phase \in Capturing \cup {"ready"}
    BY DEF Evidence, Capture, SealObject, BoxIndex, AppendRecord, CaptureFails, ExportRecovery, Capturing
  <1>3. proc[p].vmk = db.active BY <1>1, <1>2 DEF Rotates, Capturing
  <1>4. store' = store /\ generated' = generated
    BY DEF Evidence, Capture, SealObject, BoxIndex, AppendRecord, CaptureFails, ExportRecovery
  <1>5. db'.active = db.active /\ db'.intent = db.intent
    <2>1. ASSUME NEW k, Reserve(k) PROVE db'.active = db.active /\ db'.intent = db.intent
      BY <1>1, <2>1 DEF Reserve, Database
    <2>2. CASE AppendRecord(p) BY <1>1, <1>3, <2>2 DEF AppendRecord, Database
    <2>3. CASE (\E c \in Contents : Capture(p, c)) \/ CaptureFails(p) BY <2>3 DEF Capture, CaptureFails
    <2>4. CASE SealObject(p) \/ BoxIndex(p) \/ ExportRecovery(p)
      BY <2>1, <2>4 DEF SealObject, BoxIndex, ExportRecovery
    <2> QED BY <2>2, <2>3, <2>4 DEF Evidence
  <1>6. Rotates(Ready(db.active), db, store) BY <1>1, ReadyRotates
  <1> SUFFICES Rotates(proc'[p], db, store) BY <1>4, <1>5, QuietKeeps
  <1>7. ASSUME NEW c \in Contents, Capture(p, c) PROVE Rotates(proc'[p], db, store)
    <2>1. proc'[p].phase \in {"box", "seal"} /\ proc'[p].vmk = proc[p].vmk BY <1>1, <1>7 DEF Capture, Process
    <2> QED BY <1>3, <2>1, WorkingRotates DEF Capturing
  <1>8. CASE SealObject(p) \/ BoxIndex(p)
    <2>1. proc'[p].phase \in {"box", "append"} /\ proc'[p].vmk = proc[p].vmk
      BY <1>1, <1>8 DEF SealObject, BoxIndex, Process
    <2> QED BY <1>3, <2>1, WorkingRotates DEF Capturing
  <1>9. CASE AppendRecord(p) \/ CaptureFails(p)
    <2>1. proc'[p] = Ready(db.active) BY <1>1, <1>3, <1>9 DEF AppendRecord, CaptureFails
    <2> QED BY <1>6, <2>1
  <1>10. CASE ExportRecovery(p) BY <1>1, <1>10 DEF ExportRecovery
  <1> QED BY <1>7, <1>8, <1>9, <1>10 DEF Evidence

LEMMA RotationAlone ==
  ASSUME VaultIInv, OneInv, Alone, NEW p \in Procs, Rotation(p), orphans' = orphans
  PROVE  OneInv'
  <1>1. proc \in [Procs -> Process] /\ proc[p] \in Process /\ Rotates(proc[p], db, store) /\ db \in Database
        /\ db.active \in VaultKeys
    BY OneType
  <1>2. Rotates(Ready(db.active), db, store) BY <1>1, ReadyRotates
  <1>3. ASSUME Rotates(proc'[p], db', store') PROVE Rotating'
    <2>1. \A q \in Procs : q = p BY DEF Alone
    <2> QED BY <1>3, <2>1 DEF Rotating
  <1>4. ASSUME NEW k \in VaultKeys, BeginRotation(p, k) PROVE OneInv'
    <2>1. k # db.active /\ k \notin generated /\ generated' = generated \cup {k} /\ store' = store
      BY <1>4 DEF BeginRotation, OneInv, Drawn
    <2>2. proc[p].vmk = db.active BY <1>1, <1>4 DEF BeginRotation, Rotates
    <2>3. CASE /\ Settled /\ db' = [db EXCEPT !.intent = [retired |-> db.active, replacement |-> k]]
               /\ proc' = [proc EXCEPT ![p].phase = "provision", ![p].old = db.active, ![p].new = k]
      <3>1. [retired |-> db.active, replacement |-> k] \in Intent BY <1>1 DEF Intent
      <3>2. /\ db'.active = db.active /\ db'.intent # None
            /\ db'.intent.retired = db.active /\ db'.intent.replacement = k
        BY <1>1, <2>3, <3>1, VaultNoneAssumption DEF Database
      <3>3. /\ proc'[p].phase = "provision" /\ proc'[p].old = db.active /\ proc'[p].new = k
            /\ proc'[p].vmk = db.active
        BY <1>1, <2>2, <2>3 DEF Process
      <3>4. Rotating' BY <1>3, <3>2, <3>3 DEF Rotates, Replacing, Retiring
      <3>5. Pending' BY <2>1, <3>2 DEF Pending, Named
      <3>6. Drawn' = Drawn \cup {k} /\ Drawn = {db.active}
        BY <2>3, <3>2 DEF Drawn, Named, Settled
      <3> QED BY <2>1, <3>2, <3>4, <3>5, <3>6 DEF OneInv
    <2>4. CASE db' = db /\ proc' = [proc EXCEPT ![p].phase = "undo", ![p].old = db.active, ![p].new = k]
      <3>1. /\ proc'[p].phase = "undo" /\ proc'[p].old = db.active /\ proc'[p].new = k
            /\ proc'[p].vmk = db.active
        BY <1>1, <2>2, <2>4 DEF Process
      <3>2. Rotates(proc'[p], db, store) BY <2>1, <3>1 DEF Rotates, Replacing, Retiring
      <3> QED BY <2>1, <2>4, <3>2, QuietKeeps
    <2> QED BY <1>4, <2>3, <2>4 DEF BeginRotation
  <1>5. CASE Provision(p)
    <2>1. /\ proc'[p].phase = "provisioned" /\ proc'[p].old = proc[p].old /\ proc'[p].new = proc[p].new
          /\ proc'[p].vmk = proc[p].vmk /\ store' = store \cup {proc[p].new} /\ db' = db /\ generated' = generated
      BY <1>1, <1>5 DEF Provision, Process
    <2>2. Rotates(proc'[p], db', store') BY <1>1, <1>5, <2>1 DEF Provision, Rotates, Replacing, Retiring
    <2>3. db.intent # None /\ proc[p].new = db.intent.replacement BY <1>1, <1>5 DEF Provision, Rotates, Replacing
    <2>4. proc[p].new \in Drawn /\ Drawn' = Drawn /\ Pending' BY <2>1, <2>3 DEF Drawn, Named, OneInv, Pending
    <2> QED BY <1>3, <2>1, <2>2, <2>4 DEF OneInv
  <1>6. CASE ReadForRotation(p) \/ RewrapObject(p) \/ RewrapIndex(p)
    <2>1. db'.active = db.active /\ db'.intent = db.intent /\ store' = store /\ generated' = generated
      <3>1. ASSUME NEW k, Reserve(k) PROVE db'.active = db.active /\ db'.intent = db.intent
        BY <1>1, <3>1 DEF Reserve, Database
      <3> QED BY <1>1, <1>6, <3>1 DEF ReadForRotation, RewrapObject, RewrapIndex, Database
    <2>2. /\ proc[p].phase \in Replacing \ {"provision"} /\ proc'[p].phase \in Replacing \ {"provision"}
          /\ proc'[p].old = proc[p].old /\ proc'[p].new = proc[p].new /\ proc'[p].vmk = proc[p].vmk
      <3>1. CASE ReadForRotation(p) BY <1>1, <3>1 DEF ReadForRotation, Process, Replacing
      <3>2. CASE RewrapObject(p)
        <4>1. PICK c \in proc[p].todo : proc' = [proc EXCEPT ![p].todo = @ \ {c}] BY <3>2 DEF RewrapObject
        <4> QED BY <1>1, <3>2, <4>1 DEF RewrapObject, Process, Replacing
      <3>3. CASE RewrapIndex(p) BY <1>1, <3>3 DEF RewrapIndex, Process, Replacing
      <3> QED BY <1>6, <3>1, <3>2, <3>3
    <2>3. Rotates(proc'[p], db, store) BY <1>1, <2>2 DEF Rotates, Replacing, Retiring
    <2> QED BY <2>1, <2>3, QuietKeeps
  <1>7. CASE SwitchKey(p)
    <2> DEFINE k == proc[p].new
    <2>1. /\ db.intent # None /\ proc[p].old = db.active /\ proc[p].old = db.intent.retired
          /\ k = db.intent.replacement /\ k \in store
      BY <1>1, <1>7 DEF SwitchKey, Rotates, Replacing
    <2>2. k # db.active /\ k \in VaultKeys BY <2>1, OneType DEF OneInv, Pending
    <2>3. db'.active = k /\ db'.intent = db.intent /\ store' = store /\ generated' = generated
      BY <1>1, <1>7 DEF SwitchKey, Database
    <2>4. Rotates(proc'[p], db', store')
      <3>1. CASE proc' = [proc EXCEPT ![p] = Ready(k)]
        <4>1. proc'[p] = Ready(db'.active) BY <1>1, <2>3, <3>1
        <4>2. Rotates(Ready(db'.active), db', store') BY <2>2, <2>3, ReadyRotates
        <4> QED BY <4>1, <4>2
      <3>2. CASE proc' = [proc EXCEPT ![p] = [proc[p] EXCEPT !.phase = "retire", !.vmk = k,
                                              !.victim = proc[p].old, !.base = None, !.nonce = 0]]
        <4>1. /\ proc'[p].phase = "retire" /\ proc'[p].vmk = k /\ proc'[p].victim = proc[p].old
              /\ proc'[p].old = proc[p].old /\ proc'[p].new = k
          BY <1>1, <3>2 DEF Process
        <4> QED BY <2>1, <2>2, <2>3, <4>1 DEF Rotates, Replacing, Retiring
      <3> QED BY <1>7, <3>1, <3>2 DEF SwitchKey
    <2>5. Drawn' = Drawn /\ Pending' BY <2>1, <2>3 DEF Drawn, Named, OneInv, Pending
    <2> QED BY <1>3, <2>1, <2>3, <2>4, <2>5 DEF OneInv
  <1>8. CASE RotationFails(p)
    <2>1. /\ proc'[p].phase = "undo" /\ proc'[p].old = proc[p].old /\ proc'[p].new = proc[p].new
          /\ proc'[p].vmk = proc[p].vmk
      BY <1>1, <1>8 DEF RotationFails, Process
    <2>2. /\ proc[p].vmk = db.active /\ proc[p].old = db.active /\ proc[p].old # proc[p].new
      BY <1>1, <1>8 DEF RotationFails, Rotates, Replacing, OneInv, Pending
    <2>3. Rotates(proc'[p], db, store) BY <2>1, <2>2 DEF Rotates, Replacing, Retiring
    <2> QED BY <1>8, <2>3, QuietKeeps DEF RotationFails
  <1>9. CASE UndoRotation(p)
    <2>1. proc[p].old = db.active /\ proc[p].old # proc[p].new /\ proc[p].vmk = db.active
      BY <1>1, <1>9 DEF UndoRotation, Rotates
    <2>2. proc' = [proc EXCEPT ![p] = [proc[p] EXCEPT !.phase = "retire", !.victim = proc[p].new]]
      BY <1>9, <2>1 DEF UndoRotation
    <2>3. /\ proc'[p].phase = "retire" /\ proc'[p].vmk = db.active /\ proc'[p].victim = proc[p].new
          /\ proc'[p].old = proc[p].old /\ proc'[p].new = proc[p].new
      BY <1>1, <2>1, <2>2 DEF Process
    <2>4. Rotates(proc'[p], db, store) BY <2>1, <2>3 DEF Rotates, Replacing, Retiring
    <2> QED BY <1>9, <2>4, QuietKeeps DEF UndoRotation
  <1>10. CASE Retire(p)
    <2>1. /\ proc'[p].phase = "forget" /\ proc'[p].old = proc[p].old /\ proc'[p].new = proc[p].new
          /\ proc'[p].vmk = proc[p].vmk /\ proc'[p].victim = proc[p].victim
          /\ store' = store \ {proc[p].victim} /\ db' = db /\ generated' = generated
      BY <1>1, <1>10 DEF Retire, Process
    <2>2. Rotates(proc'[p], db', store') /\ proc[p].victim # db.active
      BY <1>1, <1>10, <2>1 DEF Retire, Rotates, Replacing, Retiring
    <2>3. Drawn' = Drawn /\ Pending' BY <2>1 DEF Drawn, OneInv, Pending
    <2> QED BY <1>3, <2>1, <2>2, <2>3 DEF OneInv
  <1>11. CASE RetireFails(p)
    <2>1. proc[p].vmk = db.active BY <1>1, <1>11 DEF RetireFails, Rotates
    <2>2. proc'[p] = Ready(db.active) BY <1>1, <1>11, <2>1 DEF RetireFails
    <2> QED BY <1>2, <1>11, <2>2, QuietKeeps DEF RetireFails
  <1>12. CASE CompleteKeyRetirement(p)
    <2> DEFINE own == [retired |-> proc[p].old, replacement |-> proc[p].new]
    <2>1. /\ proc[p].vmk = db.active /\ proc[p].victim \notin store
          /\ db.active \in {proc[p].old, proc[p].new} /\ proc[p].victim \in {proc[p].old, proc[p].new} \ {db.active}
      BY <1>1, <1>12 DEF CompleteKeyRetirement, Rotates, Retiring
    <2>2. proc'[p] = Ready(db.active) /\ store' = store /\ generated' = generated
      BY <1>1, <1>12, <2>1 DEF CompleteKeyRetirement
    <2>3. CASE db.intent # own
      <3>1. db' = [db EXCEPT !.intent = db.intent] BY <1>12, <2>3 DEF CompleteKeyRetirement
      <3>2. db'.active = db.active /\ db'.intent = db.intent BY <1>1, <3>1 DEF Database
      <3> QED BY <1>2, <2>2, <3>2, QuietKeeps
    <2>4. CASE db.intent = own
      <3>1. db' = [db EXCEPT !.intent = None] BY <1>12, <2>4 DEF CompleteKeyRetirement
      <3>2. db'.active = db.active /\ db'.intent = None BY <1>1, <3>1 DEF Database
      <3>3. own # None
        <4>1. proc[p].old \in VaultKeys /\ proc[p].new \in VaultKeys
          BY <1>12, OneType DEF CompleteKeyRetirement, Holds, Process, Retiring
        <4> QED BY <4>1, VaultNoneAssumption DEF Intent
      <3>4. Drawn = {db.active, proc[p].victim} BY <2>1, <2>4, <3>3 DEF Drawn, Named
      <3>5. Drawn' = {db.active} BY <3>2 DEF Drawn, Named
      <3>6. Rotates(Ready(db'.active), db', store') BY <1>1, <3>2, ReadyRotates
      <3>7. Rotating' BY <1>3, <2>2, <3>2, <3>6
      <3>8. Pending' BY <3>2 DEF Pending
      <3> QED BY <2>1, <2>2, <3>2, <3>4, <3>5, <3>7, <3>8 DEF OneInv
    <2> QED BY <2>3, <2>4
  <1> QED BY <1>4, <1>5, <1>6, <1>7, <1>8, <1>9, <1>10, <1>11, <1>12 DEF Rotation

(***************************************************************************)
(* Founding: how the vault came into custody.                              *)
(***************************************************************************)

Beginning == {"master", "signer"}
Dropping == {"drop signer", "drop master"}
Importing == {"import", "seal", "commit", "doubt"}

Placed ==
  /\ stage \in Stages /\ vault \in VaultKeys \cup {None} /\ signers \subseteq VaultKeys
  /\ call \in Calls \cup {None}
  /\ kept \in VaultKeys \cup {None} /\ orphans \subseteq VaultKeys

\* A vault given to a caller opens; before that nothing was acknowledged and no key was rotated.
Given ==
  /\ kept # None => kept = vault /\ stage = "indexed" /\ db.active \in store /\ vault \in signers
  /\ kept = None => db.intent = None /\ acked = {} /\ \A p \in Procs : proc[p] = Closed
  /\ stage # "absent" => vault # None
  /\ Pending /\ Rotating
  /\ Drawn \subseteq generated /\ vault \in generated \cup {None}

InUse == IF kept = None THEN {} ELSE Drawn
UnderWay == IF call = None THEN {} ELSE {call.key}
Items ==
  /\ store \subseteq InUse \cup UnderWay \cup orphans
  /\ signers \subseteq ({kept} \ {None}) \cup UnderWay \cup orphans

\* What a call knows at each of its steps: its own items are stored, and a call beside a vault
\* already given has keys of its own and goes no further than the directory it does not find new.
Founded ==
  /\ \A q \in Procs : proc[q] = Closed
  /\ call.step = "signer" => call.key \in store
  /\ call.step \notin Beginning \cup Dropping => call.key \in store /\ call.key \in signers
  /\ call.step = "drop master" => call.key \notin signers \/ call.key \in orphans
  /\ Len(call.records) <= MaxRecords /\ call.key \in generated
  /\ call.step = "commit" => call.nonce # 0
  /\ kept # None => /\ call.kind # "adopt" /\ call.key \notin Drawn \cup {vault}
                    /\ call.step \in Beginning \cup Dropping \cup {"make"}
Adopts ==
  /\ stage = "indexed" /\ call.key = vault /\ call.key = db.active /\ call.records = db.index.records
  /\ call.step \in Beginning \cup Dropping \cup {"reopen"}
Makes ==
  /\ call.records \in Recovered /\ call.step # "reopen"
  /\ call.step \notin Beginning \cup Dropping \cup {"make"} => vault = call.key
  /\ call.step \in {"seal first", "index", "check"} \cup Importing => db.active = call.key
  /\ call.step \in {"seal first", "index", "check", "import", "seal", "commit"} => db.index.records = <<>>
  /\ call.step = "doubt" => db.index.records \in {<<>>, call.records}
  /\ call.step \in {"check"} \cup Importing => stage = "indexed"
  /\ call.kind = "create" => call.records = <<>> /\ call.step \notin Importing

CallSound == call # None => Founded /\ (IF call.kind = "adopt" THEN Adopts ELSE Makes)

CustodyIInv == VaultIInv /\ Placed /\ Given /\ Items /\ CallSound

-----------------------------------------------------------------------------
(* Shapes.                                                                 *)

LEMMA RecoveredType ==
  /\ <<>> \in Recovered
  /\ \A r \in Recovered : r \in Seq(Contents) /\ Len(r) <= MaxRecords /\ Range(r) \subseteq Contents
  <1>1. <<>> \in [1 .. 0 -> Contents] OBVIOUS
  <1>2. 0 \in 0 .. 1 OBVIOUS
  <1>3. <<>> \in Recovered BY <1>1, <1>2 DEF Recovered
  <1>4. ASSUME NEW r \in Recovered PROVE r \in Seq(Contents) /\ Len(r) <= MaxRecords /\ Range(r) \subseteq Contents
    <2>1. PICK n \in 0 .. 1 : r \in [1 .. n -> Contents] BY DEF Recovered
    <2>2. r \in Seq(Contents) /\ Len(r) = n BY <2>1
    <2>3. n <= MaxRecords BY <2>1, VaultAssumption
    <2> QED BY <2>1, <2>2, <2>3 DEF Range
  <1> QED BY <1>3, <1>4

LEMMA CallType ==
  ASSUME NEW kind \in {"create", "restore", "adopt"}, NEW p \in Procs, NEW k \in VaultKeys,
         NEW records \in Seq(Contents)
  PROVE  LET new == Call(kind, p, k, records) IN
         /\ new \in Calls /\ new # None /\ new.kind = kind /\ new.by = p /\ new.key = k
         /\ new.records = records /\ new.step = "master" /\ new.nonce = 0
  <1>1. 0 \in 0 .. MaxWraps BY VaultAssumption
  <1>2. Call(kind, p, k, records) \in Calls BY <1>1 DEF Call, Calls, Steps
  <1> QED BY <1>2, FoundingAssumption DEF Call

LEMMA GoesType ==
  ASSUME call \in Calls, NEW step \in Steps, Goes(step)
  PROVE  /\ call' \in Calls /\ call' # None /\ call'.step = step /\ call'.kind = call.kind
         /\ call'.by = call.by /\ call'.key = call.key /\ call'.records = call.records
         /\ call'.nonce = call.nonce
  <1>1. call' \in Calls BY DEF Goes, Calls
  <1> QED BY <1>1, FoundingAssumption DEF Goes, Calls

\* What is true of a call under way.
LEMMA CallFacts ==
  ASSUME CustodyIInv, call # None
  PROVE  /\ call \in Calls /\ call.key \in VaultKeys /\ call.by \in Procs /\ call.step \in Steps
         /\ call.records \in Seq(Contents) /\ call.kind \in {"create", "restore", "adopt"}
         /\ Founded /\ (IF call.kind = "adopt" THEN Adopts ELSE Makes)
         /\ db \in Database /\ store \subseteq VaultKeys /\ generated \subseteq VaultKeys
  BY Types DEF CustodyIInv, Placed, CallSound, Calls, VaultIInv

-----------------------------------------------------------------------------
(* Frames.                                                                 *)

LEMMA VaultFrame ==
  ASSUME VaultIInv, store' \subseteq VaultKeys, generated' \subseteq VaultKeys, UNCHANGED <<db, proc, wraps, acked>>
  PROVE  VaultIInv'
  BY DEF VaultIInv, TypeOK, Holding, Readable, AcknowledgedReadable

LEMMA ClosedRotating ==
  ASSUME \A p \in Procs : proc'[p] = Closed
  PROVE  Rotating'
  BY ClosedRotates DEF Rotating

\* A call under way changes its own items, and the directory only when nobody was given a vault.
LEMMA GivenFrame ==
  ASSUME CustodyIInv, call # None, UNCHANGED <<kept, acked, proc>>, generated' = generated,
         db'.intent = db.intent, Drawn' \subseteq generated,
         vault' \in generated \cup {None}, stage' # "absent" => vault' # None,
         kept # None => /\ UNCHANGED <<vault, stage, db>>
                        /\ \A k \in VaultKeys : k # call.key => (k \in store => k \in store') /\ (k \in signers => k \in signers')
  PROVE  Given'
  <1>1. Rotating' BY ClosedRotating DEF CustodyIInv, CallSound, Founded
  <1>2. Pending'
    <2>1. CASE kept = None BY <2>1 DEF CustodyIInv, Given, Pending
    <2>2. CASE kept # None BY <2>2 DEF CustodyIInv, Given, Pending
    <2> QED BY <2>1, <2>2
  <1>3. kept # None => kept' = vault' /\ stage' = "indexed" /\ db'.active \in store' /\ vault' \in signers'
    <2> SUFFICES ASSUME kept # None
                 PROVE  kept' = vault' /\ stage' = "indexed" /\ db'.active \in store' /\ vault' \in signers'
      OBVIOUS
    <2>1. db.active # call.key /\ vault # call.key BY DEF CustodyIInv, CallSound, Founded, Drawn
    <2>2. db.active \in store /\ vault \in signers /\ kept = vault /\ stage = "indexed" BY DEF CustodyIInv, Given
    <2>3. db.active \in VaultKeys /\ vault \in VaultKeys
      BY <2>2, CallFacts DEF CustodyIInv, Placed
    <2> QED BY <2>1, <2>2, <2>3
  <1> QED BY <1>1, <1>2, <1>3 DEF CustodyIInv, Given

-----------------------------------------------------------------------------
(* Beginning a call.                                                       *)

LEMMA BeginsKeeps ==
  ASSUME CustodyIInv, NEW kind \in {"create", "restore", "adopt"}, NEW p \in Procs, NEW k \in VaultKeys,
         NEW records \in Seq(Contents), Begins(kind, p, k, records),
         generated' = generated \cup {k}, Len(records) <= MaxRecords,
         kept # None => kind # "adopt" /\ k \notin Drawn \cup {vault},
         kind = "adopt" => stage = "indexed" /\ k = vault /\ k = db.active /\ records = db.index.records,
         kind # "adopt" => records \in Recovered,
         kind = "create" => records = <<>>
  PROVE  CustodyIInv'
  <1>1. /\ call' \in Calls /\ call' # None /\ call'.kind = kind /\ call'.key = k /\ call'.records = records
        /\ call'.step = "master" /\ call'.nonce = 0
    BY CallType DEF Begins
  <1>2. UNCHANGED <<db, store, proc, wraps, acked, stage, vault, signers, kept, orphans>> /\ call = None
        /\ \A q \in Procs : proc[q] = Closed
    BY DEF Begins
  <1>3. VaultIInv'
    <2>1. store \subseteq VaultKeys /\ generated' \subseteq VaultKeys BY Types DEF CustodyIInv, VaultIInv
    <2> QED BY <1>2, <2>1, VaultFrame DEF CustodyIInv
  <1>4. Placed' BY <1>1, <1>2 DEF CustodyIInv, Placed
  <1>5. Drawn' = Drawn BY <1>2 DEF Drawn
  <1>6. Given' BY <1>2, <1>5 DEF CustodyIInv, Given, Pending, Rotating
  <1>7. Items' BY <1>2, <1>5 DEF CustodyIInv, Items, InUse, UnderWay
  <1>8. Founded' BY <1>1, <1>2, <1>5 DEF Founded, Beginning, Dropping
  <1>9. IF kind = "adopt" THEN Adopts' ELSE Makes'
    BY <1>1, <1>2 DEF Adopts, Makes, Beginning, Importing
  <1> QED BY <1>1, <1>3, <1>4, <1>6, <1>7, <1>8, <1>9 DEF CustodyIInv, CallSound

LEMMA FreshKey ==
  ASSUME CustodyIInv, NEW k \in VaultKeys, k \notin generated
  PROVE  k \notin Drawn \cup {vault}
  BY VaultAssumption DEF CustodyIInv, Given

LEMMA CreateKeeps == ASSUME CustodyIInv, NEW p \in Procs, NEW k \in VaultKeys, Create(p, k) PROVE CustodyIInv'
  <1>1. <<>> \in Recovered /\ <<>> \in Seq(Contents) /\ Len(<<>>) <= MaxRecords BY RecoveredType
  <1> QED BY <1>1, FreshKey, BeginsKeeps DEF Create

LEMMA RestoreKeeps ==
  ASSUME CustodyIInv, NEW p \in Procs, NEW k \in VaultKeys, NEW records \in Recovered, Restore(p, k, records)
  PROVE  CustodyIInv'
  <1>1. records \in Seq(Contents) /\ Len(records) <= MaxRecords BY RecoveredType
  <1> QED BY <1>1, FreshKey, BeginsKeeps DEF Restore

LEMMA AdoptKeeps == ASSUME CustodyIInv, NEW p \in Procs, AdoptLegacy(p) PROVE CustodyIInv'
  <1>1. FirstKey \in VaultKeys BY VaultAssumption
  <1>2. db.index.records \in Seq(Contents) /\ Len(db.index.records) <= MaxRecords
    BY ObjectsType, Types DEF CustodyIInv, VaultIInv, Readable, Database
  <1>3. generated' = generated \cup {FirstKey} BY DEF AdoptLegacy, CustodyIInv, Given, Drawn
  <1> QED BY <1>1, <1>2, <1>3, BeginsKeeps DEF AdoptLegacy

-----------------------------------------------------------------------------
(* The steps of a call.                                                    *)

\* A step that goes on and writes no database: what the call stores is its own.
LEMMA GoingKeeps ==
  ASSUME CustodyIInv, call # None, NEW step \in Steps, Goes(step),
         UNCHANGED <<db, proc, generated, wraps, acked, kept>>,
         store' \subseteq store \cup {call.key}, store \subseteq store' \cup {call.key},
         signers' \subseteq signers \cup {call.key}, signers \subseteq signers' \cup {call.key},
         orphans \subseteq orphans', orphans' \subseteq orphans \cup {call.key},
         vault' \in {vault, call.key}, stage' \in Stages, stage' # "absent" => vault' # None,
         kept # None => UNCHANGED <<vault, stage>>
  PROVE  /\ VaultIInv' /\ Placed' /\ Given' /\ Items'
         /\ Drawn' = Drawn /\ \A q \in Procs : proc'[q] = Closed
  <1>1. call.key \in VaultKeys /\ store \subseteq VaultKeys /\ generated \subseteq VaultKeys /\ call.key \in generated
        /\ \A q \in Procs : proc[q] = Closed
    BY CallFacts DEF Founded
  <1>2. call' \in Calls /\ call' # None /\ call'.key = call.key BY CallFacts, GoesType
  <1>3. VaultIInv' BY <1>1, VaultFrame DEF CustodyIInv
  <1>4. Placed' BY <1>1, <1>2 DEF CustodyIInv, Placed
  <1>5. Drawn' = Drawn BY DEF Drawn
  <1>6. Given' BY <1>1, <1>5, GivenFrame DEF CustodyIInv, Given
  <1>7. Items' BY <1>2, <1>5 DEF CustodyIInv, Items, InUse, UnderWay
  <1> QED BY <1>1, <1>3, <1>4, <1>5, <1>6, <1>7

LEMMA StoreMasterKeeps == ASSUME CustodyIInv, StoreMasterKey PROVE CustodyIInv'
  <1>1. call # None /\ call.step = "master" /\ Goes("signer") /\ "signer" \in Steps
    BY DEF StoreMasterKey, At, Steps
  <1>2. /\ VaultIInv' /\ Placed' /\ Given' /\ Items' /\ Drawn' = Drawn /\ \A q \in Procs : proc'[q] = Closed
    BY <1>1, GoingKeeps DEF StoreMasterKey, CustodyIInv, Placed, Given
  <1>3. /\ call' # None /\ call'.step = "signer" /\ call'.kind = call.kind /\ call'.key = call.key
        /\ call'.records = call.records
    BY <1>1, CallFacts, GoesType
  <1>4. Founded' BY <1>1, <1>2, <1>3, CallFacts DEF Founded, Beginning, Dropping, StoreMasterKey
  <1>5. IF call'.kind = "adopt" THEN Adopts' ELSE Makes'
    BY <1>1, <1>3, CallFacts DEF Adopts, Makes, Beginning, Dropping, Importing, StoreMasterKey
  <1> QED BY <1>2, <1>4, <1>5 DEF CustodyIInv, CallSound

\* The master key of a call is stored before its signing key.
LEMMA StoreSigningKeeps == ASSUME CustodyIInv, StoreSigningKey PROVE CustodyIInv'
  <1> DEFINE step == IF call.kind = "adopt" THEN "reopen" ELSE "make"
  <1>1. call # None /\ call.step = "signer" /\ Goes(step) /\ step \in Steps
    BY DEF StoreSigningKey, At, Steps
  <1>2. /\ VaultIInv' /\ Placed' /\ Given' /\ Items' /\ Drawn' = Drawn /\ \A q \in Procs : proc'[q] = Closed
    BY <1>1, GoingKeeps DEF StoreSigningKey, CustodyIInv, Placed, Given
  <1>3. /\ call' # None /\ call'.step = step /\ call'.kind = call.kind /\ call'.key = call.key
        /\ call'.records = call.records
    BY <1>1, CallFacts, GoesType
  <1>4. Founded' BY <1>1, <1>2, <1>3, CallFacts DEF Founded, Beginning, Dropping, StoreSigningKey
  <1>5. IF call'.kind = "adopt" THEN Adopts' ELSE Makes'
    BY <1>1, <1>3, CallFacts DEF Adopts, Makes, Beginning, Dropping, Importing, StoreSigningKey
  <1> QED BY <1>2, <1>4, <1>5 DEF CustodyIInv, CallSound

\* A directory that is new is nobody's: the caller has no vault yet.
LEMMA MakeDirectoryKeeps == ASSUME CustodyIInv, MakeDirectory PROVE CustodyIInv'
  <1>1. call # None /\ call.step = "make" /\ Goes("head") /\ "head" \in Steps /\ call.key \in VaultKeys
        /\ Makes /\ call.kind # "adopt"
    BY CallFacts DEF MakeDirectory, At, Steps, Adopts, Beginning, Dropping
  <1>2. kept = None BY DEF MakeDirectory, CustodyIInv, Given
  <1>3. call.key # None /\ "made" \in Stages BY <1>1, VaultAssumption DEF Stages
  <1>4. /\ VaultIInv' /\ Placed' /\ Given' /\ Items' /\ Drawn' = Drawn /\ \A q \in Procs : proc'[q] = Closed
    BY <1>1, <1>2, <1>3, GoingKeeps DEF MakeDirectory
  <1>5. /\ call' # None /\ call'.step = "head" /\ call'.kind = call.kind /\ call'.key = call.key
        /\ call'.records = call.records
    BY <1>1, CallFacts, GoesType
  <1>6. Founded' BY <1>1, <1>2, <1>4, <1>5, CallFacts DEF Founded, Beginning, Dropping, MakeDirectory
  <1>7. Makes' BY <1>1, <1>5 DEF Makes, Beginning, Dropping, Importing, MakeDirectory
  <1> QED BY <1>1, <1>4, <1>5, <1>6, <1>7 DEF CustodyIInv, CallSound

\* Past the directory the call is the only one there is: its vault, its keys, nobody's records.
LEMMA MakingFacts ==
  ASSUME CustodyIInv, call # None,
         call.step \in {"head", "seal first", "index", "check"} \cup Importing
  PROVE  /\ kept = None /\ call.kind # "adopt" /\ Makes /\ Founded /\ vault = call.key
         /\ call.key \in store /\ call.key \in signers /\ call.key \in VaultKeys /\ call.key # None
         /\ db.intent = None /\ acked = {} /\ call.step \notin Beginning \cup Dropping \cup {"make"}
  <1>1. call.step \notin Beginning \cup Dropping \cup {"make", "reopen"} BY DEF Beginning, Dropping, Importing
  <1>2. call.kind # "adopt" /\ Makes /\ Founded /\ call.key \in VaultKeys BY <1>1, CallFacts DEF Adopts
  <1>3. kept = None BY <1>1, <1>2 DEF Founded
  <1>4. vault = call.key /\ call.key \in store /\ call.key \in signers BY <1>1, <1>2 DEF Makes, Founded
  <1> QED BY <1>1, <1>2, <1>3, <1>4, VaultAssumption DEF CustodyIInv, Given

LEMMA WriteHeaderKeeps == ASSUME CustodyIInv, WriteHeader PROVE CustodyIInv'
  <1>1. call # None /\ call.step = "head" /\ Goes("seal first") /\ "seal first" \in Steps /\ call \in Calls
    BY CallFacts DEF WriteHeader, At, Steps
  <1>2. /\ kept = None /\ call.kind # "adopt" /\ Makes /\ Founded /\ vault = call.key /\ acked = {}
        /\ call.key \in store /\ call.key \in signers /\ call.key \in VaultKeys /\ call.key # None /\ db.intent = None
    BY <1>1, MakingFacts
  <1>3. 0 \in 0 .. MaxWraps BY VaultAssumption
  <1>4. /\ db' \in Database /\ db'.active = call.key /\ db'.index.key = call.key /\ db'.index.records = <<>>
        /\ db'.intent = None
    BY <1>2, <1>3, NewDatabaseType DEF WriteHeader
  <1>5. UNCHANGED <<store, proc, generated, wraps, acked, vault, signers, kept, orphans>> /\ stage' = "headed"
    BY DEF WriteHeader
  <1>6. Readable'
    <2>1. Objects(db'.index) = {} BY <1>4 DEF Objects, Range
    <2> QED BY <1>2, <1>4, <1>5, <2>1, VaultAssumption DEF Readable, AcknowledgedReadable
  <1>7. VaultIInv'
    BY <1>4, <1>5, <1>6 DEF CustodyIInv, VaultIInv, TypeOK, Database, Holding
  <1>8. /\ call' \in Calls /\ call' # None /\ call'.step = "seal first" /\ call'.kind = call.kind /\ call'.key = call.key
        /\ call'.records = call.records
    BY <1>1, GoesType
  <1>9. Placed' BY <1>5, <1>8 DEF CustodyIInv, Placed, Stages
  <1>10. Drawn' = {call.key} /\ Drawn' \subseteq generated BY <1>2, <1>4 DEF Drawn, Named, Founded
  <1>11. vault \in generated \cup {None} BY DEF CustodyIInv, Given
  <1>12. Given' BY <1>1, <1>2, <1>4, <1>5, <1>10, <1>11, GivenFrame
  <1>13. Items' BY <1>1, <1>2, <1>5, <1>8 DEF CustodyIInv, Items, InUse, UnderWay
  <1>14. Founded' BY <1>1, <1>2, <1>5, <1>8 DEF Founded, Beginning, Dropping
  <1>15. Makes' BY <1>1, <1>2, <1>4, <1>5, <1>8 DEF Makes, Beginning, Dropping, Importing
  <1> QED BY <1>2, <1>7, <1>8, <1>9, <1>12, <1>13, <1>14, <1>15 DEF CustodyIInv, CallSound

\* A wrap of a call: a nonce, and the next step.
LEMMA CallWraps ==
  ASSUME CustodyIInv, call # None, call.step \in {"seal first", "import", "seal"}, Reserve(call.key),
         UNCHANGED <<store, proc, generated, acked, vault, signers, kept, orphans>>,
         stage' \in Stages \ {"absent"}, call' \in Calls, call'.key = call.key, call' # None
  PROVE  /\ VaultIInv' /\ Placed' /\ Given' /\ Items'
         /\ db'.active = db.active /\ db'.index = db.index /\ Drawn' = Drawn
  <1>1. /\ kept = None /\ vault = call.key /\ call.key \in VaultKeys /\ call.key # None /\ db \in Database /\ TypeOK
        /\ Founded
    BY MakingFacts, CallFacts DEF Importing, CustodyIInv, VaultIInv
  <1>2. db' = [db EXCEPT !.usage = db'.usage] /\ db' \in Database /\ wraps' \in [VaultKeys -> [Nonces -> Nat]]
    BY <1>1, Reserved
  <1>3. db'.active = db.active /\ db'.index = db.index /\ db'.blobs = db.blobs /\ db'.intent = db.intent
    BY <1>1, <1>2 DEF Database
  <1>4. Readable' BY <1>3, ReadableKept DEF CustodyIInv, VaultIInv
  <1>5. VaultIInv' BY <1>2, <1>4 DEF CustodyIInv, VaultIInv, TypeOK, Database, Holding
  <1>6. Placed' BY DEF CustodyIInv, Placed
  <1>7. Drawn' = Drawn BY <1>3 DEF Drawn
  <1>8. Given' BY <1>1, <1>3, <1>7, GivenFrame DEF CustodyIInv, Given
  <1>9. Items' BY <1>7 DEF CustodyIInv, Items, InUse, UnderWay
  <1> QED BY <1>3, <1>5, <1>6, <1>7, <1>8, <1>9

LEMMA SealFirstKeeps == ASSUME CustodyIInv, SealFirstIndex PROVE CustodyIInv'
  <1>1. call # None /\ call.step = "seal first" /\ Goes("index") /\ "index" \in Steps /\ call \in Calls
    BY CallFacts DEF SealFirstIndex, At, Steps
  <1>2. /\ kept = None /\ call.kind # "adopt" /\ Makes /\ Founded BY <1>1, MakingFacts
  <1>3. /\ call' \in Calls /\ call' # None /\ call'.step = "index" /\ call'.kind = call.kind /\ call'.key = call.key
        /\ call'.records = call.records
    BY <1>1, GoesType
  <1>4. /\ VaultIInv' /\ Placed' /\ Given' /\ Items' /\ db'.active = db.active /\ db'.index = db.index
    BY <1>1, <1>3, CallWraps DEF SealFirstIndex, Stages
  <1>5. Founded' BY <1>1, <1>2, <1>3 DEF Founded, Beginning, Dropping, SealFirstIndex
  <1>6. Makes' BY <1>1, <1>2, <1>3, <1>4 DEF Makes, Beginning, Dropping, Importing, SealFirstIndex
  <1> QED BY <1>2, <1>3, <1>4, <1>5, <1>6 DEF CustodyIInv, CallSound

LEMMA WriteFirstKeeps == ASSUME CustodyIInv, WriteFirstIndex PROVE CustodyIInv'
  <1>1. call # None /\ call.step = "index" /\ Goes("check") /\ "check" \in Steps /\ "indexed" \in Stages
    BY DEF WriteFirstIndex, At, Steps, Stages
  <1>2. /\ kept = None /\ call.kind # "adopt" /\ Makes /\ Founded /\ vault = call.key /\ call.key # None
    BY <1>1, MakingFacts
  <1>3. /\ VaultIInv' /\ Placed' /\ Given' /\ Items'
    BY <1>1, <1>2, GoingKeeps DEF WriteFirstIndex
  <1>4. /\ call' # None /\ call'.step = "check" /\ call'.kind = call.kind /\ call'.key = call.key
        /\ call'.records = call.records
    BY <1>1, CallFacts, GoesType
  <1>5. Founded' BY <1>1, <1>2, <1>4 DEF Founded, Beginning, Dropping, WriteFirstIndex
  <1>6. Makes' BY <1>1, <1>2, <1>4 DEF Makes, Beginning, Dropping, Importing, WriteFirstIndex
  <1> QED BY <1>2, <1>3, <1>4, <1>5, <1>6 DEF CustodyIInv, CallSound

LEMMA ImportObjectKeeps == ASSUME CustodyIInv, ImportObject PROVE CustodyIInv'
  <1>1. call # None /\ call.step = "import" /\ Goes("seal") /\ "seal" \in Steps /\ call \in Calls
    BY CallFacts DEF ImportObject, At, Steps
  <1>2. /\ kept = None /\ call.kind # "adopt" /\ Makes /\ Founded BY <1>1, MakingFacts DEF Importing
  <1>3. /\ call' \in Calls /\ call' # None /\ call'.step = "seal" /\ call'.kind = call.kind /\ call'.key = call.key
        /\ call'.records = call.records
    BY <1>1, GoesType
  <1>4. stage = "indexed" BY <1>1, <1>2 DEF Makes, Importing
  <1>5. /\ VaultIInv' /\ Placed' /\ Given' /\ Items' /\ db'.active = db.active /\ db'.index = db.index
    BY <1>1, <1>3, <1>4, CallWraps DEF ImportObject, Stages
  <1>6. Founded' BY <1>1, <1>2, <1>3 DEF Founded, Beginning, Dropping, ImportObject
  <1>7. Makes' BY <1>1, <1>2, <1>3, <1>4, <1>5 DEF Makes, Beginning, Dropping, Importing, ImportObject
  <1> QED BY <1>2, <1>3, <1>5, <1>6, <1>7 DEF CustodyIInv, CallSound

LEMMA SealImportKeeps == ASSUME CustodyIInv, SealImport PROVE CustodyIInv'
  <1> DEFINE n == db.usage[call.key] + 1
  <1>1. call # None /\ call.step \in {"seal", "import"} /\ call \in Calls /\ call.key \in VaultKeys
        /\ call' = [call EXCEPT !.step = "commit", !.nonce = n] /\ Reserve(call.key)
    BY CallFacts DEF SealImport, At
  <1>2. /\ kept = None /\ call.kind # "adopt" /\ Makes /\ Founded BY <1>1, MakingFacts DEF Importing
  <1>3. n \in 0 .. MaxWraps /\ n # 0 BY <1>1, NextNonce DEF CustodyIInv
  <1>4. /\ call' \in Calls /\ call'.step = "commit" /\ call'.kind = call.kind /\ call'.key = call.key
        /\ call'.records = call.records /\ call'.nonce # 0
    BY <1>1, <1>3 DEF Calls, Steps
  <1>5. call' # None BY <1>4, FoundingAssumption
  <1>6. stage = "indexed" BY <1>1, <1>2 DEF Makes, Importing
  <1>7. /\ VaultIInv' /\ Placed' /\ Given' /\ Items' /\ db'.active = db.active /\ db'.index = db.index
    BY <1>1, <1>4, <1>5, <1>6, CallWraps DEF SealImport, Stages
  <1>8. Founded' BY <1>1, <1>2, <1>4 DEF Founded, Beginning, Dropping, SealImport
  <1>9. Makes' BY <1>1, <1>2, <1>4, <1>6, <1>7 DEF Makes, Beginning, Dropping, Importing, SealImport
  <1> QED BY <1>2, <1>4, <1>7, <1>8, <1>9 DEF CustodyIInv, CallSound

-----------------------------------------------------------------------------
(* The end of a call.                                                      *)

\* The caller is given the vault: what the call restored is what can be read.
LEMMA ReturnsKeeps ==
  ASSUME CustodyIInv, call # None, kept = None, Returns, vault = call.key, call.key = db.active,
         call.key \in store, call.key \in signers, stage = "indexed",
         db' \in Database, db'.active = db.active, db'.intent = None,
         db'.index.key = db'.active, db'.index.records = call.records,
         \A c \in Objects(db'.index) : db'.blobs[c] = db'.active,
         UNCHANGED <<store, generated, wraps, stage, vault, signers, orphans>>
  PROVE  CustodyIInv'
  <1>1. /\ call.by \in Procs /\ call.key \in VaultKeys /\ call.records \in Seq(Contents) /\ Founded
        /\ store \subseteq VaultKeys /\ generated \subseteq VaultKeys
    BY CallFacts
  <1>2. /\ call' = None /\ kept' = vault /\ proc' = [proc EXCEPT ![call.by] = Ready(db.active)]
        /\ acked' = acked \cup {<<i, call.records[i]>> : i \in DOMAIN call.records}
    BY DEF Returns
  <1>3. acked = {} /\ \A q \in Procs : proc[q] = Closed BY DEF CustodyIInv, Given
  <1>4. Moves(call.by) BY <1>1, <1>2, ReadyHolds DEF Moves
  <1>5. ASSUME NEW a \in acked'
        PROVE  a \in (1 .. MaxRecords) \X Contents /\ a[1] \in DOMAIN call.records /\ call.records[a[1]] = a[2]
    <2>1. PICK i \in DOMAIN call.records : a = <<i, call.records[i]>> BY <1>2, <1>3
    <2>2. i \in 1 .. Len(call.records) /\ call.records[i] \in Contents BY <1>1, <2>1
    <2>3. i \in 1 .. MaxRecords
      <3>1. Len(call.records) \in Nat BY <1>1, LenProperties
      <3>2. Len(call.records) <= MaxRecords BY <1>1 DEF Founded
      <3> QED BY <2>2, <3>1, <3>2, VaultAssumption
    <2> QED BY <2>1, <2>2, <2>3
  <1>6. Readable' BY <1>1, <1>5 DEF Readable, AcknowledgedReadable, Founded
  <1>7. acked' \subseteq (1 .. MaxRecords) \X Contents BY <1>5
  <1>8. wraps \in [VaultKeys -> [Nonces -> Nat]] /\ TypeOK /\ VaultIInv BY Types DEF CustodyIInv, VaultIInv
  <1>9. VaultIInv' BY <1>1, <1>4, <1>6, <1>7, <1>8, WritingKeeps
  <1>10. Placed' BY <1>1, <1>2 DEF CustodyIInv, Placed
  <1>11. Drawn' = {call.key} BY DEF Drawn, Named
  <1>12. Rotating'
    <2>1. ASSUME NEW q \in Procs PROVE Rotates(proc'[q], db', store')
      <3>1. proc'[q] \in {Closed, Ready(db'.active)} BY <1>1, <1>2, <1>3, <1>8, Types
      <3>2. Rotates(Ready(db'.active), db', store') BY <1>1, ReadyRotates
      <3> QED BY <3>1, <3>2, ClosedRotates
    <2> QED BY <2>1 DEF Rotating
  <1>13. call.key # None /\ call.key \in generated BY <1>1, VaultAssumption DEF Founded
  <1>14. Given' BY <1>2, <1>11, <1>12, <1>13 DEF Given, Pending
  <1>15. Items' BY <1>2, <1>11, <1>13 DEF CustodyIInv, Items, InUse, UnderWay
  <1> QED BY <1>2, <1>9, <1>10, <1>14, <1>15 DEF CustodyIInv, CallSound

LEMMA OpenedKeeps == ASSUME CustodyIInv, Opened PROVE CustodyIInv'
  <1>1. /\ call # None /\ call.step \in {"check", "reopen"} /\ Founded /\ db \in Database
        /\ (IF call.kind = "adopt" THEN Adopts ELSE Makes)
        /\ (call.step = "reopen" => db.active \in store /\ vault \in signers)
    BY CallFacts DEF Opened, At
  <1>2. UNCHANGED <<db, store, generated, wraps, stage, vault, signers, orphans>> BY DEF Opened
  <1>3. /\ call.step \notin Beginning \cup Dropping \cup {"make"} /\ kept = None
        /\ call.key \in store /\ call.key \in signers
    BY <1>1 DEF Founded, Beginning, Dropping
  <1>4. vault = call.key /\ db.active = call.key /\ stage = "indexed"
    BY <1>1, <1>3 DEF Adopts, Makes, Beginning, Dropping
  <1>5. CASE call.kind = "restore"
    <2>1. Goes("import") /\ "import" \in Steps /\ UNCHANGED <<proc, acked, kept>> BY <1>5 DEF Opened, Steps
    <2>2. /\ VaultIInv' /\ Placed' /\ Given' /\ Items'
      BY <1>1, <1>2, <1>3, <1>4, <2>1, GoingKeeps DEF CustodyIInv, Placed, Given
    <2>3. /\ call' # None /\ call'.step = "import" /\ call'.kind = call.kind /\ call'.key = call.key
          /\ call'.records = call.records
      BY <1>1, <2>1, CallFacts, GoesType
    <2>4. Founded' BY <1>1, <1>2, <1>3, <2>1, <2>3 DEF Founded, Beginning, Dropping
    <2>5. call.step = "check" BY <1>1, <1>5 DEF Makes
    <2>6. Makes' BY <1>1, <1>2, <1>5, <2>3, <2>5 DEF Makes, Beginning, Dropping, Importing
    <2> QED BY <1>5, <2>2, <2>3, <2>4, <2>6 DEF CustodyIInv, CallSound
  <1>6. CASE call.kind # "restore"
    <2>1. Returns BY <1>6 DEF Opened
    <2>2. db.index.records = call.records
      <3>1. CASE call.kind = "adopt" BY <1>1, <3>1 DEF Adopts
      <3>2. CASE call.kind = "create"
        <4>1. call.step = "check" /\ call.records = <<>> BY <1>1, <3>2 DEF Makes
        <4> QED BY <1>1, <3>2, <4>1 DEF Makes
      <3> QED BY <1>1, <1>6, <3>1, <3>2, CallFacts
    <2>3. db.intent = None BY <1>3 DEF CustodyIInv, Given
    <2>4. db.index.key = db.active /\ \A c \in Objects(db.index) : db.blobs[c] = db.active
      BY DEF CustodyIInv, VaultIInv, Readable, AcknowledgedReadable
    <2> QED BY <1>1, <1>2, <1>3, <1>4, <2>1, <2>2, <2>3, <2>4, ReturnsKeeps DEF Objects
  <1> QED BY <1>5, <1>6

\* A restore commits its records together with their index and their blobs.
LEMMA ImportedType ==
  ASSUME CustodyIInv, call # None, call.step = "commit", Founded, Makes,
         db' = [db EXCEPT !.index = [key |-> call.key, nonce |-> call.nonce, records |-> call.records],
                          !.blobs = [c \in Contents |-> IF c \in Range(call.records) THEN call.key ELSE None]]
  PROVE  /\ db' \in Database /\ db'.active = db.active /\ db'.intent = db.intent
         /\ db'.index.key = call.key /\ db'.index.records = call.records
         /\ \A c \in Objects(db'.index) : db'.blobs[c] = call.key
  <1> DEFINE index == [key |-> call.key, nonce |-> call.nonce, records |-> call.records]
             blobs == [c \in Contents |-> IF c \in Range(call.records) THEN call.key ELSE None]
  <1>1. call.key \in VaultKeys /\ call.nonce \in Nonces /\ call.records \in Seq(Contents) /\ db \in Database
    <2>1. call.nonce \in 0 .. MaxWraps /\ call.nonce # 0 BY CallFacts DEF Calls, Founded
    <2> QED BY <2>1, CallFacts, VaultAssumption DEF Nonces
  <1>2. Range(call.records) \subseteq Contents BY RecoveredType DEF Makes
  <1>3. index \in Index /\ index.key = call.key /\ index.records = call.records BY <1>1 DEF Index
  <1>4. blobs \in [Contents -> VaultKeys \cup {None}] /\ \A c \in Range(call.records) : blobs[c] = call.key
    BY <1>1, <1>2
  <1> HIDE DEF index, blobs
  <1>5. db' = [db EXCEPT !.index = index, !.blobs = blobs] BY DEF index, blobs
  <1> QED BY <1>1, <1>3, <1>4, <1>5 DEF Database, Objects

LEMMA CommitImportKeeps == ASSUME CustodyIInv, CommitImport PROVE CustodyIInv'
  <1>1. call # None /\ call.step = "commit" BY DEF CommitImport, At
  <1>2. /\ kept = None /\ call.kind # "adopt" /\ Makes /\ Founded /\ vault = call.key /\ call.key \in store
        /\ call.key \in signers /\ call.key \in VaultKeys /\ db.intent = None /\ acked = {} /\ call.key # None
    BY <1>1, MakingFacts DEF Importing
  <1>3. db.active = call.key /\ stage = "indexed" BY <1>1, <1>2 DEF Makes, Importing
  <1>4. UNCHANGED <<store, generated, wraps, stage, vault, signers, orphans>> BY DEF CommitImport
  <1>5. /\ db' \in Database /\ db'.active = db.active /\ db'.intent = db.intent
        /\ db'.index.key = call.key /\ db'.index.records = call.records
        /\ \A c \in Objects(db'.index) : db'.blobs[c] = call.key
    BY <1>1, <1>2, ImportedType DEF CommitImport
  <1>6. CASE Returns BY <1>1, <1>2, <1>3, <1>4, <1>5, <1>6, ReturnsKeeps
  <1>7. CASE Goes("doubt") /\ UNCHANGED <<proc, acked, kept>>
    <2>1. /\ call' \in Calls /\ call' # None /\ call'.step = "doubt" /\ call'.kind = call.kind /\ call'.key = call.key
          /\ call'.records = call.records
      BY <1>1, <1>7, CallFacts, GoesType DEF Steps
    <2>2. Readable' BY <1>2, <1>3, <1>5, <1>7 DEF Readable, AcknowledgedReadable, Founded
    <2>3. VaultIInv' BY <1>4, <1>5, <1>7, <2>2 DEF CustodyIInv, VaultIInv, TypeOK, Database, Holding
    <2>4. Placed' BY <1>4, <1>7, <2>1 DEF CustodyIInv, Placed
    <2>5. Drawn' = Drawn BY <1>5 DEF Drawn
    <2>6. Drawn \subseteq generated /\ vault \in generated \cup {None} BY DEF CustodyIInv, Given
    <2>7. Given' BY <1>1, <1>2, <1>4, <1>5, <1>7, <2>5, <2>6, GivenFrame
    <2>8. Items' BY <1>4, <1>7, <2>1, <2>5 DEF CustodyIInv, Items, InUse, UnderWay
    <2>9. Founded' BY <1>1, <1>2, <1>4, <1>7, <2>1 DEF Founded, Beginning, Dropping
    <2>10. Makes' BY <1>1, <1>2, <1>3, <1>4, <1>5, <2>1 DEF Makes, Beginning, Dropping, Importing
    <2> QED BY <1>2, <2>1, <2>3, <2>4, <2>7, <2>8, <2>9, <2>10 DEF CustodyIInv, CallSound
  <1> QED BY <1>6, <1>7 DEF CommitImport

LEMMA StepFailsKeeps == ASSUME CustodyIInv, StepFails PROVE CustodyIInv'
  <1> DEFINE step == IF call.step \in {"import", "seal", "commit"} THEN "doubt" ELSE "drop signer"
  <1>1. call # None /\ call.step \notin {"doubt"} \cup Dropping /\ Goes(step) /\ step \in Steps
    BY DEF StepFails, Steps, Dropping
  <1>2. /\ VaultIInv' /\ Placed' /\ Given' /\ Items' /\ Drawn' = Drawn
    BY <1>1, GoingKeeps DEF StepFails, CustodyIInv, Placed, Given
  <1>3. /\ call' # None /\ call'.step = step /\ call'.kind = call.kind /\ call'.key = call.key
        /\ call'.records = call.records
    BY <1>1, CallFacts, GoesType
  <1>4. UNCHANGED <<db, store, proc, generated, stage, vault, signers, kept, orphans>> BY DEF StepFails
  <1>5. CASE call.step \in {"import", "seal", "commit"}
    <2>1. /\ kept = None /\ call.kind # "adopt" /\ Makes /\ Founded BY <1>1, <1>5, MakingFacts DEF Importing
    <2>2. Founded' BY <1>1, <1>2, <1>3, <1>4, <1>5, <2>1 DEF Founded, Beginning, Dropping
    <2>3. Makes' BY <1>1, <1>3, <1>4, <1>5, <2>1 DEF Makes, Beginning, Dropping, Importing
    <2> QED BY <1>2, <1>3, <2>1, <2>2, <2>3 DEF CustodyIInv, CallSound
  <1>6. CASE call.step \notin {"import", "seal", "commit"}
    <2>1. Founded' BY <1>1, <1>2, <1>3, <1>4, <1>6, CallFacts DEF Founded, Beginning, Dropping
    <2>2. IF call'.kind = "adopt" THEN Adopts' ELSE Makes'
      BY <1>1, <1>3, <1>4, <1>6, CallFacts DEF Adopts, Makes, Beginning, Dropping, Importing
    <2> QED BY <1>2, <1>3, <2>1, <2>2 DEF CustodyIInv, CallSound
  <1> QED BY <1>5, <1>6

LEMMA DropSignerKeeps == ASSUME CustodyIInv, DropSigner PROVE CustodyIInv'
  <1>1. call # None /\ call.step = "drop signer" /\ Goes("drop master") /\ "drop master" \in Steps
        /\ Founded /\ (IF call.kind = "adopt" THEN Adopts ELSE Makes)
    BY CallFacts DEF DropSigner, At, Steps
  <1>2. UNCHANGED <<db, store, proc, generated, wraps, acked, stage, vault, kept>> BY DEF DropSigner
  <1>3. \/ signers' = signers \ {call.key} /\ orphans' = orphans
        \/ orphans' = orphans \cup {call.key} /\ signers' = signers
    BY DEF DropSigner
  <1>4. /\ VaultIInv' /\ Placed' /\ Given' /\ Items' /\ Drawn' = Drawn
    BY <1>1, <1>2, <1>3, GoingKeeps DEF CustodyIInv, Placed, Given
  <1>5. /\ call' # None /\ call'.step = "drop master" /\ call'.kind = call.kind /\ call'.key = call.key
        /\ call'.records = call.records
    BY <1>1, CallFacts, GoesType
  <1>6. Founded' BY <1>1, <1>2, <1>3, <1>4, <1>5 DEF Founded, Beginning, Dropping
  <1>7. IF call'.kind = "adopt" THEN Adopts' ELSE Makes'
    BY <1>1, <1>2, <1>5 DEF Adopts, Makes, Beginning, Dropping, Importing
  <1> QED BY <1>4, <1>5, <1>6, <1>7 DEF CustodyIInv, CallSound

\* A call that ends without its vault has deleted its items, or they are known to be left behind.
LEMMA EndingKeeps ==
  ASSUME CustodyIInv, call # None, call' = None,
         UNCHANGED <<db, proc, generated, wraps, acked, stage, vault, signers, kept>>,
         store' \subseteq store, store \subseteq store' \cup {call.key},
         orphans \subseteq orphans', orphans' \subseteq orphans \cup {call.key},
         call.key \in orphans' \/ call.key \notin store' \cup signers
  PROVE  CustodyIInv'
  <1>1. call.key \in VaultKeys /\ store \subseteq VaultKeys /\ generated \subseteq VaultKeys BY CallFacts
  <1>2. VaultIInv' BY <1>1, VaultFrame DEF CustodyIInv
  <1>3. Placed' BY <1>1 DEF CustodyIInv, Placed
  <1>4. Drawn' = Drawn BY DEF Drawn
  <1>5. Given' BY <1>1, <1>4, GivenFrame DEF CustodyIInv, Given
  <1>6. Items' BY <1>4 DEF CustodyIInv, Items, InUse, UnderWay
  <1> QED BY <1>2, <1>3, <1>5, <1>6 DEF CustodyIInv, CallSound

LEMMA DropMasterKeeps == ASSUME CustodyIInv, DropMaster PROVE CustodyIInv'
  <1>1. call # None /\ call.step = "drop master" /\ Founded BY CallFacts DEF DropMaster, At
  <1>2. call.key \notin signers \/ call.key \in orphans BY <1>1 DEF Founded
  <1> QED BY <1>1, <1>2, EndingKeeps DEF DropMaster

LEMMA FounderDiesKeeps == ASSUME CustodyIInv, FounderDies PROVE CustodyIInv'
  BY EndingKeeps DEF FounderDies

LEMMA DoubtKeeps == ASSUME CustodyIInv, Doubt PROVE CustodyIInv'
  <1>1. call # None /\ call.step = "doubt" BY DEF Doubt, At
  <1>2. /\ kept = None /\ call.kind # "adopt" /\ Makes /\ Founded /\ vault = call.key /\ call.key \in store
        /\ call.key \in signers /\ call.key \in VaultKeys /\ db.intent = None
    BY <1>1, MakingFacts DEF Importing
  <1>3. db.active = call.key /\ stage = "indexed" /\ db.index.records \in {<<>>, call.records} /\ db \in Database
        /\ call.records \in Seq(Contents)
    BY <1>1, <1>2, CallFacts DEF Makes, Importing
  <1>4. UNCHANGED <<db, store, generated, wraps, stage, vault, signers>> BY DEF Doubt
  <1>5. CASE Whole /\ Returns /\ UNCHANGED orphans
    <2>1. db.index.records = call.records
      <3>1. CASE db.index.records = <<>>
        <4>1. Len(call.records) = 0 BY <1>5, <3>1 DEF Whole
        <4> QED BY <1>3, <3>1, <4>1, EmptySeq
      <3> QED BY <1>3, <3>1
    <2>2. db.index.key = db.active /\ \A c \in Objects(db.index) : db.blobs[c] = db.active
      BY DEF CustodyIInv, VaultIInv, Readable, AcknowledgedReadable
    <2> QED BY <1>1, <1>2, <1>3, <1>4, <1>5, <2>1, <2>2, ReturnsKeeps DEF Objects
  <1>6. CASE Goes("drop signer") /\ UNCHANGED <<proc, acked, kept, orphans>>
    <2>1. "drop signer" \in Steps BY DEF Steps
    <2>2. /\ VaultIInv' /\ Placed' /\ Given' /\ Items' /\ Drawn' = Drawn
      BY <1>1, <1>4, <1>6, <2>1, GoingKeeps DEF CustodyIInv, Placed, Given
    <2>3. /\ call' # None /\ call'.step = "drop signer" /\ call'.kind = call.kind /\ call'.key = call.key
          /\ call'.records = call.records
      BY <1>1, <1>6, <2>1, CallFacts, GoesType
    <2>4. Founded' BY <1>1, <1>2, <1>4, <1>6, <2>2, <2>3 DEF Founded, Beginning, Dropping
    <2>5. Makes' BY <1>1, <1>2, <1>4, <2>3 DEF Makes, Beginning, Dropping, Importing
    <2> QED BY <1>2, <2>2, <2>3, <2>4, <2>5 DEF CustodyIInv, CallSound
  <1>7. CASE call' = None /\ orphans' = orphans \cup {call.key} /\ UNCHANGED <<proc, acked, kept>>
    BY <1>1, <1>4, <1>7, EndingKeeps
  <1> QED BY <1>5, <1>6, <1>7 DEF Doubt

LEMMA DiscardKeeps == ASSUME CustodyIInv, Discard PROVE CustodyIInv'
  <1>1. UNCHANGED <<db, store, proc, generated, wraps, acked, signers, call, kept, orphans>>
        /\ call = None /\ kept = None /\ stage' = "absent" /\ vault' = None
    BY DEF Discard
  <1>2. VaultIInv'
    <2>1. store \subseteq VaultKeys /\ generated \subseteq VaultKeys BY Types DEF CustodyIInv, VaultIInv
    <2> QED BY <1>1, <2>1, VaultFrame DEF CustodyIInv
  <1>3. Placed' BY <1>1 DEF CustodyIInv, Placed, Stages
  <1>4. Drawn' = Drawn BY <1>1 DEF Drawn
  <1>5. Given' BY <1>1, <1>4 DEF CustodyIInv, Given, Pending, Rotating
  <1>6. Items' BY <1>1, <1>4 DEF CustodyIInv, Items, InUse, UnderWay
  <1> QED BY <1>1, <1>2, <1>3, <1>5, <1>6 DEF CustodyIInv, CallSound

-----------------------------------------------------------------------------
(* The work on a vault in custody.                                         *)

LEMMA WorksKeeps == ASSUME CustodyIInv, Alone, Works PROVE CustodyIInv'
  <1>1. /\ call = None /\ stage = "indexed" /\ vault \in signers /\ kept' = vault
        /\ UNCHANGED <<stage, vault, signers, call, orphans>>
    BY DEF Works
  <1>2. PICK p \in Procs : Lifetime(p) \/ Evidence(p) \/ Rotation(p) BY DEF Works
  <1>3. VaultIInv /\ Given /\ Items /\ Placed BY DEF CustodyIInv
  <1>4. vault \in VaultKeys /\ vault # None BY <1>1, <1>3 DEF Given, Placed
  <1>5. OneInv
    <2>1. CASE kept # None BY <1>1, <1>3, <2>1 DEF OneInv, Given, Items, InUse, UnderWay
    <2>2. CASE kept = None
      <3>1. proc[p].phase = "closed" /\ db.intent = None BY <1>3, <2>2, ClosedHolds DEF Given
      <3>2. Unlock(p)
        BY <1>2, <3>1 DEF Lifetime, ReconcileKeyRetirements, Lock, Crash, Evidence, Capture, SealObject, BoxIndex,
             AppendRecord, CaptureFails, ExportRecovery, Rotation, BeginRotation, Provision, ReadForRotation,
             RewrapObject, RewrapIndex, SwitchKey, RotationFails, UndoRotation, Retire, RetireFails,
             CompleteKeyRetirement
      <3>3. db.active \in store BY <3>2 DEF Unlock
      <3> QED BY <1>1, <1>3, <2>2, <3>3 DEF OneInv, Given, Items, InUse, UnderWay
    <2> QED BY <2>1, <2>2
  <1>6. OneInv' BY <1>1, <1>2, <1>3, <1>5, LifetimeAlone, EvidenceAlone, RotationAlone
  <1>7. VaultIInv' BY <1>2, <1>3, StepKeeps
  <1>8. Placed' BY <1>1, <1>3, <1>4 DEF Placed
  <1>9. generated \subseteq generated'
    BY <1>2 DEF Lifetime, Unlock, ReconcileKeyRetirements, Lock, Crash, Evidence, Capture, SealObject, BoxIndex,
         AppendRecord, CaptureFails, ExportRecovery, Rotation, BeginRotation, Provision, ReadForRotation,
         RewrapObject, RewrapIndex, SwitchKey, RotationFails, UndoRotation, Retire, RetireFails,
         CompleteKeyRetirement
  <1>10. Given' BY <1>1, <1>3, <1>4, <1>6, <1>9 DEF Given, OneInv
  <1>11. Items'
    <2>1. signers \subseteq {vault} \cup orphans BY <1>1, <1>3 DEF Items, UnderWay, Given
    <2> QED BY <1>1, <1>4, <1>6, <2>1 DEF Items, InUse, UnderWay, OneInv
  <1> QED BY <1>1, <1>7, <1>8, <1>10, <1>11 DEF CustodyIInv, CallSound

-----------------------------------------------------------------------------
LEMMA FoundingStarts == FoundingInit => CustodyIInv
  <1> SUFFICES ASSUME FoundingInit PROVE CustodyIInv OBVIOUS
  <1>1. VaultIInv BY StartsSound DEF FoundingInit
  <1>2. FirstKey \in VaultKeys /\ FirstKey # None /\ 1 \in 0 .. MaxWraps BY VaultAssumption
  <1>3. db = NewDatabase(FirstKey, 1) /\ generated = {FirstKey} /\ acked = {} /\ proc = [p \in Procs |-> Closed]
    BY DEF FoundingInit, Unopened
  <1>4. db.active = FirstKey /\ db.intent = None BY <1>2, <1>3, NewDatabaseType
  <1>5. Drawn = {FirstKey} BY <1>4 DEF Drawn, Named
  <1>6. Placed BY <1>2 DEF FoundingInit, Placed, Stages
  <1>7. Rotating BY <1>3, ClosedRotates DEF Rotating
  <1>8. Given BY <1>2, <1>3, <1>4, <1>5, <1>7 DEF FoundingInit, Given, Pending
  <1> QED BY <1>1, <1>6, <1>8 DEF FoundingInit, CustodyIInv, Items, CallSound

LEMMA CustodyInductive ==
  ASSUME Alone, CustodyIInv, [FoundingNext]_<<vars, foundingVars>>
  PROVE  CustodyIInv'
  <1>1. ASSUME NEW p \in Procs, NEW k \in VaultKeys, Create(p, k) PROVE CustodyIInv' BY <1>1, CreateKeeps
  <1>2. ASSUME NEW p \in Procs, NEW k \in VaultKeys, NEW records \in Recovered, Restore(p, k, records)
        PROVE  CustodyIInv'
    BY <1>2, RestoreKeeps
  <1>3. ASSUME NEW p \in Procs, AdoptLegacy(p) PROVE CustodyIInv' BY <1>3, AdoptKeeps
  <1>4. CASE Founds
    BY <1>4, StoreMasterKeeps, StoreSigningKeeps, MakeDirectoryKeeps, WriteHeaderKeeps, SealFirstKeeps,
       WriteFirstKeeps, OpenedKeeps, ImportObjectKeeps, SealImportKeeps, CommitImportKeeps DEF Founds
  <1>5. CASE Fails
    BY <1>5, StepFailsKeeps, DoubtKeeps, DropSignerKeeps, DropMasterKeeps, FounderDiesKeeps DEF Fails
  <1>6. CASE Discard BY <1>6, DiscardKeeps
  <1>7. CASE Works BY <1>7, WorksKeeps
  <1>8. CASE UNCHANGED <<vars, foundingVars>>
    BY <1>8 DEF vars, foundingVars, CustodyIInv, VaultIInv, TypeOK, Holding, Readable, AcknowledgedReadable, Placed,
         Given, Pending, Rotating, Drawn, Items, InUse, UnderWay, CallSound, Founded, Adopts, Makes
  <1> QED BY <1>1, <1>2, <1>3, <1>4, <1>5, <1>6, <1>7, <1>8 DEF FoundingNext

\* One process: a vault that a caller was given opens ever after, and every stored key is accounted
\* for, through failed and interrupted foundings, rotations and retirements (create, adoptLegacy,
\* restore, rotateVaultKey, reconcileKeyRetirements).
THEOREM VaultStaysInCustody ==
  ASSUME Alone PROVE FoundingSpec => []Custody
  <1>1. FoundingInit => CustodyIInv BY FoundingStarts
  <1>2. CustodyIInv /\ [FoundingNext]_<<vars, foundingVars>> => CustodyIInv' BY CustodyInductive
  <1>3. CustodyIInv => Custody
    <2> SUFFICES ASSUME CustodyIInv PROVE Custody OBVIOUS
    <2>1. call # None => call.records \in Recovered \cup {db.index.records} BY CallFacts DEF Adopts, Makes
    <2>2. FoundingTypeOK BY <2>1 DEF CustodyIInv, Placed, FoundingTypeOK, VaultIInv
    <2>3. AcknowledgedReadable BY DEF CustodyIInv, VaultIInv, Readable
    <2> QED BY <2>2, <2>3 DEF CustodyIInv, Custody, ActiveKeyKept, Given, Pending, Items, InUse, UnderWay, Drawn
  <1> QED BY <1>1, <1>2, <1>3, PTL DEF FoundingSpec
=============================================================================
