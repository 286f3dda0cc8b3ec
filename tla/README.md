# Verification of AIttestation

TLA+ models of the program under `src/spikes`, the TLC runs that check them and the proofs about
them. The program keeps evidence of what a person sends to a chat provider: a text written in a
trusted local composer is frozen, its digest is anchored on a public chain, and only then is the
text put into the provider's page by a browser extension, once, and only where the person enrolled.
Everything that makes that promise hard is a matter of order: serial queues with seconds of waiting
in them, an edit or a navigation in between, a process that dies between "authorized" and "sent", a
page that answers late, two processes on one database.

`PROJECT.json` lists the components, the runs, the source lines each definition stands for, the
hazards of the code with the properties that cover them, and the theorems.

## The system

| Component (source) | State | Operations | Interacts with |
|---|---|---|---|
| Release runtime (`release/runtime.mjs`) | journal of seals and attempts, in memory and on disk; serial queue | `seal`, `confirm`, `retry`, `cancel`, `release`, `releaseContinuous`, `init` | an injected adapter (awaited `dispatch`), a confirmation callback, a store |
| Vault release store (`demonstrator/store.mjs`) | pointer file to a state captured in the vault | `save`, `load` | runtime above, vault below |
| Protection session (`browser/chatgpt/session.mjs`) | the draft, the versions, a serial queue of its own | `enroll`, `updateDraft`, `freeze`, `confirmFast`, `anchorManaged`, `release`, `retry`, `cancel`, `upgradeConsensus` | runtime, adapter, managed client, fast confirmation, vault |
| Chrome adapter (`browser/chatgpt/adapter.mjs`) | connection, latest view of the browser, enrollment | `pair`, `synchronize`, `enroll`, `dispatch`, `invalidate` | session above, bridge below |
| Bridge (`bridge.mjs`, `bridge-runtime.mjs`, `native-host.mjs`) | pending commands with timers, one active connection, the rendezvous file | `receive`, `sendRelease`, `disconnect`, publish, connect, close | a framed pipe to the extension |
| Extension (`extension/service-worker.js`, `content-script.js`) | worker session, active releases, deferred notices; the page itself | state publication, release, injection | Chrome, the provider's page |
| Vault (`vault/*.mjs`) | SQLite header, index, wrapped blobs, nonce counters, retirement intent; keys in a key store | `capture`, `exportRecovery`, `rotateVaultKey`, `reconcileKeyRetirements`, unlock, create, restore, adopt | several processes on one database |
| Managed sponsorship (`managed/*.mjs`) | SQLite ledger of accounts, counters and one transaction per payload; keys under way | `anchor`, `account`, `provision`, `setSubscription`, `rotateAccessCode` | a signing helper (child process), HTTP clients, operator commands |
| Fast confirmation (`anchor/algorand/fast-confirm.mjs`, `proof/fast.go`) | one collection: two child processes, a timer | collect, verify | session, two network operators |
| Merkle batches, verifiers (`anchor/*`) | none | `merkleRoot`, `inclusion`, `verifyInclusion`, `verifyAnchor`, native `Verify` | session, recipient |
| Portable bundles (`recipient/portable.mjs`) | a cache within one verification | `portableBundle`, `verifyPortable` | recipient |
| Installation and updater (`distribution/*`) | a saved state per channel with the sequence floor, the manifest registered with Chrome, a serial queue, downloads | `init`, `record`, `rememberRelease`, `enable`, `remove`, `check`, `download` | file system, publisher, the app's page |
| Receipts (`recipient/local.mjs`) | one preview | `list`, `prepare`, `export`, `redact` | vault, page |
| Diagnostics (`release/diagnostics.mjs`) | a bounded ring of events, previews of it | `record`, `selection`, `preview`, `export` | every component one way, page |
| Local page and its server (`product-app.js`, `product-server.mjs`) | what is selected and on show, one action under way | one route per call of the session, the receipts, diagnostics and maintenance | the person |
| Demonstrator, fixtures, packaging | none | build scripts | |

What is hard in it, and where:

* **Waiting inside serial queues.** Both queues (`runtime.mjs:86`, `session.mjs:55`) hold one
  operation across network, timer and page round trips, while `updateDraft` runs outside them.
* **Crashes between an effect and its record.** Consumption, dispatch and outcome are three
  separate steps (`runtime.mjs:139`); a directory sync can fail after the rename took place.
* **Answers that come late, twice or never.** The bridge gives a release up after five seconds while
  the content script still works on it; the worker can be stopped by Chrome; documents reload.
* **Two processes on one database**, for the vault and for the sponsor's ledger; only transactions
  order them.
* **Two stores without a common transaction**: the database and the key store during a rotation.
* **Clocks and limits**: the sponsor's quotas, rates and spacing under a clock set back.
* **Founding a vault.** Two key-store items and a database written over five committed steps, with a
  cleanup that deletes the items again and may itself fail (`key-lifecycle.mjs:127-178`).
* **One place for a peer.** A candidate is validated by a child process and then has two seconds to
  present a token that the next publication replaces (`bridge-runtime.mjs:182-246`).
* **Two files that must agree.** The registration Chrome reads and the state that says what was
  registered are written one after the other (`lifecycle.mjs:99-102`).
* **What is saved is what was shown.** Previews are held in three places (page, receipts, diagnostics)
  while operations add records, events expire and answers come late (`product-app.js:103-134`).
* **Evidence from strangers.** Two operators of whom one may lie answer within one deadline; a
  recipient is handed proofs that mix true and forged parts.

## The modules

| Module | Models | Abstract specification |
|---|---|---|
| `Release` | release runtime and store | implements `ReleaseLedger`, single-use authorizations with a durable memory |
| `ReleaseProofs` | theorems about `Release` | |
| `Session` | protection session over the runtime | |
| `SessionProofs` | theorems about `Session` | |
| `Bridge` | adapter, bridge, worker, content script, page | implements `AdapterContract`, what `Release` assumes of an adapter |
| `BridgeProofs` | theorems about `Bridge` | |
| `Vault` | vault records, unlock, reconciliation and rotation | |
| `Founding` | extends `Vault`: create, restore, adopt | |
| `VaultProofs` | theorems about `Vault` and `Founding` | |
| `Rendezvous` | publication of the rendezvous, acceptance of a peer, shutdown | |
| `RendezvousProofs` | theorems about `Rendezvous` | |
| `Installation` | installation lifecycle, its files, the updater | |
| `Merkle` | record batches | compared with the standard's tree (`RootByLevels`) |
| `Archive` | extends `Merkle`: the network, `verifyAnchor` and the native `Verify` | |
| `Portable` | extends `Archive`: the recipient's check of a bundle | compared with what the network and the log hold |
| `FastConfirm` | extends `Archive`: the fast confirmation | |
| `Evidence` | `FastConfirm` and `Portable` over one network | |
| `EvidenceProofs` | theorems about batches, bundles and the fast confirmation in `Evidence` | |
| `Composer` | the page's previews and files, `LocalReceipts`, `LocalDiagnostics` | |
| `Desktop` | the page beside the session: `Installation` or `Composer` | |
| `DesktopProofs` | theorems about `Installation` and `Composer` in `Desktop` | |
| `Sponsorship` | managed service, its HTTP limits and operator commands | |
| `SponsorshipProofs` | theorems about `Sponsorship` | |
| `MC*` | the constants of small instances | |

The modules join at four seams. `Release` lets its adapter answer and expose as `AdapterContract`
allows, and `Bridge` is shown to stay within that contract. `Session` takes a call of the runtime for
a step that succeeds or throws, and its awaits end because a call of the runtime takes file operations
that end and one answer of the adapter (`DispatchEnds`). `Session` lets the managed service answer with any
transaction or none; that the service never signs a second one is `NeverResigned` of `Sponsorship`.
It takes collected evidence for true; what that rests on is `ConfirmationSound` of `FastConfirm`, and
that a collection ends at its deadline is `CollectionEnds`. `Rendezvous` hands `Bridge` its one
connection. `Founding` composes with `Vault` in one state: whatever a founding call leaves behind,
`Vault`'s own actions work on.

### Release

`mem` is `#state`, `disk` what `init` would read, `stable` what survives a loss of power; `op` is the
call at the head of the serial queue. A call of the runtime is several actions: its guarded start
(`SealPayload`, `Confirm`, `Retry`, `Cancel`, `Release`, `ReleaseContinuous`), then `persist` in the
pieces that can fail separately (`WriteFails`, `Rename`, `SyncFails`, `Sync`), then, for a release,
`Dispatch`, `Answers`, `Answered`, `Settled` and a second persist. `Crash` happens between any two
and chooses whether the disk keeps the rename that was not yet synced; `Start` is `init` with its
rewriting of interrupted dispatches. `Expose` is the page, at any time after the hand-over, also
after the answer. Calls that throw before they write change nothing and are no action. Abstracted:
payloads are values with collision-free digests; JSON and the vault capture round-trip.

A write that fails while the outcome is recorded leaves the attempt `DISPATCHING` in memory until the
next start: the model has it, and `RecordIsTrue` holds because `DISPATCHING` claims nothing.

### Session

`draft` moves with the request (`updateDraft` runs before the operation is queued); `queue` and
`phase` are the chain of promises and the await at which its first operation stands; `journal` is
the runtime's memory of each version. An operation is `Begin` (the checks when its turn comes), then
one action per await that returns (`Sealed`, `Submitted`, `Collected`, `Validated`, `Confirmed`,
`Retried`, `Cancelled`, `Consumed`, `Dispatch`, `Answered`, `Recorded`), or `Refused` and `Throws`.
A release that is dispatched and whose outcome cannot be written throws: the session then has no
attempt for a version the runtime knows was sent, and it is the runtime's own guard that keeps such a
version from being cancelled. A crash is not modelled here: a new session knows no version.
Captures of observations in the vault are left out except where their failure changes what happens
next. `confirmFast` and `anchorManaged` are one action with a flag, as in the code.

### Bridge

`page` is the provider's tab: conversation, empty composer, only active tab, permission. `publishing`
is a set, because two `publishState` calls may be overtaken by each other; `toApp` is the ordered
pipe; `att` follows each attempt from the adapter over the wire, the worker, the page and back.
Each await in the four programs is a place where the others may act; the app runs to completion
between two reads of its socket (`AppIdle`). The generation counter of the adapter appears as
whether an invalidation came since the dispatch (`stale`). `Timeout`, `Disconnect`,
`DisableIntegration`, `WorkerRestarts`, `Reload` and any change of the page may happen at any time.
Left out: fields of pairing messages that are only validated, reconnect delays (any time), and
`PAP_ADAPTER_ERROR`, whose effect is that of `Disconnect`.

One case is worth knowing: state messages read from the socket in the same chunk as a reply are
handled before `dispatch` resumes. A state that then revokes the enrollment turns an observed click
into `OUTCOME_UNKNOWN`. That is safe and costs the observation; `ClickIsObserved` excludes it.

### Vault

`db` is the database, `store` the key store, `proc` what each process holds in memory. Each committed
transaction and each key-store call is one action, so a failed call (`CaptureFails`,
`RotationFails`, `RetireFails`) or a `Crash` comes between any two. `wraps` counts how often a key
encrypted with a nonce. Captures commit only over the index that was read (`Unchanged`).

### Founding

`stage` says how far the directory's database came (directory, header, nonce reserved, index), `call`
is the founding call under way with its step, `signers` are the signing keys in the key store next to
`store`, the vault keys. `Create`, `Restore` and `AdoptLegacy` begin a call; `StoreMasterKey` to
`WriteFirstIndex` are its effects in the code's order, `Opened` reads the vault back or opens it with
the stored items, `ImportObject`, `SealImport` and `CommitImport` are the import of a recovered
snapshot. `StepFails` may follow any of them; a restore whose import failed is in `Doubt` and looks
whether everything is there (`Whole`), every other call goes straight to `DropSigner` and
`DropMaster`, either of which may fail unnoticed. `FounderDies` ends a call at any step. `kept` is the
vault some caller was given: from then on `Custody` protects it. `Works` is everything `Vault` does.

What the model shows besides its properties: a create that fails after `mkdir` leaves a directory that
can neither be opened nor created again until someone throws it away (`Discard`); a restore that dies
before its import commits leaves an empty vault that opens; a restore whose header cannot be read when
it is in doubt leaves its items in the key store (`orphans`).

Assumed: one founding call at a time and nobody at work on the directory meanwhile, as the packaged app
ensures with its application lock. Adoption is of a vault not yet in custody: adopting one a second
time and failing would delete the items in use.

### Rendezvous

`queue` is the chain of publications with who asked for each, `writing` the one whose file operations
are under way, `file` what hosts read, `rt` the runtime's own variables. A publication is
`BeginPublication` (a new token is in force from here), `RenamePublication` and `EndPublication`, or
`PublicationFails` before or after the rename, with what its asker's handler then does. A host goes
through `ReadRendezvous`, `Accept`, `Validated`, `Authenticate`, `Receive`; `Dropped` covers a
validator that rejects or times out, the two-second timer, a malformed line and a host that goes, and
`SocketClosed` is the close event, which comes later than the `destroy`. `Close` to `RemoveRendezvous`
are the awaits of `close()`. A token expires by `Expire`, at any time. Tokens are numbered in the order
they are drawn; a random one is never drawn twice.

Two things the model has and a reader might not expect: a used token stays acceptable while an earlier
publication is still being written (`UsedIsReplaced` says its replacement waits in line), and a start
whose first publication fails leaves its server listening until the process ends (`stranded`).

### Installation

`disk` has the saved state of each channel, `manifest` what Chrome reads, `app.mem` the lifecycle's
memory, `queue` and `op` its serial queue and the operation under way with its step, `up` the updater,
`files` the Updates directory. `Launch` is `init` of any version at any place, `Stop` its end or death
at any point. `ChangeManifest` and `Save` are the two writes, each of which may fail before or after
the file changed (`SaveFails`). The updater's records (`Queues`) wait in the same queue behind the
page's (`Ask`). `Checked` lets the service answer with any release it ever signed. A download is
`partial`, then `unchecked` under its final name, then `approved`; `UpdateFails` is the `finally`.

`torn` marks the one window the code leaves open: the registration changed and the state was not
saved. The next start then sees a registration its state does not account for, and if the app was moved
in between, `remove` and `enable` answer `INTEGRATION_CONFLICT` until the person clears it.
`RegistrationAccounted` says there is no other way to get there. The page's other events are counted
as `record` is. The updater exists in production builds only (`runtime-main.mjs:76`).

### Merkle, Archive, Portable, FastConfirm, Evidence

Hashes, signatures and headers are symbolic: equal only if made from equal parts, verifiable only under
what signed them. `Merkle` is the three functions of `merkle.mjs`, written as recursive functions.
`Archive` is the network (which block holds the batch, the State Proofs of its intervals) and every
check of `Verify` in its order, so that an archive's verdict is a function of its parts. `Portable`
lets a bundle arrive whose archives combine any header, index and chain of true and forged ones, with
objects left out or added and records that did not verify, and goes through `verifyPortable`'s loop with
its cache. `FastConfirm` is a collection: `ReadPending`, `ReadBlock` and `ReadProof` of each observer,
`ChildCloses`, `TimerFires`, `Abandons`, then `Verified`; operators that share something with each
other or with the application are among the configurations, and one party may answer anything.
Both checks read the network and share no state, so a behaviour of `Evidence` is one or the other.

What these models showed on the way, none of it contradicting a statement of the code: an inclusion
proof binds membership, not the position, unless the claimed size is the batch's own; the observer does
not compare the block's round with the one it asked for (the native verifier does); the pool-error and
expired fields are never set by the shipped observer; one lying operator can make evidence `INVALID`
rather than `PENDING`, never authorized.

### Composer

`page` is what the person sees and can press, `call` the one request of the action under way (`busy`),
which is asked, answered or refused, or lost at any point (`Fails`). Boxes and lists change at any time
(`ChooseReceipt`, `ChooseOperation`), since the page disables only its buttons. `Prepare`, `Export` and
`Derive` are `LocalReceipts` with its single `preview`; `Record`, `Selection`, `Preview` and `Report` are
`LocalDiagnostics`, pruned on every use: its events are shifted from the head, its previews, a Map,
are a set whose identifiers are drawn in the order of insertion, so that the first is the least. The session is seen only through the records its operations
capture, also after the page gave them up (`Admit`, `Capture`, `Finish`). A receipt is its number of
signed records; the evidence box and the list of components are left out as further choices of the same
kind. The limit on bytes is any number of events more than the limit on events drops. `saved` keeps the
last file beside what was on show when the person asked for it.

`Desktop` puts this beside `Installation`: maintenance, receipts and reports are what the page does
apart from the session. They keep their state in different components, and the page's one action is
all they share; between two actions it holds nothing (`call = None`). So `desk`, drawn at the start,
says which of the three a behaviour is about, and nothing is lost by not interleaving them.

### Sponsorship

Every committed transaction of the ledger is one action; several servers and the operator's commands
share it. A server runs alone between two awaits (`Runs`). The clock is chosen per transaction, so it
may jump either way; `Time` is the code's maximum with the stored one. The helper signs at any time
until it is killed, and submits once it has been handed the transaction. Access codes are never drawn
twice. A server that crashes starts again at once.

## The runs

Each module's type invariant is checked by its first run: `TypeOK` of `Release` and `Bridge` by name
(their theorems state it), the others as a part of an invariant (`QuotasHold`, `Custody`, `ViewIsJournal`,
`Connections`). Several invariants have parts that are named and explained in their modules; each part
has its own mutant.

| Run | Instance | Shows |
|---|---|---|
| `release_safety` | 2 versions, 2 attempts, 2 authorizations, 2 payloads, 2 scopes | an authorization is consumed on disk before the dispatch it pays for (`ConsumedBeforeDispatch`) and pays once (`AuthorizationSpentOnce`); exact versions (`ExactVersionAuthorized`); cancellation is final (`CancelIsFinal`); recorded outcomes are true (`RecordIsTrue`); observed ones are final and durable history only grows (`HistoryIsFinal`); the runtime implements the ledger (`ImplementsLedger`) |
| `session_queue` | 1 version, 5 operations, 2 texts, 2 revisions, 2 waiting, fairness | only the latest text is sent and assurance only grows (`VersionsHold`), every sending is approved and evidenced (`SentAsApproved`) and none follows a cancellation (its part `CancelledIsUnsent`), the session's view is the runtime's (`ViewIsJournal`), the queue drains (`DrainEnds`) |
| `bridge_release` | 1 attempt, 2 conversations, 2 worker sessions, 1 enrollment | text appears only in the enrolled, empty conversation (`ShownWhereEnrolled`); enrollments die with what they rest on (`EnrollmentIsHealthy`); an undisturbed click is observed (`ClickIsObserved`); the contract is kept (`KeepsContract`) |
| `bridge_live` | 1 attempt, 1 conversation, 2 worker sessions, fairness | every dispatch is answered (`DispatchEnds`); a page that strays is noticed, also during a release (`StrayingIsNoticed`) |
| `rendezvous` | 2 hosts, 2 starts, 3 publications, 2 waiting, fairness | one peer at a time, none once shut, nothing shown of a browser that is not there (`Connections`); a used token is due to be replaced, and nothing outlives its runtime (`PublicationsHold`); a silent peer and a close come to their end (`WaitsEnd`) |
| `vault_custody` | 1 process, 3 keys, 1 content, 6 wraps, 2 records | a vault created, restored or adopted keeps both its keys through two rotations and nothing is left in the key store unnamed and what was acknowledged or restored stays readable (`Custody`) |
| `vault_writers` | 2 processes, 2 keys, 2 contents, 5 wraps | no nonce repeats (`NonceUnique`), acknowledged captures stay and one key reads everything (`AcknowledgedReadable`) |
| `vault_second_opener` | 2 processes, 2 keys | `ActiveKeyKept` **violated**, see below |
| `sponsorship_quota` | 2 accounts, 2 payloads, 3 transactions, 2 handlers, days of 2 instants | fees and requests within the quotas, also through rotation, and what is held is exactly what is under way (`QuotasHold`); the ledger only grows, by reservations that are paid for (`LedgerGrows`) |
| `sponsorship_overlap` | 2 servers, 1 payload, 2 transactions, fairness | one transaction per payload, submitted as saved (`NeverResigned`), counted and spaced (`BroadcastsCounted`); every request ends (`RequestsEnd`) |
| `desktop` | 2 versions, 2 places, 2 channels, 1 waiting, 2 downloads; 2 receipts of 2 records, 2 previews; 3 events of which 2 fit for 2 of 3 ticks, 2 previews of which 1 is kept | a version that came up is the least that comes up again (`FloorHolds`); the newest release seen is never forgotten and the only one offered (`NewestIsRemembered`); only approved downloads are opened and failed ones are gone (`OnlyApprovedOpens`); what is registered is accounted for (`RegistrationAccounted`); a file of receipts has what the page showed when it was asked for, whatever was captured, redacted, reselected or lost since (`ReceiptsAsShown`); a support report is the one on show, without an expired event, and accounts for the events it lacks (`ReportsAsShown`) |
| `evidence` | batches of 1 to 9 records, 3 intervals of 2 rounds, 3 references, 2 verifications, a budget of 3 | inclusion proofs are accepted for members only and for all of them (`InclusionSound`); a verdict is given exactly when the network or the log holds the batch, with or without the cache (`VerdictsAreEarned`); evidence that authorizes names the true block and came in time, with one liar (`ConfirmationSound`); every collection ends with its children (`CollectionEnds`) |

**Why these bounds.** Each limit is the least at which the interesting case exists with one to spare:
two authorizations for a retry, two versions for a confirmation that answers for the other, two
worker sessions for an answer that outlives its worker, two rotations for an intent left behind by
the first, a limit of one or two so that it is reached, two handlers of one server and two servers so
that both the private set and the shared table decide, nine records so that the split is tried on both
sides of 2, 4 and 8, three State Proof intervals so that a chain can be too short, right or too long, two
verifications where three references may ask for one each, a clock that runs one tick past the budget,
a second preview that replaces or outlives the first. Identifiers of one kind are interchangeable and
reduced by symmetry where a run has no liveness property. Runs with `CHECK_DEADLOCK FALSE` really can
stop: a vault whose last key was deleted cannot be opened, a session or a rendezvous of which nothing
more is asked is done, keys to draw run out, and a report is an end.

**Fairness.** `Session`: what ends an await whatever others do, that is, the deadlines of the service,
the observers and the adapter, and the operation's own code; evidence need never come. `Bridge`: timers fire, destroyed sockets close, Chrome delivers and
answers messages; the page, the person, the worker's restarts and the permission are free.
`Sponsorship`: Node resumes ready callbacks and the helper is killed after its timeout; nothing makes
the helper sign, a client ask or the operator act. `Rendezvous`: file
operations and the steps of `close` end, destroyed sockets close, and the validator's and the
authentication timers fire; a host need never say anything. `FastConfirm`: the clock runs, an expired
timer fires, and the native verifier has a deadline; no operator need answer and no child need end by
itself. `Release`, `Vault`, `Founding`, `Composer` and `Installation` have no liveness property of their own.

### A disagreement between the code and what it says

`vault_second_opener`: `reconcileKeyRetirements` settles a pending intent whenever a vault is opened
(`vault/key-lifecycle.mjs:217`). If a second process opens the vault while another is between
storing the replacement and switching the header to it, the opener deletes the replacement as
obsolete; the rotation then commits a header that selects a key no longer in the store. The finding
in `PROJECT.json` quotes what the documentation says of it. With one process (`vault_custody`) the
active key is always kept.

Met while modelling, and not a run: a box changed while a preview is being prepared shows "Selection
changed. Preview before saving." (`product-app.js:103`), but the answer that then arrives sets the
preview and enables Save again (`product-app.js:121`), so the file has the receipts that were selected
before. The person sees what is in it: it is the preview on show (`ReceiptsAsShown`), not the boxes.

## What is proved

`tlapm` checks the eight modules of proofs for every value of the constants, from the named assumptions
on them: numbers are numbers and bounds positive; digests are collision-free; sets of accounts, payloads
and peers are finite; minutes do not run backwards on the service's calendar; the network's rounds are a
whole number of intervals, more than one, and a batch is not empty and has at most 512 records; and `None`,
the absent value, is none of the identifiers, messages, links or records it stands beside. TLC evaluates
each assumption in the runs. All safety properties of the passing runs are theorems, action properties and
both refinements included. The runs' specifications that add fairness imply the ones the theorems are about.

Where a property is not inductive, its strengthening was first checked by TLC on the run's instance. Each
proof has one lemma per action or per kind of change, frame lemmas for what a step leaves alone, and a
`PTL` step at the end.

### Release

* `TypeCorrect`, `DispatchIsDurable`, `SingleUse`, `OnlyAuthorizedVersions`,
  `CancellationIsFinal`, `OutcomesAreTrue`: the type invariant and the five safety invariants of
  `release_safety`.
* `HistoryKept`: after the caller was told that a version was observed it is never dispatched again, and
  the durable history of attempts only grows.
* `LedgerImplemented`: every behaviour of `Release` is one of `ReleaseLedger`.

None of the five is inductive. What each says of dispatched attempts must hold of *every journal a
restart could read*: memory, the file, the synced file and the journal a call is about to write. The
strengthening `IInv` therefore states a view invariant for each of these journals, an invariant of the
call under way (`OpInv`: what its next journal changes with respect to memory) and that each attempt
was handed over at most once. Its preservation is one lemma per kind of change to a journal
("a view after a seal, a confirmation, a retry, ...") and one lemma per group of actions that cites
them.

The other two relate journals to each other: `HInv` adds that every one of them extends the durable one
(`Remembers`: it has its attempts, keeps their class and knows every version the caller was told was
observed), that the call under way knows what it will tell (`OpKnows`) and that a granted authorization
was drawn. A step of the runtime then maps to a grant, a spending, a send or nothing, by the file it
makes durable.

### Session

* `ApprovedOnly`: each hand-over of a version has an approval of its own, a protected version shows its
  evidence before it, and what was acknowledged as cancelled is never sent.
* `ShownAsKnown`: what the session shows of a version is what the runtime knows of it.
* `VersionsKept`: no step sends a text out of date or takes back a degree of assurance or a transaction.

The queue serializes operations, so the argument is about the one at its head: `Turn` says what it has
read and decided before its await, `Outside` what anything else may still change during it, `Stands`
that what it decided on still holds when it resumes, `Matching` how view and journal correspond in
between, `Memory` what the shapes are. The run uses `FairSpec`, which implies `Spec`.

### Bridge

* `TypeCorrect`: the type invariant, with the shape of every message in flight.
* `BridgeContract`: every behaviour of `Bridge` is one of `AdapterContract`, for any number of
  attempts, conversations, worker sessions and messages in flight. The runs check one attempt.
* `EnrolledIsHealthy`: what is enrolled was enrolled over the open connection, with the running worker,
  and agrees with the last state it reported.
* `TextWhereEnrolled`: no step puts a text where it was not enrolled or over a draft.
* `UndisturbedIsObserved`: a release nothing disturbs is reported as the click it was.

The refinement needs to know, of each attempt, what the pieces scattered over worker, page, pipe and
adapter say about each other: an attempt not handed over is untouched; a refused one is out of every
place from which it could still reach the page, and was not shown; a result of `NONE` anywhere on its
way back means not shown and never to be shown, `CLICKED` means shown; an attempt still pending or
answered has no verdict; and at most one attempt is owed a verdict, so that a lost connection settles
one attempt and not two in a single step. That invariant (`IInv`: `Sound` of each attempt, `Backed` of
each message) is inductive. Each action has its lemma, which says what the action makes of each attempt
(`Steps`: nothing the contract sees, or hands over, refuses, shows, settles); `Preserved` and
`ContractStep` turn that, once for all actions, into the invariant and a step of the contract.

The later three need a second invariant over the same state: each message on the pipe was sent by the
session and over the connection it names (`Linked`), an attempt in the page is where it was enrolled
(`Where`), what the adapter was told is what was published (`Told`), and, of an undisturbed release, that
its own change of the composer is still held back or already behind its reply (`Calmly`).

### Vault and Founding

* `NoncesUsedOnce`: no key encrypts twice with one nonce, for any number of processes, whoever dies where.
* `AcknowledgedStays`: what was acknowledged stays at its place, readable under the key of the header.
* `VaultStaysInCustody`: a vault that was given keeps its keys and every stored key is accounted for.

`Holding` says what each process may do with the key and the counter it holds, `Readable` that the index is
readable under the header's key and under whatever a process is about to write. Custody is proved for a
single process, which is an assumption of the theorem itself: with two, a retirement can race a rotation,
and the key of the database is deleted. That is the disagreement above, which TLC shows (`ActiveKeyKept`);
the theorem says the library's protocol is right where one process has the vault. It follows what each
stage of a founding call, a rotation and a retirement owns of the keys drawn (`Given`, `Items`,
`CallSound`).

### Rendezvous

* `OneConnection`: there is never a second connection, nor one the runtime does not hold, nor any once
  the integration is removed.
* `PublicationsKept`: a token that let a peer in is always due to be replaced, and only an abandoned
  runtime leaves its file behind.

`Seated` accounts for each connection by the runtime's two places, candidate and active; `Published`
for each file by its runtime, and for each token by the publication that will replace it; `Starting` for
what a start that is not finished may already have.

### Installation and Composer

The theorems are about `DesktopSpec`, the specification the run `desktop` checks.

* `FloorStands`, `OnlyApproved`, `RegistrationKnown`: the three invariants of `Installation`.
* `NewestStays`: no step loses what is saved of a newer release, nor offers another.
* `FilesAsShown`, `ReportsAccounted`: a file is what was on show when the person asked for it; a report
  was fresh and counts what it lacks.

The floor and the newest release follow from what memory is to the saved state (`Floored`, `Known`), the
downloads from a name that no other file has (`Downloads`), the registration from both states a save may
leave (`Registered`); `Pending` ties each record the updater queued to the step that waits for it. For the
files, whoever holds the identifier of a preview - page, request, answer - holds its content (`Matches`,
`Reports`) or the preview is gone; and the log is numbered without gaps and in the order of its times
(`Orderly`), so that pruning from the head leaves nothing too old and a report's gaps are what it counts
(`Timely`).

### Sponsorship

* `SignedOnce`: one payload of one account is signed at most once and only its saved transaction is
  handed to the helper, however many servers share the ledger.
* `CountedFirst`: the durable counter is ahead of the submissions, which are spaced.
* `LedgerOnlyGrows`: nothing is refunded, redated, replaced or taken back.
* `QuotasHeld`: fees and request rates stay within the limits, and the running set is what is submitted.

Servers interleave freely between transactions, so each invariant ties a handler's phase to the row it
reserved (`OneTransaction`, `Counting`, `Live`); the quotas count reservations and requests by account,
day and month (`Quotas`, `Rates`) with `served`, a history of the requests let in, by cardinalities of
finite sets.

### Evidence

* `AuthorizedIsTrue`: evidence that authorizes names the block the transaction is in and came within the
  budget, and two honest operators are never found invalid.
* `NobodyRunsOn`: once a collection has ended neither observer runs on.
* `ProofsAreExact`: the root of the run's batch is the standard tree's, every record's inclusion proof is
  accepted, and none of the tampered ones for anything else. The lemmas hold for every batch of up to 512
  records. Two results say more than the run's property: `NothingElse`, that no proof of any path, size and
  place under a batch's root is accepted for a digest outside the batch, and `OneProofEach`, that at the
  batch's own size the accepted proofs are exactly those `inclusion` makes.
* `VerdictsEarned`: what a recipient finds is what the network or the log holds, for every interval length,
  number of rounds, length of chain, batch and number of cached verifications, and for every bundle of the
  model: true, forged or another's parts in any combination.

**Fast confirmation.** One party may lie, whatever it answers: `Truthful` is about whoever does not,
`Gathered` about what was collected of both, and `Judged` about the verdict: two operators that share
nothing cannot both be the liar.

**Batches.** The recursive functions of `Merkle` work on the slices of a batch. Each is first shown to be
defined on every slice (`RootExists`, `PathExists`, `UpExists`), then to be what it makes of its halves
(`RootIs`, `PathIs`, `UpIs`). The induction over the size of a slice is over sets of numbers (`Inducts`,
from the well-foundedness of the order), because an induction rule over a predicate is out of the provers'
reach. `PathLeads` says that a path leads from its leaf to the root and is no longer than the code allows
(`Low`), `OnlyMembers` that whatever leads to a slice's root began with one of its leaves, `OwnPlace` and
`OwnPath` that at the right size the place and the siblings are the true ones, `RowPairs` that pairing a
level of the standard's tree gives the roots of slices twice as wide.

**Bundles.** `OwnOnly` follows a chain of links from the checkpoint: it holds as far as it is the network's
own. `VerifyPasses`, `GenuinePasses` and `PassesGenuine` conclude that exactly the archive of the placed
batch passes, with any full header of that round, and `AnchorVerdict` that `verifyAnchor` adds the place in
the batch and the trust. The invariant `PInv` then says of the loop that each verdict so far is the one of
its own reference (`Followed`), although it may come from the cache: what is cached is the verdict of some
accepted reference with the same root, adapter and proof (`Cached`), and a verdict depends on nothing else
of an accepted reference (`SameVerdict`). This is why the place in the batch is checked before the cache is
asked, and the key needs the root.

### Not proved

Liveness under fairness is out of the prover's reach and stays with TLC: `DrainEnds`,
`DispatchEnds`, `StrayingIsNoticed`, `RequestsEnd`, `WaitsEnd`, `CollectionEnds`. `ActiveKeyKept` is not
proved because it is false. Theorems about `Evidence` are about the bundles of the model: those of a single
reference with any archive, and those of several references to the true archive and two forged variants of it.

## Not modelled

* Cryptography, encodings and verifiers: digests are taken to be collision-free, signatures sound.
* Presentation, packaging, fixtures and the demonstrator (an earlier composition of the same parts).
* Platform code in Swift and Go beyond its effects (a key store whose calls succeed or fail as a
  whole, a helper that signs, fails, hangs or submits late, a validator that accepts or not).
* Of the vault: migration of its schema (one transaction at opening), disclosure exports (they read), and
  rotation of the signing key (one item and one field).
* Of the recipient: what a verified record says of its own release. These are assertions of the client
  that the report lists as such; they never raise the verdict on an anchor.
* Of the local page: its other routes, each one call of a component modelled elsewhere, and their wording.
* Of an export of receipts: the anchors and public proofs that go with the selected records.
* The native host's relaying of frames, beyond being an ordered pipe (in `Bridge`).

## The plan

Done: the models of all components but those listed above, their runs, and the proofs of every safety
property, action property and refinement.

Next: bundles of several references to archives of different batches, the migration of the vault's schema,
and the proofs an export carries along.
