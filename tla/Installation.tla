------------------------------ MODULE Installation ------------------------------
(***************************************************************************)
(* The installed app beside its evidence: the rollback floor and the       *)
(* connection registered with Chrome (InstallationLifecycle), and the      *)
(* updater that checks and downloads releases (DesktopUpdater).            *)
(*                                                                         *)
(* Lifecycle operations run one after another.  Each changes its memory,   *)
(* some also the manifest, and then saves the whole memory; every write    *)
(* may fail before or after the file changed, and the process may die      *)
(* between any two.  The person may replace the app by another version,    *)
(* older ones included, or move it.  The updater runs one operation at a   *)
(* time and queues its own records behind the others.                      *)
(***************************************************************************)
EXTENDS Naturals, Sequences, FiniteSetsExt

CONSTANTS
  MaxSequence, \* bound on release sequences
  MaxDownloads, \* bound on files in the Updates directory
  Places,      \* where an app bundle may be: the path its manifest names
  Channels,    \* production or candidate, each with a state file of its own
  MaxQueue,    \* bound on operations waiting when the page asks for another
  None

VARIABLES
  disk,     \* each channel's saved state
  manifest, \* the registration Chrome reads: a place of ours, "foreign" or None
  app,      \* the running app, with the lifecycle's memory
  queue,    \* lifecycle operations that wait (#tail)
  op,       \* the one under way
  up,       \* the updater
  files,    \* what is in the Updates directory
  torn,     \* history: a registration changed and the state that says so was not saved
  ran,      \* history: the highest sequence of each channel that came up
  opened    \* history: files handed to the system to open

vars == <<disk, manifest, app, queue, op, up, files, torn, ran, opened>>

Releases == 1 .. MaxSequence
Saved == [installed : Releases, seen : Releases, path : Places \cup {None}]
Asked == {"offer", "enable", "remove"}
Operation(kind, to, by) == [kind |-> kind, to |-> to, by |-> by, step |-> "begin"]
Grades == {"partial", "unchecked", "approved"}
\* Where an operation of the updater is; the last four are how one it queued did.
Steps == {"fetch", "remembering", "recording", "remembered", "recorded", "failed"} \cup Grades

ASSUME InstallationAssumption ==
  /\ {MaxSequence, MaxQueue, MaxDownloads} \subseteq Nat \ {0}
  /\ None \notin Places \cup Channels \cup Nat \cup Saved /\ "foreign" \notin Places
  /\ None \notin Steps \cup {"check", "download"} \cup [id : 1 .. MaxDownloads, grade : Grades]

Off == [on |-> FALSE, ready |-> FALSE, channel |-> None, sequence |-> None, place |-> None,
        mem |-> None, offered |-> FALSE]
Idle == [busy |-> None, step |-> None, release |-> None, target |-> None, file |-> None]

Init ==
  /\ disk = [c \in Channels |-> None] /\ manifest = None
  /\ app = Off /\ queue = <<>> /\ op = None /\ up = Idle
  /\ files = {} /\ torn = FALSE /\ ran = [c \in Channels |-> 0] /\ opened = {}

-----------------------------------------------------------------------------
(* Vocabulary.                                                             *)

\* The registration is one a saved state accounts for, or none of ours.
Accounted(registered, saved) ==
  registered \in Places => \E c \in Channels : saved[c] # None /\ saved[c].path = registered

\* What an operation of the lifecycle expects to find registered.
Expected == IF app.mem.path = None THEN app.place ELSE app.mem.path

\* The operation ends; the updater learns how one of its own did.
Ends(answer) ==
  /\ op' = None
  /\ up' = IF op.by = "updater" THEN [up EXCEPT !.step = answer] ELSE up

Proceeds(step) == op' = [op EXCEPT !.step = step] /\ UNCHANGED up

-----------------------------------------------------------------------------
(* The process and what surrounds it.                                      *)

\* A plausible bug in Admitted, used only to test the properties.
AdmittedIfSeen(sequence, saved) == saved # None => sequence >= saved.installed \/ sequence < saved.seen
\* init rejects an app older than the last one that ran.
Admitted(sequence, saved) == saved # None => sequence >= saved.installed

\* A plausible bug in Launch, used only to test the properties.
LaunchForgetful(channel, sequence, place) ==
  LET path == IF disk[channel] = None THEN None ELSE disk[channel].path IN
  /\ ~app.on /\ Admitted(sequence, disk[channel])
  /\ app' = [Off EXCEPT !.on = TRUE, !.channel = channel, !.sequence = sequence, !.place = place,
                        !.mem = [installed |-> sequence, seen |-> sequence, path |-> path]]
  /\ op' = [Operation("launch", None, "init") EXCEPT !.step = "save"]
  /\ UNCHANGED <<disk, manifest, queue, up, files, torn, ran, opened>>
\* init: the saved state, or a first one, raised to this app's sequence; the launch is recorded.
Launch(channel, sequence, place) ==
  LET state == IF disk[channel] = None
               THEN [installed |-> sequence, seen |-> sequence, path |-> None] ELSE disk[channel]
  IN /\ ~app.on /\ Admitted(sequence, disk[channel])
     /\ app' = [Off EXCEPT !.on = TRUE, !.channel = channel, !.sequence = sequence, !.place = place,
                           !.mem = [state EXCEPT !.installed = sequence, !.seen = Max({@, sequence})]]
     /\ op' = [Operation("launch", None, "init") EXCEPT !.step = "save"]
     /\ UNCHANGED <<disk, manifest, queue, up, files, torn, ran, opened>>

\* The process ends or dies at any point and what was under way is lost. Its downloads stay where
\* they are under names no later process knows or reuses, so they leave the model.
Stop ==
  /\ app.on
  /\ app' = Off /\ queue' = <<>> /\ op' = None /\ up' = Idle
  /\ files' = {} /\ opened' = {}
  /\ UNCHANGED <<disk, manifest, torn, ran>>

\* Another program, or the person, replaces or removes the registration.
ForeignManifest(m) ==
  /\ m \in {None, "foreign"} /\ m # manifest
  /\ manifest' = m
  /\ UNCHANGED <<disk, app, queue, op, up, files, torn, ran, opened>>

-----------------------------------------------------------------------------
(* Lifecycle operations.                                                   *)

\* The app's page asks, once init has ended.
Ask(kind) ==
  /\ app.ready /\ Len(queue) < MaxQueue
  /\ queue' = Append(queue, Operation(kind, None, "page"))
  /\ UNCHANGED <<disk, manifest, app, op, up, files, torn, ran, opened>>

\* #serial: one starts when the last has ended, and runs to its first await.
Starts(kinds) == op = None /\ queue # <<>> /\ Head(queue).kind \in kinds /\ queue' = Tail(queue)

\* record: an event is counted, an export offer remembered in this process only.
Record ==
  /\ Starts({"record", "offer"})
  /\ op' = [Head(queue) EXCEPT !.step = "save"]
  /\ app' = [app EXCEPT !.offered = @ \/ Head(queue).kind = "offer"]
  /\ UNCHANGED <<disk, manifest, up, files, torn, ran, opened>>

\* rememberRelease: the highest sequence seen never falls.
RememberRelease ==
  /\ Starts({"remember"})
  /\ IF Head(queue).to < app.mem.seen
     THEN up' = [up EXCEPT !.step = "failed"] /\ UNCHANGED <<app, op>>
     ELSE /\ op' = [Head(queue) EXCEPT !.step = "save"]
          /\ app' = [app EXCEPT !.mem.seen = Head(queue).to] /\ UNCHANGED up
  /\ UNCHANGED <<disk, manifest, files, torn, ran, opened>>

\* enable and remove read the registration first.
ReadManifest ==
  /\ Starts({"enable", "remove"}) /\ op' = Head(queue)
  /\ UNCHANGED <<disk, manifest, app, up, files, torn, ran, opened>>

\* enable: what is registered must be absent, expected or this app's own.
Enable ==
  /\ op # None /\ op.kind = "enable" /\ op.step = "begin"
  /\ IF manifest \in {None, Expected, app.place} THEN Proceeds("write") ELSE Ends("failed")
  /\ UNCHANGED <<disk, manifest, app, queue, files, torn, ran, opened>>

\* remove: only after an export was offered, and only what the state expects.
Remove ==
  /\ op # None /\ op.kind = "remove" /\ op.step = "begin"
  /\ IF ~app.offered \/ manifest \notin {None, Expected}
     THEN Ends("failed") /\ UNCHANGED app
     ELSE IF manifest = None
     THEN Proceeds("save") /\ app' = [app EXCEPT !.mem.path = None, !.offered = FALSE]
     ELSE Proceeds("write") /\ UNCHANGED app
  /\ UNCHANGED <<disk, manifest, queue, files, torn, ran, opened>>

\* A plausible bug in ChangeManifest, used only to test the properties.
ChangeManifestUnnoted ==
  LET next == IF op.kind = "enable" THEN app.place ELSE None IN
  /\ op # None /\ op.step = "write"
  /\ manifest' = next /\ Proceeds("save")
  /\ app' = [app EXCEPT !.mem.path = IF @ = None THEN next ELSE @]
  /\ torn' = (torn \/ manifest' # manifest)
  /\ UNCHANGED <<disk, queue, files, ran, opened>>
\* The registration is written or removed; then memory says so. Or the write fails, before the
\* file changed or, when its directory cannot be synced, after.
ChangeManifest ==
  LET next == IF op.kind = "enable" THEN app.place ELSE None IN
  /\ op # None /\ op.step = "write"
  /\ \/ /\ manifest' = next /\ Proceeds("save")
        /\ app' = [app EXCEPT !.mem.path = next, !.offered = @ /\ next # None]
     \/ /\ manifest' \in {manifest, next} /\ Ends("failed") /\ UNCHANGED app
  /\ torn' = (torn \/ manifest' # manifest)
  /\ UNCHANGED <<disk, queue, files, ran, opened>>

\* #save: the whole memory replaces the file. The first one admits the app's page.
Save ==
  /\ op # None /\ op.step = "save"
  /\ disk' = [disk EXCEPT ![app.channel] = app.mem]
  /\ Ends(IF op.kind = "remember" THEN "remembered" ELSE "recorded")
  /\ torn' = (torn /\ op.kind \notin {"enable", "remove"} /\ ~Accounted(manifest, disk'))
  /\ app' = [app EXCEPT !.ready = TRUE]
  /\ ran' = [ran EXCEPT ![app.channel] = Max({@, app.sequence})]
  /\ UNCHANGED <<manifest, queue, files, opened>>

\* A save that fails leaves memory ahead of the file, or the file changed and the caller told
\* that it was not; an app whose launch cannot be recorded does not come up.
SaveFails ==
  /\ op # None /\ op.step = "save"
  /\ disk' \in {disk, [disk EXCEPT ![app.channel] = app.mem]}
  /\ Ends("failed")
  /\ app' = IF op.kind = "launch" THEN Off ELSE app
  /\ UNCHANGED <<manifest, queue, files, torn, ran, opened>>

-----------------------------------------------------------------------------
(* The updater.                                                            *)

\* #exclusive's failure: whatever was offered is withdrawn and the file begun is removed. A removal
\* that fails leaves a file nobody knows or opens, so it leaves the model too.
UpdateFails ==
  up' = Idle /\ files' = files \ {up.file}

\* It queues one operation at a time, whatever others wait.
Queues(kind, to) == queue' = Append(queue, Operation(kind, to, "updater"))

\* check: the release offered before is forgotten, then stable.json is asked for.
CheckUpdate ==
  /\ app.ready /\ app.channel = "production" /\ up.busy = None
  /\ up' = [Idle EXCEPT !.busy = "check", !.step = "fetch"]
  /\ UNCHANGED <<disk, manifest, app, queue, op, files, torn, ran, opened>>

\* verifyRelease: neither older than this app nor than a release seen before.
Acceptable(sequence) == sequence >= app.sequence /\ sequence >= app.mem.seen

\* The service answers with any release it ever signed, or not at all; the answer is remembered
\* before it is offered.
Checked(sequence) ==
  /\ up.busy = "check" /\ up.step = "fetch"
  /\ \/ /\ Acceptable(sequence) /\ Queues("remember", sequence)
        /\ up' = [up EXCEPT !.step = "remembering", !.target = sequence]
        /\ UNCHANGED files
     \/ UpdateFails /\ UNCHANGED queue
  /\ UNCHANGED <<disk, manifest, app, op, torn, ran, opened>>

\* It is remembered and the check recorded: now it may be offered.
CheckRecorded ==
  /\ up.busy = "check"
  /\ \/ /\ up.step = "remembered" /\ Queues("record", None)
        /\ up' = [up EXCEPT !.step = "recording"]
     \/ /\ up.step = "recorded" /\ UNCHANGED queue
        /\ up' = [Idle EXCEPT !.release = IF up.target > app.sequence THEN up.target ELSE None]
  /\ UNCHANGED <<disk, manifest, app, op, files, torn, ran, opened>>

\* Its record could not be saved, or a newer release was seen.
RecordFailed ==
  /\ up.step = "failed" /\ UpdateFails
  /\ UNCHANGED <<disk, manifest, app, queue, op, torn, ran, opened>>

\* A name no file of the directory has had (randomUUID).
FreshNames ==
  LET free == {id \in 1 .. MaxDownloads : \A f \in files \cup opened : f.id # id} IN
  {id \in free : \A other \in free : id <= other}

\* download: of the release offered, unless it has expired or a newer one was seen.
DownloadUpdate ==
  /\ app.ready /\ up.busy = None /\ up.release # None
  /\ \/ /\ up.release >= app.mem.seen
        /\ \E id \in FreshNames :
             LET file == [id |-> id, grade |-> "partial"] IN
             /\ up' = [up EXCEPT !.busy = "download", !.step = "fetch", !.file = file]
             /\ files' = files \cup {file}
     \/ UpdateFails
  /\ UNCHANGED <<disk, manifest, app, queue, op, torn, ran, opened>>

Regraded(grade) ==
  LET file == [up.file EXCEPT !.grade = grade] IN
  files' = (files \ {up.file}) \cup {file} /\ up' = [up EXCEPT !.file = file, !.step = grade]

\* A plausible bug in Download, used only to test the properties.
DownloadUnhashed ==
  /\ up.busy = "download"
  /\ \/ up.step = "fetch" /\ Regraded("unchecked") /\ UNCHANGED queue
     \/ /\ up.step = "unchecked" /\ UNCHANGED files
        /\ Queues("record", None) /\ up' = [up EXCEPT !.step = "recording"]
     \/ up.step \in {"fetch", "unchecked", "approved"} /\ UpdateFails /\ UNCHANGED queue
  /\ UNCHANGED <<disk, manifest, app, op, torn, ran, opened>>
\* Bytes of the right length and hash get their name; then Apple's tools assess them; then the
\* download is recorded. Any of it may fail.
Download ==
  /\ up.busy = "download"
  /\ \/ up.step = "fetch" /\ Regraded("unchecked") /\ UNCHANGED queue
     \/ up.step = "unchecked" /\ Regraded("approved") /\ UNCHANGED queue
     \/ /\ up.step = "approved" /\ UNCHANGED files
        /\ Queues("record", None) /\ up' = [up EXCEPT !.step = "recording"]
     \/ up.step \in {"fetch", "unchecked", "approved"} /\ UpdateFails /\ UNCHANGED queue
  /\ UNCHANGED <<disk, manifest, app, op, torn, ran, opened>>

\* Committed: the path is handed out and opened.
OpenDownload ==
  /\ up.busy = "download" /\ up.step = "recorded"
  /\ opened' = opened \cup {up.file}
  /\ up' = [Idle EXCEPT !.release = up.release]
  /\ UNCHANGED <<disk, manifest, app, queue, op, files, torn, ran>>

-----------------------------------------------------------------------------
Lifecycle == Record \/ RememberRelease \/ ReadManifest \/ Enable \/ Remove \/ ChangeManifest \/ Save \/ SaveFails
Updating == (\E s \in Releases : Checked(s)) \/ CheckRecorded \/ RecordFailed \/ Download \/ OpenDownload

Next ==
  \/ \E c \in Channels, s \in Releases, p \in Places : Launch(c, s, p)
  \/ Stop \/ (\E m \in {None, "foreign"} : ForeignManifest(m))
  \/ \E kind \in Asked : Ask(kind)
  \/ Lifecycle \/ Updating \/ CheckUpdate \/ DownloadUpdate

Spec == Init /\ [][Next]_vars

-----------------------------------------------------------------------------
(* Properties.                                                             *)

\* A version that came up once is the least that comes up again, whatever failed or died in
\* between and whichever channel ran meanwhile: the floor is saved before the app opens the
\* vault (init), and only upwards.
FloorHolds ==
  /\ app.ready => app.sequence >= ran[app.channel]
  /\ \A c \in Channels : ran[c] > 0 => disk[c] # None /\ disk[c].installed >= ran[c]

\* No knowledge of a newer release is ever lost from the saved state, whatever version runs, and
\* a release is offered or downloaded only while it is the newest one saved: an older one that
\* the service signed earlier never returns (check, rememberRelease, init).
NewestIsRemembered == [][
  /\ \A c \in Channels : disk[c] # None => disk'[c] # None /\ disk'[c].seen >= disk[c].seen
  /\ up'.release # None => up'.release = disk[app.channel].seen ]_vars

\* Nothing is opened but a complete download that Apple's tools approved, no later download
\* touches it, and nothing a failed one wrote is kept (download and its finally).
OnlyApprovedOpens ==
  /\ \A f \in opened : f.grade = "approved" /\ f \in files
  /\ up.busy = None => files = opened

\* Whatever is registered by this app is what a saved state says, so that the next version can
\* tell it from another program's, unless a registration was interrupted between its two files
\* (enable, remove).
RegistrationAccounted == ~torn => Accounted(manifest, disk)
=============================================================================
