-------------------------- MODULE DesktopProofs --------------------------
(***************************************************************************)
(* What the app beside the session promises: the installation for any      *)
(* number of releases, places, channels, downloads and waiting operations, *)
(* the page's files for any number of receipts, events, previews and       *)
(* limits.                                                                 *)
(*                                                                         *)
(* Installation.  The floor and the newest release follow from what the    *)
(* app's memory is to its channel's file (Floored, Known), the downloads   *)
(* from the name that is nobody else's (Downloads), the registration from  *)
(* the two states the next save may leave (Registered).  Pending ties each *)
(* record the updater queued to the one step that waits for it.            *)
(*                                                                         *)
(* Files.  Whoever holds the identifier of a preview - the page, a request *)
(* under way, an answer not yet shown - holds the content it identifies    *)
(* (Matches, Reports); events are numbered without gaps (Orderly), so that *)
(* a preview accounts for its own and expires with them (Timely).          *)
(***************************************************************************)
EXTENDS Desktop, SequenceTheorems, FiniteSetTheorems, WellFoundedInduction, TLAPS

Kinds == {"record", "remember", "offer", "enable", "remove"}
Command == [kind : Kinds \cup {"launch"}, to : Releases \cup {None}, by : {"init", "page", "updater"},
            step : {"begin", "write", "save"}]
File == [id : 1 .. MaxDownloads, grade : Grades]
App == [on : BOOLEAN, ready : BOOLEAN, channel : Channels \cup {None}, sequence : Releases \cup {None},
        place : Places \cup {None}, mem : Saved \cup {None}, offered : BOOLEAN]
Updater == [busy : {None, "check", "download"},
            step : Steps \cup {None},
            release : Releases \cup {None}, target : Releases \cup {None}, file : File \cup {None}]

Shaped ==
  /\ disk \in [Channels -> Saved \cup {None}] /\ manifest \in Places \cup {"foreign", None}
  /\ app \in App /\ up \in Updater
  /\ queue \in Seq(Command) /\ op \in Command \cup {None}
  /\ files \subseteq File /\ opened \subseteq File /\ torn \in BOOLEAN
  /\ ran \in [Channels -> Releases \cup {0}]
  /\ app.on => /\ app.channel \in Channels /\ app.sequence \in Releases
               /\ app.place \in Places /\ app.mem \in Saved

\* Nothing is under way before there is an app to do it.
Started ==
  /\ ~app.ready => queue = <<>> /\ up = Idle
  /\ app.ready => app.on
  /\ op # None => /\ app.on /\ (op.kind = "launch" => ~app.ready)
                  /\ op.step = "save" \/ op.kind \in {"enable", "remove"}
  /\ \A i \in DOMAIN queue : queue[i].kind # "launch" /\ queue[i].step = "begin"

\* The operation of the updater that its step waits for.
Awaited(o) ==
  /\ o.kind = "remember" => o.by = "updater"
  /\ o.by = "updater" =>
       \/ o.kind = "remember" /\ up.busy = "check" /\ up.step = "remembering" /\ o.to = up.target /\ o.to # None
       \/ o.kind = "record" /\ up.busy # None /\ up.step = "recording"
Pending ==
  /\ \A i \in DOMAIN queue : Awaited(queue[i])
  /\ \A i, j \in DOMAIN queue : queue[i].by = "updater" /\ queue[j].by = "updater" => i = j
  /\ op # None => /\ Awaited(op)
                  /\ op.by = "updater" => \A i \in DOMAIN queue : queue[i].by # "updater"
                  /\ op.kind = "remember" => op.to = app.mem.seen

Floored ==
  /\ app.on => app.mem.installed = app.sequence /\ app.sequence >= ran[app.channel]
  /\ \A c \in Channels : ran[c] > 0 => disk[c] # None /\ disk[c].installed >= ran[c]

Newest(release) == disk[app.channel] # None /\ disk[app.channel].seen = release /\ app.mem.seen = release
Known ==
  /\ app.on /\ disk[app.channel] # None => app.mem.seen >= disk[app.channel].seen
  /\ up.busy = "check" => up.release = None
  /\ up.busy = "check" /\ up.step \in {"remembered", "recording", "recorded"} =>
       up.target # None /\ Newest(up.target)
  /\ up.release # None => Newest(up.release)

Downloads ==
  /\ \A f \in opened : f.grade = "approved"
  /\ up.busy # "download" => files = opened /\ up.file = None
  /\ up.busy = "download" =>
       /\ up.file \in File /\ files = opened \cup {up.file}
       /\ \A f \in opened : f.id # up.file.id
       /\ up.step \in {"approved", "recording", "recorded"} => up.file.grade = "approved"

\* What the registration would be to the state after a save.
Remembered ==
  manifest \in Places =>
    \/ app.mem.path = manifest
    \/ \E c \in Channels \ {app.channel} : disk[c] # None /\ disk[c].path = manifest
Registered ==
  /\ ~torn => Accounted(manifest, disk) /\ (app.on => Remembered)
  /\ op # None /\ op.step = "save" =>
       /\ op.kind = "enable" => (manifest \in Places => manifest = app.mem.path)
       /\ op.kind = "remove" => manifest \notin Places

IInv == Shaped /\ Started /\ Pending /\ Floored /\ Known /\ Downloads /\ Registered

-----------------------------------------------------------------------------
(* Shapes.                                                                 *)

LEMMA Constants ==
  /\ MaxSequence \in Nat \ {0} /\ MaxDownloads \in Nat \ {0}
  /\ None \notin Places /\ None \notin Channels /\ None \notin Nat /\ None \notin Saved
  /\ None \notin Releases /\ None \notin File /\ None \notin Steps /\ None \notin {"check", "download"}
  /\ "foreign" \notin Places /\ Releases \subseteq Nat
  BY InstallationAssumption DEF Releases, File

LEMMA LargerOf ==
  ASSUME NEW a \in Nat, NEW b \in Nat
  PROVE  Max({a, b}) \in {a, b} /\ Max({a, b}) >= a /\ Max({a, b}) >= b
  <1>1. \E x \in {a, b} : \A y \in {a, b} : x >= y
    <2>1. CASE a >= b BY <2>1
    <2>2. CASE ~(a >= b) BY <2>2
    <2> QED BY <2>1, <2>2
  <1> QED BY <1>1 DEF Max

LEMMA OffType ==
  /\ Off \in App /\ ~Off.on /\ ~Off.ready /\ Off.mem = None /\ ~Off.offered
  /\ Idle \in Updater /\ Idle.busy = None /\ Idle.step = None /\ Idle.release = None
  /\ Idle.target = None /\ Idle.file = None
  BY DEF Off, App, Idle, Updater

LEMMA OperationType ==
  ASSUME NEW kind \in Kinds \cup {"launch"}, NEW to \in Releases \cup {None},
         NEW by \in {"init", "page", "updater"}
  PROVE  LET o == Operation(kind, to, by) IN
         o \in Command /\ o.kind = kind /\ o.to = to /\ o.by = by /\ o.step = "begin"
  BY DEF Operation, Command

LEMMA StepType ==
  ASSUME NEW o \in Command, NEW step \in {"begin", "write", "save"}
  PROVE  LET new == [o EXCEPT !.step = step] IN
         new \in Command /\ new.kind = o.kind /\ new.to = o.to /\ new.by = o.by /\ new.step = step
  BY DEF Command

\* How an operation that ended or goes on leaves the updater.
LEMMA EndsType ==
  ASSUME Shaped, NEW answer \in Steps, op # None, Ends(answer)
  PROVE  /\ op' = None /\ up' \in Updater
         /\ op.by # "updater" => up' = up
         /\ op.by = "updater" => /\ up'.step = answer /\ up'.busy = up.busy /\ up'.release = up.release
                                 /\ up'.target = up.target /\ up'.file = up.file
  <1>1. up \in Updater BY DEF Shaped
  <1> QED BY <1>1 DEF Ends, Updater

LEMMA InitHolds == Init => IInv
  <1> SUFFICES ASSUME Init PROVE IInv
    OBVIOUS
  <1>1. Shaped
    <2>1. queue \in Seq(Command) BY DEF Init
    <2> QED BY <2>1, OffType DEF Init, Shaped
  <1>2. Started /\ Pending BY OffType DEF Init, Started, Pending
  <1>3. Floored /\ Known BY OffType, Constants DEF Init, Floored, Known
  <1>4. Downloads BY OffType, Constants DEF Init, Downloads
  <1>5. Registered BY OffType, Constants DEF Init, Registered, Accounted
  <1> QED BY <1>1, <1>2, <1>3, <1>4, <1>5 DEF IInv
-----------------------------------------------------------------------------
(* What a step leaves alone.                                               *)

LEMMA FlooredKept ==
  ASSUME Floored, disk' = disk, ran' = ran,
         app'.on => /\ app.on /\ app'.channel = app.channel /\ app'.sequence = app.sequence
                    /\ app'.mem.installed = app.mem.installed
  PROVE  Floored'
  BY DEF Floored

LEMMA KnownKept ==
  ASSUME Known, disk' = disk, app'.on => app.on, app'.channel = app.channel, app'.mem.seen = app.mem.seen,
         up'.busy = up.busy, up'.release = up.release, up'.target = up.target,
         up'.step \in {"remembered", "recording", "recorded"} => up.step \in {"remembered", "recording", "recorded"}
  PROVE  Known'
  BY DEF Known, Newest

LEMMA DownloadsKept ==
  ASSUME Downloads, UNCHANGED <<files, opened>>, up'.busy = up.busy, up'.file = up.file,
         up'.step \in {"approved", "recording", "recorded"} => up.step \in {"approved", "recording", "recorded"}
  PROVE  Downloads'
  BY DEF Downloads

LEMMA RegisteredKept ==
  ASSUME Registered, torn' = torn, disk' = disk, manifest' = manifest \/ manifest' \notin Places,
         app'.on => app.on /\ app'.channel = app.channel,
         app'.mem.path = app.mem.path,
         op' = op \/ (op' # None /\ op'.step = "save" => op'.kind \notin {"enable", "remove"})
  PROVE  Registered'
  BY DEF Registered, Remembered, Accounted

\* Nothing of the updater waits unless its step waits for it.
LEMMA NonePending ==
  ASSUME Pending, up.busy = None \/ up.step \notin {"remembering", "recording"}
  PROVE  /\ \A i \in DOMAIN queue : queue[i].by # "updater"
         /\ op # None => op.by # "updater"
  BY Constants DEF Pending, Awaited

\* The first that waits, and those that go on waiting.
LEMMA HeadType ==
  ASSUME Shaped, Started, Pending, queue # <<>>
  PROVE  /\ Head(queue) \in Command /\ Tail(queue) \in Seq(Command)
         /\ Awaited(Head(queue)) /\ Head(queue).kind # "launch" /\ app.ready /\ app.on
         /\ Head(queue).step = "begin"
         /\ \A i \in DOMAIN Tail(queue) : /\ Tail(queue)[i].kind # "launch" /\ Awaited(Tail(queue)[i])
                                          /\ Tail(queue)[i].step = "begin"
         /\ \A i, j \in DOMAIN Tail(queue) :
              Tail(queue)[i].by = "updater" /\ Tail(queue)[j].by = "updater" => i = j
         /\ Head(queue).by = "updater" => \A i \in DOMAIN Tail(queue) : Tail(queue)[i].by # "updater"
  <1>1. /\ queue \in Seq(Command) /\ Len(queue) \in Nat /\ DOMAIN queue = 1 .. Len(queue)
        /\ Len(queue) > 0
    BY LenProperties, EmptySeq DEF Shaped
  <1>2. Head(queue) = queue[1] /\ 1 \in DOMAIN queue /\ queue[1] \in Command BY <1>1, HeadTailProperties, ElementOfSeq
  <1>3. /\ Tail(queue) \in Seq(Command) /\ Len(Tail(queue)) = Len(queue) - 1
        /\ \A i \in 1 .. Len(Tail(queue)) : Tail(queue)[i] = queue[i + 1]
    BY <1>1, HeadTailProperties
  <1>4. ASSUME NEW i \in DOMAIN Tail(queue)
        PROVE  i \in Nat /\ i + 1 \in DOMAIN queue /\ i + 1 # 1 /\ Tail(queue)[i] = queue[i + 1]
    <2>1. i \in 1 .. Len(Tail(queue)) BY <1>3, LenProperties
    <2> QED BY <1>1, <1>3, <2>1
  <1>5. app.ready /\ app.on BY DEF Started
  <1>6. Awaited(Head(queue)) /\ Head(queue).kind # "launch" /\ Head(queue).step = "begin"
    BY <1>2 DEF Pending, Started
  <1>7. \A i \in DOMAIN Tail(queue) : /\ Tail(queue)[i].kind # "launch" /\ Awaited(Tail(queue)[i])
                                      /\ Tail(queue)[i].step = "begin"
    BY <1>4 DEF Pending, Started
  <1>8. ASSUME NEW i \in DOMAIN Tail(queue), NEW j \in DOMAIN Tail(queue),
               Tail(queue)[i].by = "updater", Tail(queue)[j].by = "updater"
        PROVE  i = j
    <2>1. i + 1 = j + 1 BY <1>4, <1>8 DEF Pending
    <2> QED BY <1>4, <2>1
  <1>9. ASSUME NEW i \in DOMAIN Tail(queue), Head(queue).by = "updater" PROVE Tail(queue)[i].by # "updater"
    BY <1>2, <1>4, <1>9 DEF Pending
  <1> QED BY <1>2, <1>3, <1>5, <1>6, <1>7, <1>8, <1>9

\* One more waits.
LEMMA AppendType ==
  ASSUME Shaped, Started, NEW o \in Command, o.kind # "launch", o.step = "begin"
  PROVE  /\ Append(queue, o) \in Seq(Command)
         /\ \A i \in DOMAIN Append(queue, o) :
              Append(queue, o)[i].kind # "launch" /\ Append(queue, o)[i].step = "begin"
         /\ \A i \in DOMAIN Append(queue, o) :
              \/ i \in DOMAIN queue /\ Append(queue, o)[i] = queue[i]
              \/ i = Len(queue) + 1 /\ Append(queue, o)[i] = o
  <1>1. queue \in Seq(Command) /\ Len(queue) \in Nat /\ DOMAIN queue = 1 .. Len(queue)
    BY LenProperties DEF Shaped
  <1>2. /\ Append(queue, o) \in Seq(Command) /\ Len(Append(queue, o)) = Len(queue) + 1
        /\ \A j \in 1 .. Len(queue) : Append(queue, o)[j] = queue[j]
        /\ Append(queue, o)[Len(queue) + 1] = o
    BY <1>1, AppendProperties
  <1>3. ASSUME NEW i \in DOMAIN Append(queue, o)
        PROVE  \/ i \in DOMAIN queue /\ Append(queue, o)[i] = queue[i]
               \/ i = Len(queue) + 1 /\ Append(queue, o)[i] = o
    <2>1. i \in 1 .. Len(queue) + 1 BY <1>2, LenProperties
    <2> QED BY <1>1, <1>2, <2>1
  <1> QED BY <1>2, <1>3 DEF Started

\* Whatever waits does so for the same step.
LEMMA PendingKept ==
  ASSUME Pending, queue' = queue, op' = op,
         up'.busy = up.busy, up'.step = up.step, up'.target = up.target, app'.mem.seen = app.mem.seen
  PROVE  Pending'
  BY DEF Pending, Awaited
-----------------------------------------------------------------------------
(* The process and what surrounds it.                                      *)

LEMMA LaunchState ==
  ASSUME Shaped, NEW c \in Channels, NEW s \in Releases, NEW p \in Places, Launch(c, s, p)
  PROVE  /\ app' \in App /\ app'.on /\ ~app'.ready
         /\ app'.channel = c /\ app'.sequence = s /\ app'.place = p /\ app'.mem \in Saved
         /\ app'.mem.installed = s
         /\ disk[c] # None => app'.mem.seen >= disk[c].seen /\ app'.mem.path = disk[c].path /\ s >= disk[c].installed
         /\ op' \in Command /\ op'.kind = "launch" /\ op'.by = "init" /\ op'.step = "save"
  <1> DEFINE state == IF disk[c] = None
                      THEN [installed |-> s, seen |-> s, path |-> None] ELSE disk[c]
             mem == [state EXCEPT !.installed = s, !.seen = Max({@, s})]
             launch == Operation("launch", None, "init")
  <1>1. state \in Saved /\ s \in Nat /\ state.seen \in Nat
    <2>1. disk[c] # None => disk[c] \in Saved BY DEF Shaped
    <2>2. [installed |-> s, seen |-> s, path |-> None] \in Saved BY DEF Saved
    <2>3. state \in Saved BY <2>1, <2>2
    <2> HIDE DEF state
    <2> QED BY <2>3, Constants DEF Saved
  <1>2. disk[c] # None => state = disk[c] OBVIOUS
  <1> HIDE DEF state
  <1>3. Max({state.seen, s}) \in Releases /\ Max({state.seen, s}) >= state.seen
    BY <1>1, LargerOf DEF Saved
  <1>4. mem \in Saved /\ mem.installed = s /\ mem.seen = Max({state.seen, s}) /\ mem.path = state.path
    BY <1>1, <1>3 DEF Saved
  <1>5. app' = [Off EXCEPT !.on = TRUE, !.channel = c, !.sequence = s, !.place = p, !.mem = mem]
    BY DEF Launch, state
  <1> HIDE DEF mem
  <1>6. /\ app' \in App /\ app'.on /\ ~app'.ready /\ app'.channel = c /\ app'.sequence = s
        /\ app'.place = p /\ app'.mem = mem
    BY <1>4, <1>5, OffType DEF App
  <1>7. launch \in Command /\ launch.kind = "launch" /\ launch.by = "init" BY OperationType
  <1>8. op' = [launch EXCEPT !.step = "save"] BY DEF Launch
  <1> HIDE DEF launch
  <1>9. op' \in Command /\ op'.kind = "launch" /\ op'.by = "init" /\ op'.step = "save"
    BY <1>7, <1>8, StepType
  <1>10. disk[c] # None => s >= disk[c].installed BY DEF Launch, Admitted
  <1> QED BY <1>2, <1>3, <1>4, <1>6, <1>9, <1>10

LEMMA Launches ==
  ASSUME IInv, NEW c \in Channels, NEW s \in Releases, NEW p \in Places, Launch(c, s, p)
  PROVE  IInv'
  <1> USE DEF IInv
  <1>1. /\ app' \in App /\ app'.on /\ ~app'.ready
        /\ app'.channel = c /\ app'.sequence = s /\ app'.place = p /\ app'.mem \in Saved
        /\ app'.mem.installed = s
        /\ disk[c] # None => app'.mem.seen >= disk[c].seen /\ app'.mem.path = disk[c].path /\ s >= disk[c].installed
        /\ op' \in Command /\ op'.kind = "launch" /\ op'.by = "init" /\ op'.step = "save"
    BY LaunchState
  <1>2. UNCHANGED <<disk, manifest, queue, up, files, torn, ran, opened>> BY DEF Launch
  <1>3. ~app.on /\ queue = <<>> /\ up = Idle BY DEF Launch, Started
  <1>4. Shaped' BY <1>1, <1>2 DEF Shaped
  <1>5. Started' BY <1>1, <1>2, <1>3 DEF Started
  <1>6. Pending' BY <1>1, <1>2, <1>3 DEF Pending, Awaited
  <1>7. Floored'
    <2>1. ran[c] \in Nat /\ (disk[c] # None => disk[c].installed \in Nat) /\ s \in Nat
      <3>1. Releases \subseteq Nat BY Constants
      <3>2. disk[c] \in Saved \cup {None} /\ ran[c] \in Releases \cup {0} BY DEF Shaped
      <3> QED BY <3>1, <3>2 DEF Saved
    <2>2. s >= ran[c] BY <1>1, <2>1 DEF Floored
    <2> QED BY <1>1, <1>2, <2>2 DEF Floored
  <1>8. Known' BY <1>1, <1>2, <1>3, OffType, Constants DEF Known
  <1>9. Downloads' BY <1>2 DEF Downloads
  <1>10. Registered' BY <1>1, <1>2 DEF Registered, Remembered, Accounted
  <1> QED BY <1>4, <1>5, <1>6, <1>7, <1>8, <1>9, <1>10

LEMMA Stops == ASSUME IInv, Stop PROVE IInv'
  <1> USE DEF IInv
  <1>1. /\ app' = Off /\ queue' = <<>> /\ op' = None /\ up' = Idle /\ files' = {} /\ opened' = {}
        /\ UNCHANGED <<disk, manifest, torn, ran>>
    BY DEF Stop
  <1>2. Shaped' BY <1>1, OffType DEF Shaped
  <1>3. Started' /\ Pending' BY <1>1, OffType DEF Started, Pending
  <1>4. Floored' /\ Known' BY <1>1, OffType, Constants DEF Floored, Known
  <1>5. Downloads' BY <1>1, OffType, Constants DEF Downloads
  <1>6. Registered' BY <1>1, OffType DEF Registered, Accounted
  <1> QED BY <1>2, <1>3, <1>4, <1>5, <1>6

LEMMA Surroundings ==
  ASSUME IInv, \/ \E m \in {None, "foreign"} : ForeignManifest(m)
               \/ \E kind \in Asked : Ask(kind)
  PROVE  IInv'
  <1> USE DEF IInv
  <1>1. ASSUME NEW m \in {None, "foreign"}, ForeignManifest(m) PROVE IInv'
    <2>1. manifest' \in {None, "foreign"} /\ manifest' \notin Places
          /\ UNCHANGED <<disk, app, queue, op, up, files, torn, ran, opened>>
      BY <1>1, Constants DEF ForeignManifest
    <2>2. Shaped' BY <2>1 DEF Shaped
    <2>3. Started' /\ Pending' BY <2>1, PendingKept DEF Started
    <2>4. Floored' /\ Known' /\ Downloads' BY <2>1, FlooredKept, KnownKept, DownloadsKept
    <2>5. Registered' BY <2>1, RegisteredKept
    <2> QED BY <2>2, <2>3, <2>4, <2>5
  <1>2. ASSUME NEW kind \in Asked, Ask(kind) PROVE IInv'
    <2> DEFINE o == Operation(kind, None, "page")
    <2>1. o \in Command /\ o.kind = kind /\ o.by = "page" /\ o.step = "begin"
      BY OperationType DEF Asked, Kinds
    <2>2. o.kind \notin {"launch", "remember"} BY <2>1 DEF Asked
    <2>3. queue' = Append(queue, o) /\ app.ready /\ UNCHANGED <<disk, manifest, app, op, up, files, torn, ran, opened>>
      BY <1>2 DEF Ask
    <2> HIDE DEF o
    <2>4. /\ queue' \in Seq(Command)
          /\ \A i \in DOMAIN queue' : queue'[i].kind # "launch" /\ queue'[i].step = "begin"
          /\ \A i \in DOMAIN queue' : (i \in DOMAIN queue /\ queue'[i] = queue[i]) \/ queue'[i] = o
      BY <2>1, <2>2, <2>3, AppendType
    <2>5. Shaped' BY <2>3, <2>4 DEF Shaped
    <2>6. Started' BY <2>3, <2>4 DEF Started
    <2>7. Pending' BY <2>1, <2>2, <2>3, <2>4 DEF Pending, Awaited
    <2>8. Floored' /\ Known' /\ Downloads' BY <2>3, FlooredKept, KnownKept, DownloadsKept
    <2>9. Registered' BY <2>3, RegisteredKept
    <2> QED BY <2>5, <2>6, <2>7, <2>8, <2>9
  <1> QED BY <1>1, <1>2
-----------------------------------------------------------------------------
(* Lifecycle operations.                                                   *)

\* The first that waits begins; the updater and its files are as they were.
LEMMA Begins ==
  ASSUME IInv, op = None, queue # <<>>, queue' = Tail(queue),
         UNCHANGED <<disk, manifest, up, files, torn, ran, opened>>,
         op' \in Command, op'.kind = Head(queue).kind, op'.to = Head(queue).to, op'.by = Head(queue).by,
         op'.step = "save" <=> op'.kind \notin {"enable", "remove"},
         app' \in App, app'.on, app'.ready = app.ready, app'.channel = app.channel, app'.place = app.place,
         app'.sequence = app.sequence, app'.mem \in Saved, app'.mem.installed = app.mem.installed,
         app'.mem.path = app.mem.path,
         \/ op'.kind # "remember" /\ app'.mem.seen = app.mem.seen
         \/ op'.kind = "remember" /\ app'.mem.seen = op'.to /\ app'.mem.seen >= app.mem.seen
  PROVE  IInv'
  <1> USE DEF IInv
  <1>1. /\ Tail(queue) \in Seq(Command) /\ Awaited(op') /\ op'.kind # "launch" /\ app.ready /\ app.on
        /\ \A i \in DOMAIN queue' : /\ queue'[i].kind # "launch" /\ Awaited(queue'[i])
                                    /\ queue'[i].step = "begin"
        /\ \A i, j \in DOMAIN queue' : queue'[i].by = "updater" /\ queue'[j].by = "updater" => i = j
        /\ op'.by = "updater" => \A i \in DOMAIN queue' : queue'[i].by # "updater"
    <2>1. Awaited(Head(queue)) /\ Head(queue).kind # "launch" BY HeadType
    <2>2. Awaited(op') BY <2>1 DEF Awaited
    <2> QED BY <2>1, <2>2, HeadType
  <1>2. Shaped' BY <1>1 DEF Shaped
  <1>3. Started' BY <1>1 DEF Started
  <1>4. \A o : Awaited(o)' <=> Awaited(o) BY DEF Awaited
  <1>5. Pending' BY <1>1 DEF Pending, Awaited
  <1>6. Floored' BY <1>1, FlooredKept
  <1>7. Known'
    <2>1. CASE app'.mem.seen = app.mem.seen BY <1>1, <2>1, KnownKept
    <2>2. CASE op'.kind = "remember" /\ app'.mem.seen >= app.mem.seen
      <3>1. up.busy = "check" /\ up.step = "remembering" BY <1>1, <2>2 DEF Awaited
      <3>2. up.release = None BY <3>1 DEF Known
      <3>3. disk[app.channel] # None => disk[app.channel].seen \in Nat /\ app.mem.seen \in Nat /\ app'.mem.seen \in Nat
        BY <1>1, Constants DEF Shaped, Saved
      <3>4. app'.channel \in Channels BY <1>1 DEF Shaped
      <3> QED BY <1>1, <2>2, <3>1, <3>2, <3>3 DEF Known
    <2> QED BY <2>1, <2>2
  <1>8. Downloads' BY DownloadsKept
  <1>9. Registered' BY <1>1, RegisteredKept
  <1> QED BY <1>2, <1>3, <1>5, <1>6, <1>7, <1>8, <1>9

LEMMA Starting ==
  ASSUME IInv, Record \/ RememberRelease \/ ReadManifest
  PROVE  IInv'
  <1> USE DEF IInv
  <1>1. /\ op = None /\ queue # <<>> /\ queue' = Tail(queue)
        /\ UNCHANGED <<disk, manifest, files, torn, ran, opened>>
    BY DEF Record, RememberRelease, ReadManifest, Starts
  <1>2. /\ Head(queue) \in Command /\ Tail(queue) \in Seq(Command)
        /\ Awaited(Head(queue)) /\ app.ready /\ app.on /\ app \in App /\ app.mem \in Saved
    BY <1>1, HeadType DEF Shaped
  <1>3. CASE Record
    <2>1. op' = [Head(queue) EXCEPT !.step = "save"] /\ Head(queue).kind \in {"record", "offer"} /\ up' = up
      BY <1>3 DEF Record, Starts
    <2>2. /\ op' \in Command /\ op'.kind = Head(queue).kind /\ op'.to = Head(queue).to
          /\ op'.by = Head(queue).by
      BY <1>2, <2>1, StepType
    <2>3. app' = [app EXCEPT !.offered = @ \/ Head(queue).kind = "offer"] BY <1>3 DEF Record
    <2>4. /\ app' \in App /\ app'.on /\ app'.ready = app.ready /\ app'.channel = app.channel
          /\ app'.sequence = app.sequence /\ app'.mem = app.mem /\ app'.place = app.place
      BY <1>2, <2>3 DEF App
    <2> QED BY <1>1, <1>2, <2>1, <2>2, <2>4, Begins
  <1>4. CASE ReadManifest
    <2>1. op' = Head(queue) /\ Head(queue).kind \in {"enable", "remove"} /\ UNCHANGED <<app, up>>
      BY <1>4 DEF ReadManifest, Starts
    <2>2. op'.step = "begin" BY <1>1, <2>1, HeadType
    <2> QED BY <1>1, <1>2, <2>1, <2>2, Begins
  <1>5. CASE RememberRelease
    <2>1. Head(queue).kind = "remember" BY <1>5 DEF RememberRelease, Starts
    <2>2. /\ Head(queue).by = "updater" /\ up.busy = "check" /\ up.step = "remembering"
          /\ Head(queue).to = up.target /\ Head(queue).to \in Releases
      BY <1>2, <2>1 DEF Awaited, Command
    <2>3. CASE Head(queue).to < app.mem.seen
      <3>1. up' = [up EXCEPT !.step = "failed"] /\ app' = app /\ op' = op BY <1>5, <2>3 DEF RememberRelease
      <3>2. /\ up' \in Updater /\ up'.step = "failed" /\ up'.busy = up.busy /\ up'.release = up.release
            /\ up'.target = up.target /\ up'.file = up.file
        BY <3>1 DEF Shaped, Updater, Steps
      <3>3. Shaped' BY <1>1, <1>2, <3>1, <3>2 DEF Shaped
      <3>4. \A i \in DOMAIN queue' : /\ queue'[i].kind # "launch" /\ queue'[i].by # "updater"
                                     /\ queue'[i].step = "begin"
                                     /\ queue'[i].kind = "remember" => queue'[i].by = "updater"
        BY <1>1, <2>2, HeadType DEF Awaited
      <3>5. Started' BY <1>1, <1>2, <3>1, <3>4 DEF Started
      <3>6. Pending' BY <1>1, <3>1, <3>4 DEF Pending, Awaited
      <3>7. Floored' /\ Known' /\ Downloads' /\ Registered'
        BY <1>1, <3>1, <3>2, FlooredKept, KnownKept, DownloadsKept, RegisteredKept
      <3> QED BY <3>3, <3>5, <3>6, <3>7
    <2>4. CASE ~(Head(queue).to < app.mem.seen)
      <3>1. /\ op' = [Head(queue) EXCEPT !.step = "save"] /\ up' = up
            /\ app' = [app EXCEPT !.mem.seen = Head(queue).to]
        BY <1>5, <2>4 DEF RememberRelease
      <3>2. /\ op' \in Command /\ op'.kind = Head(queue).kind /\ op'.to = Head(queue).to
            /\ op'.by = Head(queue).by
        BY <1>2, <3>1, StepType
      <3>3. /\ app'.mem \in Saved /\ app'.mem.seen = Head(queue).to
            /\ app'.mem.installed = app.mem.installed /\ app'.mem.path = app.mem.path
            /\ app' \in App /\ app'.on /\ app'.ready = app.ready /\ app'.channel = app.channel
            /\ app'.sequence = app.sequence /\ app'.place = app.place
        BY <1>2, <2>2, <3>1 DEF App, Saved
      <3>4. app'.mem.seen >= app.mem.seen
        <4>1. Head(queue).to \in Nat /\ app.mem.seen \in Nat BY <1>2, <2>2, Constants DEF Saved
        <4> QED BY <2>4, <3>3, <4>1
      <3> QED BY <1>1, <2>1, <3>1, <3>2, <3>3, <3>4, Begins
    <2> QED BY <2>3, <2>4
  <1> QED BY <1>3, <1>4, <1>5

\* The operation under way ends with an answer that saves nothing, or goes on.
LEMMA Fails ==
  ASSUME IInv, op # None, Ends("failed"), queue' = queue,
         UNCHANGED <<app, disk, files, ran, opened>>,
         manifest' \in Places \cup {"foreign", None}, torn' \in BOOLEAN,
         \/ torn' = torn /\ manifest' = manifest
         \/ torn'
  PROVE  IInv'
  <1> USE DEF IInv
  <1>1. /\ op' = None /\ up' \in Updater
        /\ op.by # "updater" => up' = up
        /\ op.by = "updater" => /\ up'.step = "failed" /\ up'.busy = up.busy /\ up'.release = up.release
                                /\ up'.target = up.target /\ up'.file = up.file
    BY EndsType DEF Steps
  <1>2. Shaped' BY <1>1 DEF Shaped
  <1>3. Started'
    <2>1. op.by = "updater" => app.ready BY OffType, Constants DEF Pending, Awaited, Started
    <2> QED BY <1>1, <2>1 DEF Started
  <1>4. Pending'
    <2>1. CASE op.by = "updater"
      <3>1. \A i \in DOMAIN queue : queue[i].by # "updater" /\ queue[i].kind # "remember"
        BY <2>1 DEF Pending, Awaited
      <3> QED BY <1>1, <3>1 DEF Pending, Awaited
    <2>2. CASE op.by # "updater" BY <1>1, <2>2 DEF Pending, Awaited
    <2> QED BY <2>1, <2>2
  <1>5. Floored' /\ Known' /\ Downloads' BY <1>1, FlooredKept, KnownKept, DownloadsKept
  <1>6. Registered' BY <1>1 DEF Registered, Remembered
  <1> QED BY <1>2, <1>3, <1>4, <1>5, <1>6

\* It goes on, and nothing but memory's path, the offer and the registration may change.
LEMMA GoesOn ==
  ASSUME IInv, op # None, op.kind \in {"enable", "remove"}, NEW step \in {"write", "save"}, Proceeds(step),
         queue' = queue, UNCHANGED <<disk, files, ran, opened>>,
         manifest' \in Places \cup {"foreign", None}, torn' \in BOOLEAN,
         app' \in App, app'.on, app'.ready = app.ready, app'.channel = app.channel, app'.sequence = app.sequence,
         app'.place = app.place, app'.mem \in Saved, app'.mem.installed = app.mem.installed,
         app'.mem.seen = app.mem.seen, Registered'
  PROVE  IInv'
  <1> USE DEF IInv
  <1>1. /\ op' \in Command /\ op'.kind = op.kind /\ op'.by = op.by /\ op'.to = op.to
        /\ up' = up
    <2>1. op \in Command /\ op' = [op EXCEPT !.step = step] /\ up' = up BY DEF Proceeds, Shaped
    <2>2. step \in {"begin", "write", "save"} OBVIOUS
    <2> QED BY <2>1, <2>2, StepType
  <1>2. app.on BY DEF Started
  <1>3. Shaped' BY <1>1, <1>2 DEF Shaped
  <1>4. Started' BY <1>1, <1>2 DEF Started
  <1>5. Pending' BY <1>1 DEF Pending, Awaited
  <1>6. Floored' /\ Known' /\ Downloads' BY <1>1, <1>2, FlooredKept, KnownKept, DownloadsKept
  <1> QED BY <1>3, <1>4, <1>5, <1>6

LEMMA Enables == ASSUME IInv, Enable PROVE IInv'
  <1> USE DEF IInv
  <1>1. CASE Ends("failed") BY <1>1, Fails DEF Enable, Shaped
  <1>2. CASE Proceeds("write")
    <2>1. UNCHANGED <<disk, manifest, app, queue, files, torn, ran, opened>> /\ op # None /\ op.kind = "enable"
      BY DEF Enable
    <2>2. op' = [op EXCEPT !.step = "write"] BY <1>2 DEF Proceeds
    <2>3. op'.step # "save" BY <2>1, <2>2, StepType DEF Shaped
    <2>4. Registered' BY <2>1, <2>3, RegisteredKept
    <2>5. app.on /\ app \in App /\ app.mem \in Saved BY <2>1 DEF Started, Shaped
    <2> QED BY <1>2, <2>1, <2>4, <2>5, GoesOn DEF Shaped
  <1> QED BY <1>1, <1>2 DEF Enable

LEMMA Removes == ASSUME IInv, Remove PROVE IInv'
  <1> USE DEF IInv
  <1>1. CASE Ends("failed") /\ app' = app BY <1>1, Fails DEF Remove, Shaped
  <1>2. CASE Proceeds("write") /\ app' = app
    <2>1. UNCHANGED <<disk, manifest, app, queue, files, torn, ran, opened>> /\ op # None /\ op.kind = "remove"
      BY <1>2 DEF Remove
    <2>2. op' = [op EXCEPT !.step = "write"] BY <1>2 DEF Proceeds
    <2>3. op'.step # "save" BY <2>1, <2>2, StepType DEF Shaped
    <2>4. Registered' BY <2>1, <2>3, RegisteredKept
    <2>5. app.on /\ app \in App /\ app.mem \in Saved BY <2>1 DEF Started, Shaped
    <2> QED BY <1>2, <2>1, <2>4, <2>5, GoesOn DEF Shaped
  <1>3. CASE /\ Proceeds("save") /\ manifest = None
             /\ app' = [app EXCEPT !.mem.path = None, !.offered = FALSE]
    <2>1. UNCHANGED <<disk, manifest, queue, files, torn, ran, opened>> /\ op # None /\ op.kind = "remove"
      BY DEF Remove
    <2>2. app.on /\ app \in App /\ app.mem \in Saved BY <2>1 DEF Started, Shaped
    <2>3. /\ app' \in App /\ app'.on /\ app'.ready = app.ready /\ app'.channel = app.channel
          /\ app'.sequence = app.sequence /\ app'.place = app.place /\ app'.mem \in Saved
          /\ app'.mem.installed = app.mem.installed /\ app'.mem.seen = app.mem.seen
      BY <1>3, <2>2 DEF App, Saved
    <2>4. op'.kind = op.kind BY <1>3, <2>1, StepType DEF Proceeds, Shaped
    <2>5. Registered' BY <1>3, <2>1, <2>3, <2>4, Constants DEF Registered, Remembered, Accounted
    <2> QED BY <1>3, <2>1, <2>3, <2>5, GoesOn DEF Shaped
  <1> QED BY <1>1, <1>2, <1>3 DEF Remove

LEMMA ChangesManifest == ASSUME IInv, ChangeManifest PROVE IInv'
  <1> USE DEF IInv
  <1> DEFINE next == IF op.kind = "enable" THEN app.place ELSE None
  <1>1. /\ op # None /\ op.step = "write" /\ op.kind \in {"enable", "remove"}
        /\ app.on /\ app \in App /\ app.mem \in Saved /\ app.place \in Places
        /\ UNCHANGED <<disk, queue, files, ran, opened>>
    BY DEF ChangeManifest, Started, Shaped
  <1>2. next \in Places \cup {None} /\ (op.kind = "remove" => next = None) /\ (op.kind = "enable" => next = app.place)
    BY <1>1
  <1>3. torn' = (torn \/ manifest' # manifest) /\ torn' \in BOOLEAN BY DEF ChangeManifest, Shaped
  <1>4. \/ /\ manifest' = next /\ Proceeds("save")
           /\ app' = [app EXCEPT !.mem.path = next, !.offered = @ /\ next # None]
        \/ /\ manifest' \in {manifest, next} /\ Ends("failed") /\ UNCHANGED app
    BY DEF ChangeManifest
  <1> HIDE DEF next
  <1>5. CASE /\ manifest' = next /\ Proceeds("save")
             /\ app' = [app EXCEPT !.mem.path = next, !.offered = @ /\ next # None]
    <2>1. [app.mem EXCEPT !.path = next] \in Saved BY <1>1, <1>2 DEF Saved
    <2>2. /\ app' \in App /\ app'.on /\ app'.ready = app.ready /\ app'.channel = app.channel
          /\ app'.sequence = app.sequence /\ app'.place = app.place
          /\ app'.mem = [app.mem EXCEPT !.path = next]
      BY <1>1, <1>5, <2>1 DEF App
    <2>3. /\ app'.mem \in Saved /\ app'.mem.path = next
          /\ app'.mem.installed = app.mem.installed /\ app'.mem.seen = app.mem.seen
      BY <1>1, <2>1, <2>2 DEF Saved
    <2>4. op'.kind = op.kind
      <3>1. op \in Command /\ op' = [op EXCEPT !.step = "save"] BY <1>1, <1>5 DEF Proceeds, Shaped
      <3> QED BY <3>1, StepType
    <2>5. Registered'
      <3>1. manifest' \in Places => app'.mem.path = manifest' /\ op.kind = "enable"
        BY <1>1, <1>2, <1>5, <2>3, Constants
      <3>2. ~torn' => Accounted(manifest, disk)'
        BY <1>1, <1>3 DEF Registered, Accounted
      <3> QED BY <2>4, <3>1, <3>2 DEF Registered, Remembered
    <2>6. manifest' \in Places \cup {"foreign", None} BY <1>2, <1>5
    <2> QED BY <1>1, <1>3, <1>5, <2>2, <2>3, <2>5, <2>6, GoesOn
  <1>6. CASE manifest' \in {manifest, next} /\ Ends("failed") /\ UNCHANGED app
    <2>1. manifest' \in Places \cup {"foreign", None} BY <1>2, <1>6 DEF Shaped
    <2>2. (torn' = torn /\ manifest' = manifest) \/ torn'
      <3>1. CASE torn BY <1>3, <3>1
      <3>2. CASE manifest' # manifest BY <1>3, <3>2
      <3>3. CASE ~torn /\ manifest' = manifest
        <4>1. torn = FALSE /\ torn' = FALSE BY <1>3, <3>3 DEF Shaped
        <4> QED BY <3>3, <4>1
      <3> QED BY <3>1, <3>2, <3>3
    <2> QED BY <1>1, <1>3, <1>6, <2>1, <2>2, Fails
  <1> QED BY <1>4, <1>5, <1>6

\* The file after a save.
LEMMA DiskType ==
  ASSUME Shaped, app.on, disk' = [disk EXCEPT ![app.channel] = app.mem]
  PROVE  /\ disk' \in [Channels -> Saved \cup {None}]
         /\ app.channel \in Channels /\ disk'[app.channel] = app.mem /\ app.mem # None /\ app.mem \in Saved
         /\ \A c \in Channels \ {app.channel} : disk'[c] = disk[c]
  BY Constants DEF Shaped

LEMMA Saves == ASSUME IInv, Save PROVE IInv'
  <1> USE DEF IInv
  <1> DEFINE answer == IF op.kind = "remember" THEN "remembered" ELSE "recorded"
  <1>1. /\ op # None /\ op.step = "save" /\ app.on /\ op \in Command
        /\ disk' = [disk EXCEPT ![app.channel] = app.mem] /\ Ends(answer)
        /\ UNCHANGED <<manifest, queue, files, opened>>
    BY DEF Save, Started, Shaped
  <1>2. /\ disk' \in [Channels -> Saved \cup {None}]
        /\ app.channel \in Channels /\ disk'[app.channel] = app.mem /\ app.mem # None /\ app.mem \in Saved
        /\ \A c \in Channels \ {app.channel} : disk'[c] = disk[c]
    BY <1>1, DiskType
  <1>3. app' = [app EXCEPT !.ready = TRUE] /\ app \in App BY DEF Save, Shaped
  <1>4. /\ app' \in App /\ app'.on /\ app'.ready /\ app'.channel = app.channel /\ app'.mem = app.mem
        /\ app'.sequence = app.sequence /\ app'.place = app.place
    BY <1>1, <1>3 DEF App
  <1>5. answer \in Steps BY DEF Steps
  <1> HIDE DEF answer
  <1>6. /\ op' = None /\ up' \in Updater
        /\ op.by # "updater" => up' = up
        /\ op.by = "updater" => /\ up'.step = answer /\ up'.busy = up.busy /\ up'.release = up.release
                                /\ up'.target = up.target /\ up'.file = up.file
    BY <1>1, <1>5, EndsType
  <1>7. /\ ran[app.channel] \in Nat /\ app.sequence \in Nat
        /\ ran' = [ran EXCEPT ![app.channel] = Max({@, app.sequence})]
        /\ app.sequence >= ran[app.channel]
    BY <1>1, <1>2, Constants DEF Save, Shaped, Floored
  <1>8. /\ ran' \in [Channels -> Releases \cup {0}] /\ ran'[app.channel] = app.sequence
        /\ \A c \in Channels \ {app.channel} : ran'[c] = ran[c]
    <2>1. Max({ran[app.channel], app.sequence}) = app.sequence BY <1>7, LargerOf
    <2> QED BY <1>1, <1>2, <1>7, <2>1 DEF Shaped
  <1>9. Shaped'
    <2>1. torn' \in BOOLEAN BY DEF Save
    <2> QED BY <1>1, <1>2, <1>4, <1>6, <1>8, <2>1 DEF Shaped
  <1>10. Started' BY <1>1, <1>4, <1>6 DEF Started
  <1>11. Pending'
    <2>1. CASE op.by = "updater"
      <3>1. \A i \in DOMAIN queue : queue[i].by # "updater" /\ queue[i].kind # "remember"
        BY <1>1, <2>1 DEF Pending, Awaited
      <3> QED BY <1>1, <1>6, <3>1 DEF Pending, Awaited
    <2>2. CASE op.by # "updater" BY <1>1, <1>6, <2>2 DEF Pending, Awaited
    <2> QED BY <2>1, <2>2
  <1>12. Floored'
    <2>1. app.mem.installed = app.sequence BY <1>1 DEF Floored
    <2>2. app'.mem.installed = app'.sequence /\ app'.sequence >= ran'[app'.channel]
      BY <1>4, <1>7, <1>8, <2>1
    <2>3. ASSUME NEW c \in Channels, ran'[c] > 0 PROVE disk'[c] # None /\ disk'[c].installed >= ran'[c]
      <3>1. CASE c = app.channel BY <1>2, <1>4, <2>1, <2>2, <3>1
      <3>2. CASE c # app.channel BY <1>2, <1>8, <2>3, <3>2 DEF Floored
      <3> QED BY <3>1, <3>2
    <2> QED BY <2>2, <2>3 DEF Floored
  <1>13. Known'
    <2>1. \A release : Newest(release) => Newest(release)' BY <1>2, <1>4 DEF Newest
    <2>2. app'.mem.seen >= disk'[app'.channel].seen
      <3>1. app.mem.seen \in Nat BY <1>2, Constants DEF Saved
      <3> QED BY <1>2, <1>4, <3>1
    <2>3. CASE op.by # "updater" BY <1>6, <2>1, <2>2, <2>3 DEF Known
    <2>4. CASE op.by = "updater" /\ op.kind = "remember"
      <3>1. /\ up.busy = "check" /\ up.target # None /\ app.mem.seen = up.target
            /\ up'.busy = "check" /\ up'.release = None /\ up'.target = up.target
        BY <1>1, <1>6, <2>4 DEF Pending, Awaited, Known
      <3>2. Newest(up.target)' BY <1>2, <1>4, <1>6, <2>4, <3>1 DEF Newest
      <3> QED BY <2>2, <3>1, <3>2 DEF Known
    <2>5. CASE op.by = "updater" /\ op.kind = "record"
      <3>1. up.step = "recording" BY <1>1, <2>5 DEF Pending, Awaited
      <3> QED BY <1>6, <2>1, <2>2, <2>5, <3>1 DEF Known
    <2> QED BY <1>1, <2>3, <2>4, <2>5 DEF Pending, Awaited
  <1>14. Downloads'
    <2>1. CASE op.by # "updater" BY <1>1, <1>6, <2>1, DownloadsKept
    <2>2. CASE op.by = "updater" /\ op.kind = "remember"
      <3>1. up'.step = "remembered" BY <1>6, <2>2 DEF answer
      <3> QED BY <1>1, <1>6, <2>2, <3>1, DownloadsKept
    <2>3. CASE op.by = "updater" /\ op.kind = "record"
      <3>1. up.step = "recording" BY <1>1, <2>3 DEF Pending, Awaited
      <3> QED BY <1>1, <1>6, <2>3, <3>1, DownloadsKept
    <2> QED BY <1>1, <2>1, <2>2, <2>3 DEF Pending, Awaited
  <1>15. Registered'
    <2>1. torn' = (torn /\ op.kind \notin {"enable", "remove"} /\ ~Accounted(manifest, disk')) BY DEF Save
    <2>2. Remembered => Accounted(manifest, disk)' /\ Remembered'
      BY <1>1, <1>2, <1>4 DEF Remembered, Accounted
    <2>3. Accounted(manifest, disk') => Remembered' /\ Accounted(manifest, disk)'
      BY <1>1, <1>2, <1>4 DEF Remembered, Accounted
    <2>4. op.kind \in {"enable", "remove"} => Remembered BY <1>1 DEF Registered, Remembered
    <2>5. ~torn => Remembered BY <1>1 DEF Registered
    <2> QED BY <1>6, <2>1, <2>2, <2>3, <2>4, <2>5 DEF Registered
  <1> QED BY <1>9, <1>10, <1>11, <1>12, <1>13, <1>14, <1>15

LEMMA SavesNot == ASSUME IInv, SaveFails PROVE IInv'
  <1> USE DEF IInv
  <1>1. /\ op # None /\ op.step = "save" /\ app.on /\ op \in Command /\ app \in App
        /\ disk' \in {disk, [disk EXCEPT ![app.channel] = app.mem]} /\ Ends("failed")
        /\ UNCHANGED <<manifest, queue, files, torn, ran, opened>>
        /\ app' = IF op.kind = "launch" THEN Off ELSE app
    BY DEF SaveFails, Started, Shaped
  <1>2. /\ disk' \in [Channels -> Saved \cup {None}] /\ app.channel \in Channels /\ app.mem \in Saved /\ app.mem # None
        /\ disk'[app.channel] = disk[app.channel] \/ disk'[app.channel] = app.mem
        /\ \A c \in Channels \ {app.channel} : disk'[c] = disk[c]
    BY <1>1, DiskType, Constants DEF Shaped
  <1>3. /\ op' = None /\ up' \in Updater
        /\ op.by # "updater" => up' = up
        /\ op.by = "updater" => /\ up'.step = "failed" /\ up'.busy = up.busy /\ up'.release = up.release
                                /\ up'.target = up.target /\ up'.file = up.file
    BY <1>1, EndsType DEF Steps
  <1>4. op.kind = "launch" => op.by # "updater" /\ queue = <<>> /\ up = Idle
    BY <1>1 DEF Started, Pending, Awaited
  <1>5. Shaped' BY <1>1, <1>2, <1>3, OffType DEF Shaped
  <1>6. Started'
    <2>1. op.by = "updater" => app.ready BY <1>1, OffType, Constants DEF Pending, Awaited, Started
    <2> QED BY <1>1, <1>3, <1>4, <2>1, OffType DEF Started
  <1>7. Pending'
    <2>1. CASE op.by = "updater"
      <3>1. \A i \in DOMAIN queue : queue[i].by # "updater" /\ queue[i].kind # "remember"
        BY <1>1, <2>1 DEF Pending, Awaited
      <3> QED BY <1>1, <1>3, <3>1 DEF Pending, Awaited
    <2>2. CASE op.by # "updater" BY <1>1, <1>3, <2>2 DEF Pending, Awaited
    <2> QED BY <2>1, <2>2
  <1>8. Floored'
    <2>1. app.mem.installed = app.sequence /\ app.sequence >= ran[app.channel] BY <1>1 DEF Floored
    <2> QED BY <1>1, <1>2, <2>1, OffType DEF Floored
  <1>9. Known'
    <2>1. CASE op.kind = "launch" BY <1>1, <1>3, <1>4, <2>1, OffType, Constants DEF Known
    <2>2. CASE op.kind # "launch"
      <3>1. \A release : Newest(release) => Newest(release)' BY <1>1, <1>2, <2>2 DEF Newest
      <3>2. disk'[app.channel] # None => app.mem.seen >= disk'[app.channel].seen
        <4>1. app.mem.seen \in Nat BY <1>2, Constants DEF Saved
        <4> QED BY <1>1, <1>2, <4>1 DEF Known
      <3>3. up'.step \in {"remembered", "recording", "recorded"} => up' = up BY <1>3
      <3>4. up'.busy = up.busy /\ up'.release = up.release BY <1>3
      <3> QED BY <1>1, <2>2, <3>1, <3>2, <3>3, <3>4 DEF Known
    <2> QED BY <2>1, <2>2
  <1>10. Downloads'
    <2>1. up'.step \in {"approved", "recording", "recorded"} => up' = up BY <1>3
    <2>2. up'.busy = up.busy /\ up'.file = up.file BY <1>3
    <2> QED BY <1>1, <2>1, <2>2, DownloadsKept
  <1>11. Registered'
    <2>1. Remembered /\ Accounted(manifest, disk) => Accounted(manifest, disk)'
      BY <1>1, <1>2 DEF Remembered, Accounted
    <2>2. Remembered /\ app'.on => Remembered' BY <1>1, <1>2, OffType DEF Remembered
    <2> QED BY <1>1, <1>3, <2>1, <2>2 DEF Registered
  <1> QED BY <1>5, <1>6, <1>7, <1>8, <1>9, <1>10, <1>11
-----------------------------------------------------------------------------
(* The updater.                                                            *)

\* A step of its own leaves the rest alone; it queues at most what its next step waits for.
LEMMA UpdaterSteps ==
  ASSUME IInv, UNCHANGED <<disk, manifest, app, op, torn, ran>>, app.ready,
         up.busy = None \/ up.step \notin {"remembering", "recording"},
         up' \in Updater, files' \subseteq File, opened' \subseteq File, Known', Downloads',
         \/ queue' = queue
         \/ \E kind \in {"remember", "record"}, to \in Releases \cup {None} :
              Queues(kind, to) /\ Awaited(Operation(kind, to, "updater"))'
  PROVE  IInv'
  <1> USE DEF IInv
  <1>1. /\ \A i \in DOMAIN queue : queue[i].by # "updater"
        /\ op # None => op.by # "updater"
    BY NonePending
  <1>2. CASE queue' = queue
    <2>1. Shaped' /\ Started' BY <1>2 DEF Shaped, Started
    <2>2. Pending' BY <1>1, <1>2 DEF Pending, Awaited
    <2>3. Floored' /\ Registered' BY FlooredKept, RegisteredKept
    <2> QED BY <2>1, <2>2, <2>3
  <1>3. ASSUME NEW kind \in {"remember", "record"}, NEW to \in Releases \cup {None},
               Queues(kind, to), Awaited(Operation(kind, to, "updater"))'
        PROVE  IInv'
    <2> DEFINE o == Operation(kind, to, "updater")
    <2>1. o \in Command /\ o.kind = kind /\ o.by = "updater" /\ o.step = "begin"
      BY OperationType DEF Kinds
    <2>2. queue' = Append(queue, o) /\ o' = o /\ Awaited(o)' BY <1>3 DEF Queues, Operation
    <2> HIDE DEF o
    <2>3. /\ queue' \in Seq(Command)
          /\ \A i \in DOMAIN queue' : queue'[i].kind # "launch" /\ queue'[i].step = "begin"
          /\ \A i \in DOMAIN queue' : \/ i \in DOMAIN queue /\ queue'[i] = queue[i]
                                      \/ i = Len(queue) + 1 /\ queue'[i] = o
      BY <2>1, <2>2, AppendType
    <2>4. Shaped' BY <2>3 DEF Shaped
    <2>5. Started' BY <2>3 DEF Started
    <2>6. Pending'
      <3>1. \A i \in DOMAIN queue' : Awaited(queue[i])'
        <4> SUFFICES ASSUME NEW i \in DOMAIN queue' PROVE Awaited(queue[i])'
          OBVIOUS
        <4>1. CASE i \in DOMAIN queue /\ queue'[i] = queue[i] BY <1>1, <4>1 DEF Pending, Awaited
        <4>2. CASE queue'[i] = o
          <5>1. o' = o BY <2>2
          <5> QED BY <2>2, <4>2, <5>1 DEF Awaited
        <4> QED BY <2>3, <4>1, <4>2
      <3>2. \A i, j \in DOMAIN queue' : queue'[i].by = "updater" /\ queue'[j].by = "updater" => i = j
        BY <1>1, <2>3
      <3> QED BY <1>1, <3>1, <3>2 DEF Pending, Awaited
    <2>7. Floored' /\ Registered' BY FlooredKept, RegisteredKept
    <2> QED BY <2>4, <2>5, <2>6, <2>7
  <1> QED BY <1>2, <1>3

\* A failure removes the file begun and nothing that was opened.
LEMMA UpdateFailsKeeps ==
  ASSUME IInv, UpdateFails, UNCHANGED <<disk, manifest, app, op, queue, torn, ran, opened>>, app.ready,
         up.busy = None \/ up.step \notin {"remembering", "recording"}
  PROVE  IInv'
  <1> USE DEF IInv
  <1>1. files \ {up.file} = opened
    <2>1. CASE up.busy = "download" BY <2>1 DEF Downloads
    <2>2. CASE up.busy # "download" BY <2>2, Constants DEF Downloads, Shaped
    <2> QED BY <2>1, <2>2
  <1>2. up' = Idle /\ files' = opened' BY <1>1 DEF UpdateFails
  <1>3. Downloads' BY <1>2, OffType, Constants DEF Downloads
  <1>4. Known' BY <1>2, OffType, Constants DEF Known
  <1> QED BY <1>2, <1>3, <1>4, OffType, UpdaterSteps DEF Shaped

\* The updater is at work, so the app is up.
LEMMA Working == ASSUME Started, up.busy # None \/ up.step # None \/ up.release # None PROVE app.ready
  BY OffType DEF Started

LEMMA Checks == ASSUME IInv, CheckUpdate \/ (\E s \in Releases : Checked(s)) \/ CheckRecorded PROVE IInv'
  <1> USE DEF IInv
  <1>0. up \in Updater BY DEF Shaped
  <1>1. CASE CheckUpdate
    <2>1. up' = [Idle EXCEPT !.busy = "check", !.step = "fetch"] /\ up.busy = None /\ app.ready
          /\ UNCHANGED <<disk, manifest, app, queue, op, files, torn, ran, opened>>
      BY <1>1 DEF CheckUpdate
    <2>2. /\ up' \in Updater /\ up'.busy = "check" /\ up'.step = "fetch" /\ up'.release = None /\ up'.file = None
      BY <2>1, OffType DEF Updater, Steps
    <2>3. Known' BY <2>1, <2>2, KnownKept DEF Known
    <2>4. Downloads' BY <2>1, <2>2, Constants DEF Downloads
    <2> QED BY <2>1, <2>2, <2>3, <2>4, UpdaterSteps DEF Shaped
  <1>2. ASSUME NEW s \in Releases, Checked(s) PROVE IInv'
    <2>1. up.busy = "check" /\ up.step = "fetch" /\ UNCHANGED <<disk, manifest, app, op, torn, ran, opened>>
      BY <1>2 DEF Checked
    <2>2. app.ready BY <2>1, Constants, Working
    <2>3. CASE UpdateFails /\ UNCHANGED queue BY <2>1, <2>2, <2>3, UpdateFailsKeeps
    <2>4. CASE /\ Queues("remember", s) /\ UNCHANGED files
               /\ up' = [up EXCEPT !.step = "remembering", !.target = s]
      <3>1. /\ up' \in Updater /\ up'.busy = "check" /\ up'.step = "remembering" /\ up'.target = s
            /\ up'.release = up.release /\ up'.file = up.file
        BY <1>0, <2>1, <2>4 DEF Updater, Steps
      <3>2. Known' BY <2>1, <3>1 DEF Known
      <3>3. Downloads' BY <2>1, <2>4, <3>1, DownloadsKept
      <3>4. Awaited(Operation("remember", s, "updater"))' BY <3>1, Constants DEF Awaited, Operation
      <3> QED BY <2>1, <2>2, <2>4, <3>1, <3>2, <3>3, <3>4, UpdaterSteps DEF Shaped
    <2> QED BY <1>2, <2>3, <2>4 DEF Checked
  <1>3. CASE CheckRecorded
    <2>1. up.busy = "check" /\ up.step \in {"remembered", "recorded"}
          /\ UNCHANGED <<disk, manifest, app, op, files, torn, ran, opened>>
      BY <1>3 DEF CheckRecorded
    <2>2. app.ready BY <2>1, Constants, Working
    <2>3. up.target \in Releases /\ Newest(up.target) BY <1>0, <2>1 DEF Known, Updater
    <2>4. CASE up.step = "remembered" /\ Queues("record", None) /\ up' = [up EXCEPT !.step = "recording"]
      <3>1. /\ up' \in Updater /\ up'.busy = "check" /\ up'.step = "recording" /\ up'.target = up.target
            /\ up'.release = up.release /\ up'.file = up.file
        BY <1>0, <2>1, <2>4 DEF Updater, Steps
      <3>2. Known' BY <2>1, <2>4, <3>1, KnownKept
      <3>3. Downloads' BY <2>1, <3>1, Constants DEF Downloads
      <3>4. Awaited(Operation("record", None, "updater"))' BY <3>1, Constants DEF Awaited, Operation
      <3> QED BY <2>1, <2>2, <2>4, <3>1, <3>2, <3>3, <3>4, UpdaterSteps DEF Shaped
    <2>5. CASE /\ up.step = "recorded" /\ UNCHANGED queue
               /\ up' = [Idle EXCEPT !.release = IF up.target > app.sequence THEN up.target ELSE None]
      <3> DEFINE release == IF up.target > app.sequence THEN up.target ELSE None
      <3>1. release \in {up.target, None} /\ up' = [Idle EXCEPT !.release = release] BY <2>5
      <3> HIDE DEF release
      <3>2. up' \in Updater /\ up'.busy = None /\ up'.release = release /\ up'.file = None
        BY <2>3, <3>1, OffType DEF Updater
      <3>3. Known'
        <4>1. up'.release \in {up.target, None} /\ up'.busy # "check" BY <3>1, <3>2, Constants
        <4> QED BY <2>1, <2>3, <4>1 DEF Known, Newest
      <3>4. Downloads' BY <2>1, <3>2, Constants DEF Downloads
      <3> QED BY <2>1, <2>2, <2>5, <3>2, <3>3, <3>4, UpdaterSteps DEF Shaped
    <2> QED BY <1>3, <2>4, <2>5 DEF CheckRecorded
  <1> QED BY <1>1, <1>2, <1>3

LEMMA Fetches == ASSUME IInv, DownloadUpdate \/ RecordFailed PROVE IInv'
  <1> USE DEF IInv
  <1>0. up \in Updater BY DEF Shaped
  <1>1. CASE UpdateFails /\ UNCHANGED <<disk, manifest, app, queue, op, torn, ran, opened>>
    <2>1. app.ready /\ (up.busy = None \/ up.step = "failed")
      BY Constants, Working DEF DownloadUpdate, RecordFailed, Steps
    <2> QED BY <1>1, <2>1, UpdateFailsKeeps
  <1>2. ASSUME NEW id \in FreshNames, DownloadUpdate,
               up' = [up EXCEPT !.busy = "download", !.step = "fetch", !.file = [id |-> id, grade |-> "partial"]],
               files' = files \cup {[id |-> id, grade |-> "partial"]}
        PROVE  IInv'
    <2> DEFINE file == [id |-> id, grade |-> "partial"]
    <2>1. id \in 1 .. MaxDownloads /\ \A f \in files \cup opened : f.id # id BY <1>2 DEF FreshNames
    <2>2. file \in File /\ file.id = id BY <2>1 DEF File, Grades
    <2>3. files' = files \cup {file} /\ app.ready /\ up.busy = None
          /\ UNCHANGED <<disk, manifest, app, queue, op, torn, ran, opened>>
      BY <1>2 DEF DownloadUpdate
    <2>4. up' = [up EXCEPT !.busy = "download", !.step = "fetch", !.file = file] BY <1>2
    <2> HIDE DEF file
    <2>5. /\ up' \in Updater /\ up'.busy = "download" /\ up'.step = "fetch" /\ up'.file = file
          /\ up'.release = up.release
      BY <1>0, <2>2, <2>4 DEF Updater, Steps
    <2>6. Known' BY <2>3, <2>5, KnownKept DEF Known, Newest
    <2>7. files = opened BY <2>3, Constants DEF Downloads
    <2>8. Downloads' BY <2>1, <2>2, <2>3, <2>5, <2>7 DEF Downloads
    <2> QED BY <2>2, <2>3, <2>5, <2>6, <2>8, UpdaterSteps DEF Shaped
  <1>3. RecordFailed => UpdateFails /\ UNCHANGED <<disk, manifest, app, queue, op, torn, ran, opened>>
    BY DEF RecordFailed
  <1>4. DownloadUpdate => \/ UpdateFails /\ UNCHANGED <<disk, manifest, app, queue, op, torn, ran, opened>>
                          \/ \E id \in FreshNames :
                               /\ up' = [up EXCEPT !.busy = "download", !.step = "fetch",
                                                   !.file = [id |-> id, grade |-> "partial"]]
                               /\ files' = files \cup {[id |-> id, grade |-> "partial"]}
    BY DEF DownloadUpdate
  <1> QED BY <1>1, <1>2, <1>3, <1>4

LEMMA DownloadsFile == ASSUME IInv, Download \/ OpenDownload PROVE IInv'
  <1> USE DEF IInv
  <1>0. up \in Updater /\ up.busy = "download" /\ UNCHANGED <<disk, manifest, app, op, torn, ran>>
    BY DEF Shaped, Download, OpenDownload
  <1>1. /\ up.file \in File /\ files = opened \cup {up.file} /\ \A f \in opened : f.id # up.file.id /\ f.grade = "approved"
        /\ app.ready
    BY <1>0, Constants, Working DEF Downloads
  <1>2. ASSUME NEW grade \in {"unchecked", "approved"}, Download, Regraded(grade), UNCHANGED queue,
               up.step \in {"fetch", "unchecked"}
        PROVE  IInv'
    <2> DEFINE file == [up.file EXCEPT !.grade = grade]
    <2>1. file \in File /\ file.id = up.file.id /\ file.grade = grade BY <1>1 DEF File, Grades
    <2>2. files' = (files \ {up.file}) \cup {file} /\ up' = [up EXCEPT !.file = file, !.step = grade]
      BY <1>2 DEF Regraded
    <2>3. opened' = opened BY <1>2 DEF Download
    <2> HIDE DEF file
    <2>4. /\ up' \in Updater /\ up'.busy = "download" /\ up'.step = grade /\ up'.file = file
          /\ up'.release = up.release
      BY <1>0, <2>1, <2>2 DEF Updater, Steps, Grades
    <2>5. files' = opened \cup {file} BY <1>1, <2>2
    <2>6. Downloads' BY <1>1, <2>1, <2>3, <2>4, <2>5 DEF Downloads
    <2>7. Known' BY <1>0, <2>4 DEF Known, Newest
    <2> QED BY <1>0, <1>1, <1>2, <2>1, <2>3, <2>4, <2>5, <2>6, <2>7, UpdaterSteps DEF Shaped
  <1>3. CASE /\ Download /\ up.step = "approved" /\ UNCHANGED files
             /\ Queues("record", None) /\ up' = [up EXCEPT !.step = "recording"]
    <2>1. /\ up' \in Updater /\ up'.busy = "download" /\ up'.step = "recording" /\ up'.file = up.file
          /\ up'.release = up.release
      BY <1>0, <1>3 DEF Updater, Steps
    <2>2. opened' = opened BY <1>3 DEF Download
    <2>3. Downloads' BY <1>0, <1>3, <2>1, <2>2, DownloadsKept
    <2>4. Known' BY <1>0, <2>1 DEF Known, Newest
    <2>5. Awaited(Operation("record", None, "updater"))' BY <2>1, Constants DEF Awaited, Operation
    <2> QED BY <1>0, <1>1, <1>3, <2>1, <2>2, <2>3, <2>4, <2>5, UpdaterSteps DEF Shaped
  <1>4. CASE Download /\ up.step \in {"fetch", "unchecked", "approved"} /\ UpdateFails /\ UNCHANGED queue
    BY <1>0, <1>1, <1>4, UpdateFailsKeeps DEF Download
  <1>5. CASE OpenDownload
    <2>1. opened' = opened \cup {up.file} /\ up' = [Idle EXCEPT !.release = up.release] /\ up.step = "recorded"
          /\ UNCHANGED <<queue, files>>
      BY <1>5 DEF OpenDownload
    <2>2. up' \in Updater /\ up'.busy = None /\ up'.file = None /\ up'.release = up.release
      BY <1>0, <2>1, OffType DEF Updater
    <2>3. Downloads' BY <1>0, <1>1, <2>1, <2>2, Constants DEF Downloads
    <2>4. Known' BY <1>0, <2>2, Constants DEF Known, Newest
    <2> QED BY <1>0, <1>1, <2>1, <2>2, <2>3, <2>4, UpdaterSteps DEF Shaped
  <1> QED BY <1>2, <1>3, <1>4, <1>5 DEF Download
-----------------------------------------------------------------------------
(* What leaves the page as a file.                                         *)

Event == [number : Nat, time : Nat, operation : Operations \cup {None}]
Support == [operation : Operations \cup {None}, dropped : Nat, events : SUBSET Event, made : Nat]
Kept == [previewId : Nat, content : Support, expires : Nat]
Log == [events : Seq(Event), sequence : Nat, dropped : Nat, previews : SUBSET Kept]
Issued == 0 .. issued - 1

Fields(p) == p = [listed |-> p.listed, chosen |-> p.chosen, previewId |-> p.previewId,
                  disclosure |-> p.disclosure, offered |-> p.offered, operation |-> p.operation,
                  diagnosticPreviewId |-> p.diagnosticPreviewId, report |-> p.report]
Requested(c) == c = [what |-> c.what, step |-> c.step, arg |-> c.arg, shown |-> c.shown, answer |-> c.answer]
\* The server's state and the fields of what the page holds.
Forms ==
  /\ records \in [Receipts -> Nat] /\ now \in Nat /\ issued \in Nat /\ log \in Log
  /\ Fields(page)
  /\ page.operation \in Operations \cup {None} /\ page.offered \subseteq Operations
  /\ call # None => Requested(call) /\ (call.step = "working" => call.what = "operate")

\* Events are numbered without gaps and in the order of their times.
Orderly(l) ==
  /\ l.sequence = l.dropped + Len(l.events)
  /\ \A i \in DOMAIN l.events : l.events[i].number = l.dropped + i /\ l.events[i].time <= now
  /\ \A i, j \in DOMAIN l.events : i <= j => l.events[i].time <= l.events[j].time

\* A preview accounts for its events and expires with the first of them.
Timely(p) ==
  /\ p.previewId \in Issued /\ Composer!Accounted(p.content)
  /\ p.expires <= p.content.made + PreviewAge
  /\ \A e \in p.content.events : p.expires <= e.time + EventAge

Logged ==
  /\ Orderly(log) /\ Len(log.events) <= EventLimit
  /\ IsFiniteSet(log.previews) /\ Cardinality(log.previews) <= PreviewLimit
  /\ \A p \in log.previews : Timely(p)

\* Receipts as the vault has them: what it knew of them once is still there.
Bytes(bytes) == DOMAIN bytes \subseteq Receipts /\ \A r \in DOMAIN bytes : bytes[r] \in 1 .. records[r]
Matches(id, bytes) == preview # None /\ preview.previewId = id => preview.bytes = bytes

\* The receipts: what a button would save is on show, from the answer to the file.
ShownReceipts ==
  /\ page.chosen \subseteq page.listed /\ page.listed \subseteq Composer!History
  /\ preview # None => preview.previewId \in Issued /\ Bytes(preview.bytes)
  /\ page.previewId # None => page.previewId \in Issued
  /\ Matches(page.previewId, page.disclosure)
  /\ saved # None /\ saved.what = "export" => saved.content = saved.shown /\ Bytes(saved.content)
AskedReceipts ==
  /\ Composer!Answered("list") => call.answer \subseteq Composer!History
  /\ Composer!Answered("prepare") =>
       call.answer.previewId \in Issued /\ Matches(call.answer.previewId, call.answer.bytes)
  /\ Composer!Asked("export") => Matches(call.arg, call.shown)
  /\ Composer!Answered("export") => call.answer = call.shown /\ Bytes(call.answer)
Receipting == ShownReceipts /\ AskedReceipts

Reports(id, report) == \A p \in log.previews : p.previewId = id => p.content = report
Filed(file, shown) ==
  /\ file.content = shown /\ Composer!Accounted(file.content)
  /\ file.at - file.content.made < PreviewAge
  /\ \A e \in file.content.events : file.at - e.time < EventAge

\* The reports, likewise.
ShownReports ==
  /\ page.diagnosticPreviewId # None => page.diagnosticPreviewId \in Issued
  /\ Reports(page.diagnosticPreviewId, page.report)
  /\ saved # None /\ saved.what = "report" => Filed(saved.content, saved.shown)
AskedReports ==
  /\ Composer!Answered("selection") => call.answer \subseteq Operations
  /\ Composer!Asked("preview") => call.arg \in Operations \cup {None}
  /\ Composer!Answered("preview") =>
       call.answer.previewId \in Issued /\ Reports(call.answer.previewId, call.answer.report)
  /\ Composer!Asked("report") => Reports(call.arg, call.shown)
  /\ Composer!Answered("report") => Filed(call.answer, call.shown)
Reporting == ShownReports /\ AskedReports

CInv == Forms /\ Logged /\ Receipting /\ Reporting
-----------------------------------------------------------------------------
(* Minima, requests and the log.                                           *)

LEMMA MinOf ==
  ASSUME NEW S, S \subseteq Nat, S # {}
  PROVE  Composer!Min(S) \in S /\ \A y \in S : Composer!Min(S) <= y
  <1> DEFINE less == OpToRel(<, Nat)
  <1>1. IsWellFoundedOn(less, Nat) BY NatLessThanWellFounded
  <1>2. \A x, y \in Nat : y < x => <<y, x>> \in less BY DEF OpToRel
  <1> HIDE DEF less
  <1>3. PICK x \in S : \A y \in S : <<y, x>> \notin less BY <1>1, WFMin
  <1>4. ASSUME NEW y \in S PROVE x <= y
    <2>1. x \in Nat /\ y \in Nat /\ ~(y < x) BY <1>2, <1>3
    <2> QED BY <2>1
  <1> QED BY <1>4 DEF Composer!Min

LEMMA IssuedType == issued \in Nat => Issued \subseteq Nat /\ None \notin Issued
  BY InstallationAssumption DEF Issued

LEMMA CallAsked ==
  ASSUME NEW what, NEW arg, NEW shown, call' = Composer!Request(what, arg, shown)
  PROVE  /\ call'.what = what /\ call'.step = "asked" /\ call'.arg = arg /\ call'.shown = shown
         /\ Requested(call')
  BY DEF Composer!Request, Requested

LEMMA CallAnswered ==
  ASSUME Forms, call # None, NEW value, Composer!Answers(value)
  PROVE  /\ call'.what = call.what /\ call'.step = "answered" /\ call'.arg = call.arg
         /\ call'.shown = call.shown /\ call'.answer = value
         /\ Requested(call')
  BY DEF Forms, Requested, Composer!Answers

LEMMA CallRefused ==
  ASSUME Forms, call # None, Composer!Refuses
  PROVE  /\ call'.what = call.what /\ call'.step = "failed"
         /\ Requested(call')
  BY DEF Forms, Requested, Composer!Refuses

LEMMA DropType ==
  ASSUME NEW l \in Log, Orderly(l), now \in Nat, NEW n \in 0 .. Len(l.events)
  PROVE  LET d == Composer!Drop(l, n) IN
         /\ d \in Log /\ Orderly(d) /\ d.sequence = l.sequence /\ d.previews = l.previews
         /\ Len(d.events) = Len(l.events) - n
         /\ \A i \in DOMAIN d.events : i + n \in DOMAIN l.events /\ d.events[i] = l.events[i + n]
  <1> DEFINE kept == SubSeq(l.events, n + 1, Len(l.events))
             d == Composer!Drop(l, n)
  <1>1. /\ l.events \in Seq(Event) /\ Len(l.events) \in Nat /\ DOMAIN l.events = 1 .. Len(l.events)
        /\ n \in Nat /\ n <= Len(l.events) /\ l.dropped \in Nat
        /\ \A i \in 1 .. Len(l.events) : l.events[i] \in Event
    BY LenProperties, ElementOfSeq DEF Log
  <1>2. /\ kept \in Seq(Event) /\ Len(kept) = Len(l.events) - n
        /\ \A i \in 1 .. Len(l.events) - n : kept[i] = l.events[i + n]
    <2>1. \A i \in n + 1 .. Len(l.events) : l.events[i] \in Event BY <1>1
    <2>2. /\ kept \in Seq(Event)
          /\ Len(kept) = IF n + 1 <= Len(l.events) THEN Len(l.events) - (n + 1) + 1 ELSE 0
          /\ \A i \in 1 .. Len(l.events) - (n + 1) + 1 : kept[i] = l.events[n + 1 + i - 1]
      BY <1>1, <2>1, SubSeqProperties
    <2>3. ASSUME NEW i \in 1 .. Len(l.events) - n PROVE kept[i] = l.events[i + n]
      <3>1. i \in 1 .. Len(l.events) - (n + 1) + 1 /\ n + 1 + i - 1 = i + n BY <1>1
      <3> QED BY <2>2, <3>1
    <2> QED BY <1>1, <2>2, <2>3
  <1>3. DOMAIN kept = 1 .. Len(l.events) - n BY <1>2, LenProperties
  <1>4. d = [l EXCEPT !.events = kept, !.dropped = @ + n] BY DEF Composer!Drop
  <1> HIDE DEF kept, d
  <1>5. /\ d \in Log /\ d.events = kept /\ d.dropped = l.dropped + n
        /\ d.sequence = l.sequence /\ d.previews = l.previews
    <2>1. l.dropped + n \in Nat BY <1>1
    <2>2. l = [events |-> l.events, sequence |-> l.sequence, dropped |-> l.dropped, previews |-> l.previews]
      BY DEF Log
    <2>3. d = [events |-> kept, sequence |-> l.sequence, dropped |-> l.dropped + n, previews |-> l.previews]
      BY <1>4, <2>2
    <2> QED BY <1>2, <2>1, <2>3 DEF Log
  <1>6. \A i \in DOMAIN kept : i + n \in DOMAIN l.events /\ kept[i] = l.events[i + n]
    BY <1>1, <1>2, <1>3
  <1>7. Orderly(d)
    <2>1. d.sequence = d.dropped + Len(d.events) BY <1>1, <1>2, <1>5 DEF Orderly, Log
    <2>2. ASSUME NEW i \in DOMAIN kept PROVE kept[i].number = d.dropped + i /\ kept[i].time <= now
      <3>1. l.events[i + n].number = l.dropped + (i + n) /\ l.events[i + n].time <= now
        BY <1>6 DEF Orderly
      <3>2. i \in Nat BY ONLY <1>1, <1>3
      <3>3. l.dropped + (i + n) = d.dropped + i BY ONLY <1>1, <1>5, <3>2
      <3> QED BY <1>6, <3>1, <3>3
    <2>3. ASSUME NEW i \in DOMAIN kept, NEW j \in DOMAIN kept, i <= j PROVE kept[i].time <= kept[j].time
      <3>1. i + n <= j + n BY <1>1, <1>3, <2>3
      <3> QED BY <1>6, <3>1 DEF Orderly
    <2> QED BY <1>5, <2>1, <2>2, <2>3 DEF Orderly
  <1> QED BY <1>2, <1>5, <1>6, <1>7 DEF d

LEMMA StaleType ==
  ASSUME NEW l \in Log
  PROVE  LET n == Composer!Stale(l) IN
         /\ n \in 0 .. Len(l.events)
         /\ n = Len(l.events) \/ Composer!Fresh(l.events[n + 1])
  <1> DEFINE S == {n \in 0 .. Len(l.events) : n = Len(l.events) \/ Composer!Fresh(l.events[n + 1])}
  <1>1. Len(l.events) \in Nat BY LenProperties DEF Log
  <1>2. Len(l.events) \in S /\ S \subseteq Nat BY <1>1
  <1>3. Composer!Stale(l) = Composer!Min(S) BY DEF Composer!Stale
  <1>4. Composer!Min(S) \in S BY <1>2, MinOf
  <1> QED BY <1>3, <1>4

\* What is left after pruning: the events and previews that are not too old.
LEMMA Pruned ==
  ASSUME Forms, Logged
  PROVE  LET l == Composer!Prune(log) IN
         /\ l \in Log /\ Orderly(l) /\ Len(l.events) <= EventLimit /\ l.sequence = log.sequence
         /\ l.previews = {p \in log.previews : now < p.expires}
         /\ \A i \in DOMAIN l.events : now - l.events[i].time < EventAge
  <1> DEFINE n == Composer!Stale(log)
             d == Composer!Drop(log, n)
             l == Composer!Prune(log)
  <1>1. log \in Log /\ Orderly(log) /\ now \in Nat BY DEF Forms, Logged
  <1>2. n \in 0 .. Len(log.events) /\ (n = Len(log.events) \/ Composer!Fresh(log.events[n + 1]))
    BY <1>1, StaleType
  <1>3. /\ d \in Log /\ Orderly(d) /\ d.sequence = log.sequence /\ d.previews = log.previews
        /\ Len(d.events) = Len(log.events) - n
        /\ \A i \in DOMAIN d.events : i + n \in DOMAIN log.events /\ d.events[i] = log.events[i + n]
    BY <1>1, <1>2, DropType
  <1>4. l = [d EXCEPT !.previews = {p \in @ : now < p.expires}] BY DEF Composer!Prune
  <1>5. /\ Len(log.events) \in Nat /\ DOMAIN log.events = 1 .. Len(log.events)
        /\ Len(d.events) \in Nat /\ DOMAIN d.events = 1 .. Len(d.events)
        /\ EventLimit \in Nat /\ EventAge \in Nat
        /\ \A i \in DOMAIN log.events : log.events[i] \in Event
    BY <1>1, <1>3, LenProperties, ElementOfSeq, LimitsAssumption DEF Log
  <1> HIDE DEF n, d, l
  <1>6. l \in Log /\ l.events = d.events /\ l.dropped = d.dropped /\ l.sequence = d.sequence
    BY <1>3, <1>4 DEF Log
  <1>7. l.previews = {p \in log.previews : now < p.expires}
    BY <1>3, <1>4 DEF Log
  <1>8. Orderly(l) BY <1>3, <1>6 DEF Orderly
  <1>9. Len(l.events) <= EventLimit BY <1>2, <1>3, <1>5, <1>6 DEF Logged
  <1>10. ASSUME NEW i \in DOMAIN d.events PROVE now - d.events[i].time < EventAge
    <2>1. i \in 1 .. Len(log.events) - n /\ n < Len(log.events) BY <1>2, <1>3, <1>5
    <2>2. now - log.events[n + 1].time < EventAge BY <1>2, <2>1 DEF Composer!Fresh
    <2>3. n + 1 \in DOMAIN log.events /\ i + n \in DOMAIN log.events /\ n + 1 <= i + n
      BY <1>2, <1>3, <1>5, <2>1
    <2>4. log.events[n + 1].time <= log.events[i + n].time BY <1>1, <2>3 DEF Orderly
    <2>5. log.events[n + 1].time \in Nat /\ log.events[i + n].time \in Nat BY <1>5, <2>3 DEF Event
    <2>6. now - log.events[i + n].time < EventAge
      <3>1. \A a, b, c, e \in Nat : c - a < e /\ a <= b => c - b < e OBVIOUS
      <3> QED BY ONLY <1>1, <1>5, <2>2, <2>4, <2>5, <3>1
    <2> QED BY <1>3, <2>6
  <1> QED BY <1>3, <1>6, <1>7, <1>8, <1>9, <1>10 DEF l
-----------------------------------------------------------------------------
(* What a step leaves alone.                                               *)

ForReceipts == {"list", "prepare", "export"}
ForReports == {"selection", "preview", "report"}
\* The request is the same, or none that would matter.
Elsewhere(kinds) ==
  call' = call \/ call' = None \/ call'.what \notin kinds \/ call'.step \notin {"asked", "answered"}
\* Records and identifiers are only added.
Grows ==
  /\ records' \in [Receipts -> Nat] /\ issued' \in Nat /\ issued <= issued'
  /\ \A r \in Receipts : records[r] <= records'[r]

LEMMA IssuedGrows == ASSUME issued \in Nat, issued' \in Nat, issued <= issued' PROVE Issued \subseteq Issued'
  <1>1. ASSUME NEW a \in Nat, NEW b \in Nat, a <= b PROVE 0 .. a - 1 \subseteq 0 .. b - 1
    BY <1>1
  <1> QED BY <1>1 DEF Issued

LEMMA BytesKept == ASSUME Forms, Grows, NEW bytes, Bytes(bytes) PROVE Bytes(bytes)'
  <1>1. ASSUME NEW r \in DOMAIN bytes PROVE bytes[r] \in 1 .. records'[r]
    <2>1. r \in Receipts /\ bytes[r] \in 1 .. records[r] BY DEF Bytes
    <2>2. records[r] \in Nat /\ records'[r] \in Nat /\ records[r] <= records'[r] BY <2>1 DEF Forms, Grows
    <2> QED BY <2>1, <2>2
  <1> QED BY <1>1 DEF Bytes

LEMMA HistoryGrows == ASSUME Forms, Grows PROVE Composer!History \subseteq Composer!History'
  <1>1. ASSUME NEW r \in Receipts, records[r] > 0 PROVE records'[r] > 0
    <2>1. records[r] \in Nat /\ records'[r] \in Nat /\ records[r] <= records'[r] BY DEF Forms, Grows
    <2> QED BY <1>1, <2>1
  <1> QED BY <1>1 DEF Composer!History

LEMMA ShownReceiptsKept ==
  ASSUME Forms, ShownReceipts, Grows, preview' \in {preview, None}, saved' = saved,
         page'.listed = page.listed, page'.chosen = page.chosen,
         page'.previewId = page.previewId, page'.disclosure = page.disclosure
  PROVE  ShownReceipts'
  <1>1. Issued \subseteq Issued' BY IssuedGrows DEF Forms, Grows
  <1>2. Composer!History \subseteq Composer!History' BY HistoryGrows
  <1>3. \A bytes : Bytes(bytes) => Bytes(bytes)' BY BytesKept
  <1>4. Matches(page.previewId, page.disclosure)' BY DEF ShownReceipts, Matches
  <1>5. preview' # None => preview' = preview /\ preview.previewId \in Issued /\ Bytes(preview.bytes)'
    BY <1>3 DEF ShownReceipts, Bytes
  <1>6. saved' # None /\ saved'.what = "export" => saved'.content = saved'.shown /\ Bytes(saved.content)'
    BY <1>3 DEF ShownReceipts, Bytes
  <1> QED BY <1>1, <1>2, <1>4, <1>5, <1>6 DEF ShownReceipts

LEMMA AskedReceiptsKept ==
  ASSUME Forms, AskedReceipts, Grows, preview' \in {preview, None}, Elsewhere(ForReceipts)
  PROVE  AskedReceipts'
  <1>1. Issued \subseteq Issued' BY IssuedGrows DEF Forms, Grows
  <1>2. CASE call' = call
    <2>1. Composer!Answered("list")' => call'.answer \subseteq Composer!History'
      BY <1>2, HistoryGrows DEF AskedReceipts, Composer!Answered
    <2>2. Composer!Answered("prepare")' =>
            call'.answer.previewId \in Issued' /\ Matches(call.answer.previewId, call.answer.bytes)'
      BY <1>1, <1>2 DEF AskedReceipts, Composer!Answered, Matches
    <2>3. Composer!Asked("export")' => Matches(call.arg, call.shown)'
      BY <1>2 DEF AskedReceipts, Composer!Asked, Matches
    <2>4. Composer!Answered("export")' => call'.answer = call'.shown /\ Bytes(call.answer)'
      <3>1. \A bytes : Bytes(bytes) => Bytes(bytes)' BY BytesKept
      <3> QED BY <1>2, <3>1 DEF AskedReceipts, Composer!Answered, Bytes
    <2> QED BY <2>1, <2>2, <2>3, <2>4 DEF AskedReceipts
  <1>3. CASE call' # call
    BY <1>3 DEF AskedReceipts, Elsewhere, ForReceipts, Composer!Answered, Composer!Asked
  <1> QED BY <1>2, <1>3

LEMMA ReceiptingKept ==
  ASSUME Forms, Receipting, Grows, preview' \in {preview, None}, saved' = saved, Elsewhere(ForReceipts),
         page'.listed = page.listed, page'.chosen = page.chosen,
         page'.previewId = page.previewId, page'.disclosure = page.disclosure
  PROVE  Receipting'
  BY ShownReceiptsKept, AskedReceiptsKept DEF Receipting

LEMMA ShownReportsKept ==
  ASSUME Forms, ShownReports, Grows, saved' = saved, log'.previews \subseteq log.previews,
         page'.diagnosticPreviewId = page.diagnosticPreviewId, page'.report = page.report
  PROVE  ShownReports'
  <1>1. Issued \subseteq Issued' BY IssuedGrows DEF Forms, Grows
  <1>2. Reports(page.diagnosticPreviewId, page.report)' BY DEF ShownReports, Reports
  <1>3. saved' # None /\ saved'.what = "report" => Filed(saved.content, saved.shown)'
    BY DEF ShownReports, Filed, Composer!Accounted
  <1> QED BY <1>1, <1>2, <1>3 DEF ShownReports

LEMMA AskedReportsKept ==
  ASSUME Forms, AskedReports, Grows, log'.previews \subseteq log.previews, Elsewhere(ForReports)
  PROVE  AskedReports'
  <1>1. Issued \subseteq Issued' BY IssuedGrows DEF Forms, Grows
  <1>2. CASE call' = call
    <2>1. Composer!Answered("preview")' =>
            call'.answer.previewId \in Issued' /\ Reports(call.answer.previewId, call.answer.report)'
      BY <1>1, <1>2 DEF AskedReports, Composer!Answered, Reports
    <2>2. Composer!Asked("report")' => Reports(call.arg, call.shown)'
      BY <1>2 DEF AskedReports, Composer!Asked, Reports
    <2>3. /\ Composer!Answered("selection")' => call'.answer \subseteq Operations
          /\ Composer!Asked("preview")' => call'.arg \in Operations \cup {None}
          /\ Composer!Answered("report")' => Filed(call.answer, call.shown)'
      BY <1>2 DEF AskedReports, Composer!Answered, Composer!Asked, Filed, Composer!Accounted
    <2> QED BY <2>1, <2>2, <2>3 DEF AskedReports
  <1>3. CASE call' # call
    BY <1>3 DEF AskedReports, Elsewhere, ForReports, Composer!Answered, Composer!Asked
  <1> QED BY <1>2, <1>3

LEMMA ReportingKept ==
  ASSUME Forms, Reporting, Grows, saved' = saved, log'.previews \subseteq log.previews, Elsewhere(ForReports),
         page'.diagnosticPreviewId = page.diagnosticPreviewId, page'.report = page.report
  PROVE  Reporting'
  BY ShownReportsKept, AskedReportsKept DEF Reporting

LEMMA LoggedKept ==
  ASSUME Forms, Logged, UNCHANGED log, now' \in Nat, now <= now', issued' \in Nat, issued <= issued'
  PROVE  Logged'
  <1>1. Issued \subseteq Issued' BY IssuedGrows DEF Forms
  <1>2. Orderly(log)'
    <2>1. ASSUME NEW i \in DOMAIN log.events PROVE log.events[i].time <= now'
      <3>1. log.events[i].time \in Nat
        <4>1. log.events \in Seq(Event) BY DEF Forms, Log
        <4>2. log.events[i] \in Event BY <4>1, LenProperties, ElementOfSeq
        <4> QED BY <4>2 DEF Event
      <3>2. log.events[i].time <= now BY DEF Logged, Orderly
      <3> QED BY <3>1, <3>2 DEF Forms
    <2> QED BY <2>1 DEF Logged, Orderly
  <1>3. \A p \in log.previews : Timely(p)' BY <1>1 DEF Logged, Timely, Composer!Accounted
  <1> QED BY <1>2, <1>3 DEF Logged

LEMMA SameServer ==
  ASSUME Forms, UNCHANGED <<records, now, issued>>
  PROVE  Grows /\ now' \in Nat /\ now <= now' /\ issued' \in Nat /\ issued <= issued'
  BY DEF Forms, Grows

-----------------------------------------------------------------------------
(* Requests, choices and what goes on beside them.                         *)

LEMMA ComposerInit == Composer!Init => CInv
  <1> SUFFICES ASSUME Composer!Init PROVE CInv
    OBVIOUS
  <1>1. /\ records = [r \in Receipts |-> 0] /\ preview = None /\ now = 0 /\ issued = 0
        /\ log = [events |-> <<>>, sequence |-> 0, dropped |-> 0, previews |-> {}]
        /\ page = [listed |-> {}, chosen |-> {}, previewId |-> None, disclosure |-> None,
                   offered |-> {}, operation |-> None, diagnosticPreviewId |-> None, report |-> None]
        /\ call = None /\ saved = None
    BY DEF Composer!Init
  <1>2. <<>> \in Seq(Event) /\ Len(<<>>) = 0 /\ DOMAIN <<>> = {}
    BY EmptySeq, LenProperties
  <1>3. log \in Log BY <1>1, <1>2 DEF Log
  <1>4. Forms BY <1>1, <1>3 DEF Forms, Fields
  <1>5. Logged BY <1>1, <1>2, FS_EmptySet, LimitsAssumption DEF Logged, Orderly
  <1>6. Receipting BY <1>1 DEF Receipting, ShownReceipts, AskedReceipts, Matches, Composer!Answered, Composer!Asked
  <1>7. Reporting BY <1>1 DEF Reporting, ShownReports, AskedReports, Reports, Composer!Answered, Composer!Asked
  <1> QED BY <1>4, <1>5, <1>6, <1>7 DEF CInv

\* A request for receipts, or to change them.
LEMMA AsksForReceipts ==
  ASSUME CInv, Composer!RefreshHistory \/ Composer!PreviewExport \/ Composer!SaveExport
               \/ Composer!Redact \/ Composer!Operate
  PROVE  CInv'
  <1> USE DEF CInv
  <1>1. /\ UNCHANGED <<records, working, preview, log, now, issued, page, saved>>
        /\ \/ call' = Composer!Request("list", page.chosen, None)
           \/ call' = Composer!Request("prepare", page.chosen, None)
           \/ call' = Composer!Request("redact", page.chosen, None)
           \/ call' = Composer!Request("operate", None, None)
           \/ call' = Composer!Request("export", page.previewId, page.disclosure)
    BY DEF Composer!RefreshHistory, Composer!PreviewExport, Composer!SaveExport, Composer!Redact,
         Composer!Operate, Composer!Asks, Composer!server
  <1>2. /\ call'.what \in {"list", "prepare", "redact", "operate", "export"} /\ call'.step = "asked"
        /\ call'.what = "export" => call'.arg = page.previewId /\ call'.shown = page.disclosure
        /\ Requested(call')
    BY <1>1, CallAsked
  <1>3. Grows /\ Logged' BY <1>1, SameServer, LoggedKept
  <1>4. Forms' BY <1>1, <1>2 DEF Forms
  <1>5. Receipting'
    <2>1. ShownReceipts' BY <1>1, <1>3, ShownReceiptsKept DEF Receipting
    <2>2. Matches(page.previewId, page.disclosure)' BY <2>1 DEF ShownReceipts
    <2>3. Composer!Asked("export")' => Matches(call.arg, call.shown)'
      BY <1>1, <1>2, <2>2 DEF Composer!Asked, Matches
    <2> QED BY <1>2, <2>1, <2>3 DEF Receipting, AskedReceipts, Composer!Answered
  <1>6. Elsewhere(ForReports) BY <1>2 DEF Elsewhere, ForReports
  <1>7. Reporting' BY <1>1, <1>3, <1>6, ReportingKept
  <1> QED BY <1>3, <1>4, <1>5, <1>7

\* A request for reports.
LEMMA AsksForReports ==
  ASSUME CInv, Composer!RefreshDiagnostics \/ Composer!PreviewDiagnostics \/ Composer!SaveDiagnostics
  PROVE  CInv'
  <1> USE DEF CInv
  <1>1. /\ UNCHANGED <<records, working, preview, log, now, issued, saved>>
        /\ page' \in {page, [page EXCEPT !.diagnosticPreviewId = None]}
        /\ \/ call' = Composer!Request("selection", None, None)
           \/ call' = Composer!Request("preview", page.operation, None)
           \/ call' = Composer!Request("report", page.diagnosticPreviewId, page.report)
    BY DEF Composer!RefreshDiagnostics, Composer!PreviewDiagnostics, Composer!SaveDiagnostics,
         Composer!Asks, Composer!server
  <1>2. /\ call'.what \in {"selection", "preview", "report"} /\ call'.step = "asked"
        /\ call'.what = "preview" => call'.arg = page.operation
        /\ call'.what = "report" => call'.arg = page.diagnosticPreviewId /\ call'.shown = page.report
        /\ Requested(call')
    BY <1>1, CallAsked
  <1>3. /\ Fields(page') /\ page'.listed = page.listed /\ page'.chosen = page.chosen
        /\ page'.previewId = page.previewId /\ page'.disclosure = page.disclosure
        /\ page'.offered = page.offered /\ page'.operation = page.operation /\ page'.report = page.report
        /\ page'.diagnosticPreviewId \in {page.diagnosticPreviewId, None}
    BY <1>1 DEF Forms, Fields
  <1>4. Grows /\ Logged' BY <1>1, SameServer, LoggedKept
  <1>5. Forms' BY <1>1, <1>2, <1>3 DEF Forms, Fields
  <1>6. Elsewhere(ForReceipts) BY <1>2 DEF Elsewhere, ForReceipts
  <1>7. Receipting' BY <1>1, <1>3, <1>4, <1>6, ReceiptingKept
  <1>8. Reporting'
    <2>1. \A p \in log.previews : p.previewId # None
      BY IssuedType DEF Logged, Timely, Forms
    <2>2. Reports(page'.diagnosticPreviewId, page.report) /\ Issued' = Issued
      BY <1>1, <1>3, <2>1 DEF Reporting, ShownReports, AskedReports, Reports, Issued
    <2>3. /\ page'.diagnosticPreviewId # None => page'.diagnosticPreviewId \in Issued'
          /\ Reports(page.diagnosticPreviewId, page.report)'
      BY <1>1, <1>3, <2>2 DEF Reporting, ShownReports, AskedReports, Reports
    <2>4. saved' # None /\ saved'.what = "report" => Filed(saved.content, saved.shown)'
      BY <1>1 DEF Reporting, ShownReports, Filed, Composer!Accounted
    <2>5. Composer!Asked("preview")' => call'.arg \in Operations \cup {None}
      BY <1>2 DEF Forms, Composer!Asked
    <2>6. Composer!Asked("report")' => Reports(call.arg, call.shown)'
      BY <1>1, <1>2 DEF Reporting, ShownReports, AskedReports, Reports, Composer!Asked
    <2> QED BY <1>2, <2>3, <2>4, <2>5, <2>6 DEF Reporting, ShownReports, AskedReports, Composer!Answered
  <1> QED BY <1>4, <1>5, <1>7, <1>8

\* The person changes a choice, which withdraws what is on show.
LEMMA Chooses ==
  ASSUME CInv, \/ \E r \in Receipts : Composer!ChooseReceipt(r)
               \/ \E o \in Operations \cup {None} : Composer!ChooseOperation(o)
  PROVE  CInv'
  <1> USE DEF CInv
  <1>1. UNCHANGED <<records, working, preview, log, now, issued, call, saved>>
    BY DEF Composer!ChooseReceipt, Composer!ChooseOperation, Composer!server
  <1>2. /\ \A p \in log.previews : p.previewId # None
        /\ preview # None => preview.previewId # None
    BY IssuedType DEF Logged, Timely, Forms, Receipting, ShownReceipts
  <1>3. Grows /\ Logged' BY <1>1, SameServer, LoggedKept
  <1>4. ASSUME NEW r \in Receipts, Composer!ChooseReceipt(r) PROVE Forms' /\ Receipting' /\ Reporting'
    <2>1. page' = [Composer!InvalidatePreview(page) EXCEPT !.chosen = IF r \in @ THEN @ \ {r} ELSE @ \cup {r}]
          /\ r \in page.listed
      BY <1>4 DEF Composer!ChooseReceipt
    <2>2. /\ Fields(page') /\ page'.listed = page.listed /\ page'.previewId = None /\ page'.disclosure = None
          /\ page'.chosen \subseteq page.chosen \cup {r}
          /\ page'.offered = page.offered /\ page'.operation = page.operation /\ page'.report = page.report
          /\ page'.diagnosticPreviewId = page.diagnosticPreviewId
      BY <2>1 DEF Forms, Fields, Composer!InvalidatePreview
    <2>3. Forms' BY <1>1, <2>2 DEF Forms, Fields
    <2>4. Reporting'
      BY <1>1, <1>3, <2>2, ReportingKept DEF Elsewhere
    <2>5. Receipting'
      <3>1. /\ \A bytes : Bytes(bytes) => Bytes(bytes)'
            /\ Composer!History' = Composer!History /\ Issued' = Issued
            /\ \A id, bytes : Matches(id, bytes) => Matches(id, bytes)'
        BY <1>1 DEF Bytes, Composer!History, Issued, Matches
      <3>2. page'.chosen \subseteq page'.listed /\ page'.listed \subseteq Composer!History'
        BY <2>1, <2>2, <3>1 DEF Receipting, ShownReceipts
      <3>3. Matches(page.previewId, page.disclosure)' BY <1>1, <1>2, <2>2 DEF Matches
      <3>4. /\ preview' # None => preview'.previewId \in Issued' /\ Bytes(preview.bytes)'
            /\ saved' # None /\ saved'.what = "export" => saved'.content = saved'.shown /\ Bytes(saved.content)'
        BY <1>1, <3>1 DEF Receipting, ShownReceipts, Bytes
      <3>5. AskedReceipts' BY <1>1, <1>3, AskedReceiptsKept DEF Elsewhere, Receipting
      <3> QED BY <2>2, <3>2, <3>3, <3>4, <3>5 DEF Receipting, ShownReceipts
    <2> QED BY <2>3, <2>4, <2>5
  <1>5. ASSUME NEW o \in Operations \cup {None}, Composer!ChooseOperation(o)
        PROVE  Forms' /\ Receipting' /\ Reporting'
    <2>1. page' = [Composer!InvalidateDiagnostics(page) EXCEPT !.operation = o]
      BY <1>5 DEF Composer!ChooseOperation
    <2>2. /\ Fields(page') /\ page'.listed = page.listed /\ page'.chosen = page.chosen
          /\ page'.previewId = page.previewId /\ page'.disclosure = page.disclosure
          /\ page'.offered = page.offered /\ page'.operation = o /\ page'.report = None
          /\ page'.diagnosticPreviewId = None
      BY <2>1 DEF Forms, Fields, Composer!InvalidateDiagnostics
    <2>3. Forms' BY <1>1, <2>2 DEF Forms, Fields
    <2>4. Receipting' BY <1>1, <1>3, <2>2, ReceiptingKept DEF Elsewhere
    <2>5. Reporting'
      <3>1. Reports(page.diagnosticPreviewId, page.report)' BY <1>1, <1>2, <2>2 DEF Reports
      <3>2. saved' # None /\ saved'.what = "report" => Filed(saved.content, saved.shown)'
        BY <1>1 DEF Reporting, ShownReports, Filed, Composer!Accounted
      <3>3. AskedReports' BY <1>1, <1>3, AskedReportsKept DEF Elsewhere, Reporting
      <3> QED BY <1>1, <2>2, <3>1, <3>2, <3>3 DEF Reporting, ShownReports
    <2> QED BY <2>3, <2>4, <2>5
  <1> QED BY <1>3, <1>4, <1>5

\* The session's own work, and the clock.
LEMMA Surrounded ==
  ASSUME CInv, Composer!Admit \/ Composer!Finish \/ Composer!Tick \/ Composer!Fails
               \/ \E r \in Receipts : Composer!Capture(r)
  PROVE  CInv'
  <1> USE DEF CInv
  <1>1. UNCHANGED <<preview, log, issued, page, saved>>
    BY DEF Composer!Admit, Composer!Finish, Composer!Tick, Composer!Fails, Composer!Capture, Composer!server
  <1>2. now' \in Nat /\ now <= now'
    <2>1. now' = now \/ now' = now + 1
      BY DEF Composer!Admit, Composer!Finish, Composer!Tick, Composer!Fails, Composer!Capture, Composer!server
    <2> QED BY <2>1 DEF Forms
  <1>3. Grows
    <2>1. records' = records \/ \E r \in Receipts : records' = [records EXCEPT ![r] = @ + 1]
      BY DEF Composer!Admit, Composer!Finish, Composer!Tick, Composer!Fails, Composer!Capture, Composer!server
    <2> QED BY <1>1, <2>1 DEF Grows, Forms
  <1>4. Logged' BY <1>1, <1>2, LoggedKept DEF Forms
  <1>5. /\ call' # None => Requested(call')
        /\ call' = call \/ call' = None \/ call'.what = "operate"
        /\ call' # None /\ call'.step = "working" => call'.what = "operate"
    <2>1. CASE Composer!Admit
      BY <2>1 DEF Forms, Requested, Composer!Admit, Composer!Asked
    <2>2. CASE Composer!Finish
      <3>1. CASE call # None /\ call.step = "working"
        BY <2>2, <3>1, CallAnswered, CallRefused DEF Composer!Finish, Forms
      <3>2. CASE ~(call # None /\ call.step = "working") BY <2>2, <3>2 DEF Composer!Finish, Forms
      <3> QED BY <3>1, <3>2
    <2>3. CASE Composer!Fails BY <2>3 DEF Composer!Fails
    <2>4. CASE Composer!Tick \/ \E r \in Receipts : Composer!Capture(r)
      BY <2>4 DEF Composer!Tick, Composer!Capture, Forms
    <2> QED BY <2>1, <2>2, <2>3, <2>4
  <1>6. Elsewhere(ForReceipts) /\ Elsewhere(ForReports) BY <1>5 DEF Elsewhere, ForReceipts, ForReports
  <1>7. Forms' BY <1>1, <1>2, <1>3, <1>5 DEF Forms, Grows
  <1>8. Receipting' BY <1>1, <1>3, <1>6, ReceiptingKept
  <1>9. Reporting' BY <1>1, <1>3, <1>6, ReportingKept
  <1> QED BY <1>4, <1>7, <1>8, <1>9
-----------------------------------------------------------------------------
(* The server answers.                                                     *)

LEMMA Lists ==
  ASSUME CInv, Composer!List
  PROVE  CInv'
  <1> USE DEF CInv
  <1>1. /\ UNCHANGED <<records, working, preview, log, now, issued, page, saved>>
        /\ call # None /\ call.what = "list" /\ Composer!Answers(Composer!History)
    BY DEF Composer!List, Composer!Asked, Composer!server
  <1>2. call'.what = "list" /\ call'.step = "answered" /\ call'.answer = Composer!History /\ Requested(call')
    BY <1>1, CallAnswered
  <1>3. Grows /\ Logged' BY <1>1, SameServer, LoggedKept
  <1>4. Forms' BY <1>1, <1>2 DEF Forms
  <1>5. Reporting' BY <1>1, <1>2, <1>3, ReportingKept DEF Elsewhere, ForReports
  <1>6. ShownReceipts' BY <1>1, <1>3, ShownReceiptsKept DEF Receipting
  <1>7. Composer!History' = Composer!History BY <1>1 DEF Composer!History
  <1>8. AskedReceipts' BY <1>2, <1>7 DEF AskedReceipts, Composer!Answered, Composer!Asked
  <1> QED BY <1>3, <1>4, <1>5, <1>6, <1>8 DEF Receipting

LEMMA Prepares ==
  ASSUME CInv, Composer!Prepare
  PROVE  CInv'
  <1> USE DEF CInv
  <1>1. /\ UNCHANGED <<records, working, log, now, page, saved>>
        /\ call # None /\ call.what = "prepare"
    BY DEF Composer!Prepare, Composer!Asked
  <1>2. issued' \in {issued, issued + 1} BY DEF Composer!Prepare
  <1>3. Grows /\ Logged' /\ issued' \in Nat /\ Issued \subseteq Issued'
    <2>1. issued' \in Nat /\ issued <= issued' BY <1>2 DEF Forms
    <2>2. Grows BY <1>1, <2>1 DEF Grows, Forms
    <2>3. Logged' BY <1>1, <2>1, LoggedKept DEF Forms
    <2> QED BY <2>1, <2>2, <2>3, IssuedGrows DEF Forms
  <1>4. CASE /\ call.arg \subseteq Composer!History
             /\ preview' = [previewId |-> issued, bytes |-> Composer!Disclosure(call.arg)]
             /\ issued' = issued + 1 /\ Composer!Answers(preview')
    <2>1. call'.what = "prepare" /\ call'.step = "answered" /\ call'.answer = preview' /\ Requested(call')
      BY <1>1, <1>4, CallAnswered
    <2>2. Forms' BY <1>1, <1>3, <2>1 DEF Forms
    <2>3. Reporting' BY <1>1, <1>3, <2>1, ReportingKept DEF Elsewhere, ForReports
    <2>4. Bytes(preview.bytes)'
      <3>1. preview'.bytes = [r \in call.arg |-> records[r]] BY <1>4 DEF Composer!Disclosure
      <3>2. ASSUME NEW r \in call.arg PROVE r \in Receipts /\ records[r] \in 1 .. records[r]
        BY <1>4 DEF Composer!History, Forms
      <3> QED BY <1>1, <3>1, <3>2 DEF Bytes
    <2>5. preview'.previewId = issued /\ issued \in Issued' /\ issued \notin Issued
      BY <1>4 DEF Issued, Forms
    <2>6. Matches(page.previewId, page.disclosure)'
      <3>1. page.previewId # issued
        BY <2>5, InstallationAssumption DEF Receipting, ShownReceipts, Forms
      <3> QED BY <1>1, <2>5, <3>1 DEF Matches
    <2>7. page'.chosen \subseteq page'.listed /\ page'.listed \subseteq Composer!History'
      BY <1>1 DEF Receipting, ShownReceipts, Composer!History
    <2>8. saved' # None /\ saved'.what = "export" => saved'.content = saved'.shown /\ Bytes(saved.content)'
      BY <1>1 DEF Receipting, ShownReceipts, Bytes
    <2>9. ShownReceipts' BY <1>1, <1>3, <2>4, <2>5, <2>6, <2>7, <2>8 DEF Receipting, ShownReceipts
    <2>10. AskedReceipts'
      BY <2>1, <2>5 DEF AskedReceipts, Matches, Composer!Answered, Composer!Asked
    <2> QED BY <1>3, <2>2, <2>3, <2>9, <2>10 DEF Receipting
  <1>5. CASE preview' = None /\ Composer!Refuses
    <2>1. call'.what = "prepare" /\ call'.step = "failed" /\ Requested(call')
      BY <1>1, <1>5, CallRefused
    <2>2. Forms' BY <1>1, <1>3, <2>1 DEF Forms
    <2>3. Reporting' BY <1>1, <1>3, <2>1, ReportingKept DEF Elsewhere, ForReports
    <2>4. Receipting' BY <1>1, <1>3, <1>5, <2>1, ReceiptingKept DEF Elsewhere
    <2> QED BY <1>3, <2>2, <2>3, <2>4
  <1> QED BY <1>4, <1>5 DEF Composer!Prepare

LEMMA Exports ==
  ASSUME CInv, Composer!Export
  PROVE  CInv'
  <1> USE DEF CInv
  <1>1. /\ UNCHANGED <<records, working, preview, log, now, issued, page, saved>>
        /\ call # None /\ call.what = "export" /\ Composer!Asked("export")
    BY DEF Composer!Export, Composer!Asked, Composer!server
  <1>2. \/ /\ preview # None /\ preview.previewId = call.arg
           /\ call'.step = "answered" /\ call'.answer = preview.bytes /\ call'.shown = call.shown
        \/ call'.step = "failed"
    BY <1>1, CallAnswered, CallRefused DEF Composer!Export
  <1>3. call'.what = "export" /\ Requested(call')
    BY <1>1, CallAnswered, CallRefused DEF Composer!Export
  <1>4. Grows /\ Logged' BY <1>1, SameServer, LoggedKept
  <1>5. Forms' BY <1>1, <1>2, <1>3 DEF Forms
  <1>6. Reporting' BY <1>1, <1>3, <1>4, ReportingKept DEF Elsewhere, ForReports
  <1>7. ShownReceipts' BY <1>1, <1>4, ShownReceiptsKept DEF Receipting
  <1>8. Composer!Answered("export")' => call'.answer = call'.shown /\ Bytes(call.answer)'
    <2>1. ASSUME call'.step = "answered" PROVE call'.answer = call'.shown /\ Bytes(call.answer)'
      <3>1. /\ preview # None /\ preview.previewId = call.arg
            /\ call'.answer = preview.bytes /\ call'.shown = call.shown
        BY <1>2, <2>1
      <3>2. preview.bytes = call.shown BY <1>1, <3>1 DEF Receipting, AskedReceipts, Matches
      <3>3. Bytes(preview.bytes) BY <3>1 DEF Receipting, ShownReceipts
      <3>4. Bytes(call.answer)' BY <1>1, <3>1, <3>3 DEF Bytes
      <3> QED BY <3>1, <3>2, <3>4
    <2> QED BY <2>1 DEF Composer!Answered
  <1>9. AskedReceipts' BY <1>2, <1>3, <1>8 DEF AskedReceipts, Composer!Answered, Composer!Asked
  <1> QED BY <1>4, <1>5, <1>6, <1>7, <1>9 DEF Receipting

LEMMA Derives ==
  ASSUME CInv, Composer!Derive
  PROVE  CInv'
  <1> USE DEF CInv
  <1>1. /\ UNCHANGED <<working, log, now, issued, page, saved>>
        /\ call # None /\ call.what = "redact"
        /\ preview' \in {preview, None}
        /\ records' = records \/ \E r \in Receipts \ Composer!History : records' = [records EXCEPT ![r] = 1]
        /\ Composer!Answers(None) \/ Composer!Refuses
    BY DEF Composer!Derive, Composer!Asked
  <1>2. call'.what = "redact" /\ call'.step \in {"answered", "failed"} /\ Requested(call')
    BY <1>1, CallAnswered, CallRefused
  <1>3. Grows
    <2>1. CASE records' = records BY <1>1, <2>1 DEF Grows, Forms
    <2>2. ASSUME NEW r \in Receipts \ Composer!History, records' = [records EXCEPT ![r] = 1] PROVE Grows
      <3>1. records[r] = 0 BY DEF Composer!History, Forms
      <3> QED BY <1>1, <2>2, <3>1 DEF Grows, Forms
    <2> QED BY <1>1, <2>1, <2>2
  <1>4. Logged' BY <1>1, LoggedKept DEF Forms
  <1>5. Forms' BY <1>1, <1>2, <1>3 DEF Forms, Grows
  <1>6. Reporting' BY <1>1, <1>2, <1>3, ReportingKept DEF Elsewhere, ForReports
  <1>7. Receipting' BY <1>1, <1>2, <1>3, ReceiptingKept DEF Elsewhere, ForReceipts
  <1> QED BY <1>4, <1>5, <1>6, <1>7

-----------------------------------------------------------------------------
(* The log.                                                                *)

LEMMA LoggedAfter ==
  ASSUME Forms, Logged, UNCHANGED <<now, issued>>, log' \in Log, Orderly(log'), Len(log'.events) <= EventLimit,
         log'.previews \subseteq log.previews
  PROVE  Logged'
  <1>1. IsFiniteSet(log'.previews) /\ Cardinality(log'.previews) <= PreviewLimit
    <2>1. Cardinality(log.previews) \in Nat /\ Cardinality(log'.previews) \in Nat
          /\ IsFiniteSet(log'.previews) /\ Cardinality(log'.previews) <= Cardinality(log.previews)
      BY FS_Subset, FS_CardinalityType DEF Logged
    <2> QED BY <2>1, LimitsAssumption DEF Logged
  <1>2. Orderly(log)' BY DEF Orderly
  <1>3. \A p \in log'.previews : Timely(p)' BY DEF Logged, Timely, Composer!Accounted, Issued
  <1> QED BY <1>1, <1>2, <1>3 DEF Logged

LEMMA Records ==
  ASSUME CInv, NEW operation \in Operations \cup {None}, Composer!Record(operation)
  PROVE  CInv'
  <1> USE DEF CInv
  <1> DEFINE l == Composer!Prune(log)
             event == [number |-> log.sequence + 1, time |-> now, operation |-> operation]
             longer == [l EXCEPT !.events = Append(@, event), !.sequence = @ + 1]
  <1>1. UNCHANGED <<records, working, preview, now, issued, page, call, saved>>
    BY DEF Composer!Record
  <1>2. /\ l \in Log /\ Orderly(l) /\ l.sequence = log.sequence /\ l.previews \subseteq log.previews
    BY Pruned
  <1>3. PICK n \in 0 .. Len(longer.events) - 1 :
          Len(longer.events) - n <= EventLimit /\ log' = Composer!Drop(longer, n)
    BY DEF Composer!Record
  <1>4. l.events \in Seq(Event) /\ l.dropped \in Nat /\ l.sequence \in Nat /\ now \in Nat
        /\ Len(l.events) \in Nat /\ DOMAIN l.events = 1 .. Len(l.events)
    BY <1>2, LenProperties DEF Log, Forms
  <1>5. event \in Event /\ event.number = l.sequence + 1 /\ event.time = now BY <1>2, <1>4 DEF Event
  <1> HIDE DEF event, l
  <1> DEFINE events == Append(l.events, event)
  <1>6. /\ events \in Seq(Event) /\ Len(events) = Len(l.events) + 1
        /\ \A i \in 1 .. Len(l.events) : events[i] = l.events[i]
        /\ events[Len(l.events) + 1] = event
    BY <1>4, <1>5, AppendProperties
  <1>7. DOMAIN events = 1 .. Len(l.events) + 1 BY <1>4, <1>6, LenProperties
  <1>8. longer = [l EXCEPT !.events = events, !.sequence = @ + 1] OBVIOUS
  <1> HIDE DEF longer, events
  <1>9. /\ longer \in Log /\ longer.events = events /\ longer.sequence = l.sequence + 1
        /\ longer.dropped = l.dropped /\ longer.previews = l.previews
    <2>1. l = [events |-> l.events, sequence |-> l.sequence, dropped |-> l.dropped, previews |-> l.previews]
      BY <1>2 DEF Log
    <2>2. longer = [events |-> events, sequence |-> l.sequence + 1, dropped |-> l.dropped, previews |-> l.previews]
      BY <1>8, <2>1
    <2>3. l.sequence + 1 \in Nat /\ l.previews \in SUBSET Kept BY <1>2, <1>4 DEF Log
    <2> QED BY <1>4, <1>6, <2>2, <2>3 DEF Log
  <1>10. Orderly(longer)
    <2>0. l.sequence = l.dropped + Len(l.events) BY <1>2 DEF Orderly
    <2>1. longer.sequence = longer.dropped + Len(longer.events)
      BY ONLY <1>4, <1>6, <1>9, <2>0
    <2>2. ASSUME NEW i \in DOMAIN events
          PROVE  events[i].number = l.dropped + i /\ events[i].time <= now
      <3>1. CASE i \in 1 .. Len(l.events) BY <1>2, <1>4, <1>6, <3>1 DEF Orderly
      <3>2. CASE i = Len(l.events) + 1
        <4>1. l.dropped + i = l.sequence + 1 BY ONLY <1>4, <2>0, <3>2
        <4> QED BY <1>4, <1>5, <1>6, <3>2, <4>1
      <3> QED BY <1>4, <1>7, <3>1, <3>2
    <2>3. ASSUME NEW i \in DOMAIN events, NEW j \in DOMAIN events, i <= j
          PROVE  events[i].time <= events[j].time
      <3>1. CASE j \in 1 .. Len(l.events)
        <4>1. i \in 1 .. Len(l.events) BY <1>4, <1>7, <2>3, <3>1
        <4> QED BY <1>2, <1>4, <1>6, <2>3, <3>1, <4>1 DEF Orderly
      <3>2. CASE j = Len(l.events) + 1 BY <1>5, <1>6, <2>2, <3>2
      <3>3. j \in 1 .. Len(l.events) \/ j = Len(l.events) + 1 BY ONLY <1>4, <1>7
      <3> QED BY <3>1, <3>2, <3>3
    <2> QED BY <1>9, <2>1, <2>2, <2>3 DEF Orderly
  <1>11. n \in 0 .. Len(longer.events)
    BY <1>3, <1>4, <1>6, <1>9
  <1>12. /\ log' \in Log /\ Orderly(log') /\ Len(log'.events) <= EventLimit
         /\ log'.previews \subseteq log.previews
    BY <1>2, <1>3, <1>4, <1>9, <1>10, <1>11, DropType
  <1>13. Logged' BY <1>1, <1>12, LoggedAfter
  <1>14. Forms' BY <1>1, <1>12 DEF Forms
  <1>15. Receipting' /\ Reporting'
    BY <1>1, <1>12, SameServer, ReceiptingKept, ReportingKept DEF Elsewhere
  <1> QED BY <1>13, <1>14, <1>15

LEMMA Selects ==
  ASSUME CInv, Composer!Selection
  PROVE  CInv'
  <1> USE DEF CInv
  <1> DEFINE answer == {e.operation : e \in Composer!ToSet(log'.events)} \ {None}
  <1>1. /\ UNCHANGED <<records, working, preview, now, issued, page, saved>>
        /\ call # None /\ call.what = "selection" /\ Composer!Answers(answer)
        /\ log' = Composer!Prune(log)
    BY DEF Composer!Selection, Composer!Asked
  <1>2. /\ log' \in Log /\ Orderly(log') /\ Len(log'.events) <= EventLimit
        /\ log'.previews \subseteq log.previews
    BY <1>1, Pruned
  <1>3. call'.what = "selection" /\ call'.step = "answered" /\ call'.answer = answer /\ Requested(call')
    BY <1>1, CallAnswered
  <1>4. answer \subseteq Operations
    <2>1. \A i \in DOMAIN log'.events : log'.events[i] \in Event
      BY <1>2, LenProperties, ElementOfSeq DEF Log
    <2> QED BY <2>1 DEF Composer!ToSet, Event
  <1> HIDE DEF answer
  <1>5. Grows /\ Logged' BY <1>1, <1>2, SameServer, LoggedAfter
  <1>6. Forms' BY <1>1, <1>2, <1>3 DEF Forms
  <1>7. Receipting' BY <1>1, <1>3, <1>5, ReceiptingKept DEF Elsewhere, ForReceipts
  <1>8. ShownReports' BY <1>1, <1>2, <1>5, ShownReportsKept DEF Reporting
  <1>9. AskedReports' BY <1>3, <1>4 DEF AskedReports, Composer!Answered, Composer!Asked
  <1> QED BY <1>5, <1>6, <1>7, <1>8, <1>9 DEF Reporting
-----------------------------------------------------------------------------
(* Previews of reports.                                                    *)

LEMMA ExpiresType ==
  ASSUME now \in Nat, NEW events \in SUBSET Event
  PROVE  LET t == Composer!Expires(events) IN
         /\ t \in Nat /\ t <= now + PreviewAge
         /\ \A e \in events : t <= e.time + EventAge
  <1> DEFINE S == {now + PreviewAge} \cup {e.time + EventAge : e \in events}
  <1>1. now + PreviewAge \in Nat /\ EventAge \in Nat BY LimitsAssumption
  <1>2. \A e \in events : e.time + EventAge \in Nat BY <1>1 DEF Event
  <1>3. S \subseteq Nat /\ S # {} BY <1>1, <1>2
  <1>4. Composer!Expires(events) = Composer!Min(S) BY DEF Composer!Expires
  <1> HIDE DEF S
  <1>5. Composer!Min(S) \in S /\ \A y \in S : Composer!Min(S) <= y BY <1>3, MinOf
  <1> QED BY <1>3, <1>4, <1>5 DEF S

LEMMA SameCardinality == ASSUME NEW S PROVE Composer!Cardinality(S) = Cardinality(S)
  BY DEF Composer!Cardinality, Cardinality

LEMMA EvictType ==
  ASSUME NEW previews \in SUBSET Kept, IsFiniteSet(previews), Cardinality(previews) <= PreviewLimit, NEW made
  PROVE  LET now_ == Composer!Evict(previews) \cup {made} IN
         /\ Composer!Evict(previews) \subseteq previews
         /\ IsFiniteSet(now_) /\ Cardinality(now_) <= PreviewLimit
  <1> DEFINE oldest == CHOOSE p \in previews : \A q \in previews : p.previewId <= q.previewId
             left == Composer!Evict(previews)
  <1>1. Cardinality(previews) \in Nat /\ PreviewLimit \in Nat /\ PreviewLimit > 0
    BY FS_CardinalityType, LimitsAssumption
  <1>2. /\ left \subseteq previews /\ IsFiniteSet(left) /\ Cardinality(left) \in Nat
        /\ Cardinality(left) + 1 <= PreviewLimit
    <2>0. left = IF Cardinality(previews) < PreviewLimit THEN previews ELSE previews \ {oldest}
      BY SameCardinality DEF Composer!Evict
    <2>1. CASE Cardinality(previews) < PreviewLimit
      <3>1. left = previews BY <2>0, <2>1
      <3> HIDE DEF left
      <3> QED BY <1>1, <2>1, <3>1
    <2>2. CASE ~(Cardinality(previews) < PreviewLimit)
      <3>1. left = previews \ {oldest} BY <2>0, <2>2
      <3>2. oldest \in previews
        <4> DEFINE ids == {p.previewId : p \in previews}
        <4>1. previews # {} BY <1>1, <2>2, FS_EmptySet
        <4>2. ids \subseteq Nat /\ ids # {} BY <4>1 DEF Kept
        <4>3. PICK id \in ids : \A other \in ids : id <= other
          <5> HIDE DEF ids
          <5> QED BY <4>2, MinOf
        <4>4. \E p \in previews : \A q \in previews : p.previewId <= q.previewId
          BY <4>3
        <4> QED BY <4>4
      <3> HIDE DEF left, oldest
      <3>3. IsFiniteSet(previews \ {oldest}) /\ Cardinality(previews \ {oldest}) = Cardinality(previews) - 1
        BY <3>2, FS_RemoveElement
      <3>4. Cardinality(previews) = PreviewLimit BY <1>1, <2>2
      <3> QED BY <1>1, <3>1, <3>3, <3>4
    <2> QED BY <2>1, <2>2
  <1> HIDE DEF left
  <1>3. /\ IsFiniteSet(left \cup {made})
        /\ Cardinality(left \cup {made}) <= Cardinality(left) + 1
        /\ Cardinality(left \cup {made}) \in Nat
    <2>1. /\ IsFiniteSet(left \cup {made})
          /\ Cardinality(left \cup {made}) = IF made \in left THEN Cardinality(left) ELSE Cardinality(left) + 1
      BY <1>2, FS_AddElement
    <2> QED BY <1>2, <2>1
  <1> QED BY <1>1, <1>2, <1>3 DEF left

\* What a report lists of the log it accounts for.
LEMMA ReportAccounts ==
  ASSUME NEW l \in Log, Orderly(l), NEW arg, NEW made,
         NEW report, report = [operation |-> arg, dropped |-> l.dropped,
                               events |-> {e \in Composer!ToSet(l.events) : arg \in {None, e.operation}},
                               made |-> made]
  PROVE  Composer!Accounted(report) /\ report.events \subseteq Composer!ToSet(l.events)
  <1>1. /\ l.events \in Seq(Event) /\ l.dropped \in Nat
        /\ Len(l.events) \in Nat /\ DOMAIN l.events = 1 .. Len(l.events)
    BY LenProperties DEF Log
  <1>2. \A i \in 1 .. Len(l.events) : l.events[i].number = l.dropped + i BY <1>1 DEF Orderly
  <1>3. /\ report.events \subseteq Composer!ToSet(l.events)
        /\ report.operation = None => report.events = Composer!ToSet(l.events)
        /\ report.dropped = l.dropped
    OBVIOUS
  <1>4. \A e \in Composer!ToSet(l.events) : \E i \in 1 .. Len(l.events) : e = l.events[i]
    BY <1>1 DEF Composer!ToSet
  <1>5. \A i \in 1 .. Len(l.events) : l.events[i] \in Composer!ToSet(l.events)
    BY <1>1 DEF Composer!ToSet
  <1>6. ASSUME NEW e \in Composer!ToSet(l.events) PROVE e.number > l.dropped
    <2>1. PICK i \in 1 .. Len(l.events) : e = l.events[i] BY <1>4
    <2>2. e.number = l.dropped + i /\ i \in Nat /\ i > 0 BY <1>2, <2>1
    <2> QED BY <1>1, <2>2
  <1>7. ASSUME NEW e \in Composer!ToSet(l.events), NEW f \in Composer!ToSet(l.events), e.number = f.number
        PROVE  e = f
    <2>1. PICK i \in 1 .. Len(l.events) : e = l.events[i] BY <1>4
    <2>2. PICK j \in 1 .. Len(l.events) : f = l.events[j] BY <1>4
    <2>3. l.dropped + i = l.dropped + j BY <1>2, <1>7, <2>1, <2>2
    <2>4. i = j BY <1>1, <2>3
    <2> QED BY <2>1, <2>2, <2>4
  <1>8. ASSUME NEW e \in Composer!ToSet(l.events), NEW n \in l.dropped + 1 .. e.number
        PROVE  \E f \in Composer!ToSet(l.events) : f.number = n
    <2>1. PICK i \in 1 .. Len(l.events) : e = l.events[i] BY <1>4
    <2>2. e.number = l.dropped + i BY <1>2, <2>1
    <2>3. n - l.dropped \in 1 .. Len(l.events) /\ l.dropped + (n - l.dropped) = n BY <1>1, <2>2
    <2> QED BY <1>2, <1>5, <2>3
  <1> QED BY <1>3, <1>6, <1>7, <1>8 DEF Composer!Accounted

LEMMA Previews ==
  ASSUME CInv, Composer!Preview
  PROVE  CInv'
  <1> USE DEF CInv
  <1> DEFINE l == Composer!Prune(log)
             events == {e \in Composer!ToSet(l.events) : call.arg \in {None, e.operation}}
             report == [operation |-> call.arg, dropped |-> l.dropped, events |-> events, made |-> now]
             made == [previewId |-> issued, content |-> report, expires |-> Composer!Expires(events)]
  <1>1. /\ UNCHANGED <<records, working, preview, now, page, saved>>
        /\ call # None /\ call.what = "preview" /\ Composer!Asked("preview")
        /\ issued' = issued + 1
        /\ log' = [l EXCEPT !.previews = Composer!Evict(@) \cup {made}]
        /\ Composer!Answers([previewId |-> issued, report |-> report])
    BY DEF Composer!Preview, Composer!Asked
  <1>2. /\ l \in Log /\ Orderly(l) /\ Len(l.events) <= EventLimit
        /\ l.previews = {p \in log.previews : now < p.expires}
    BY Pruned
  <1>3. call'.what = "preview" /\ call'.step = "answered" /\ Requested(call')
        /\ call'.answer.previewId = issued /\ call'.answer.report = report
    <2> DEFINE answer == [previewId |-> issued, report |-> report]
    <2>1. Composer!Answers(answer) BY <1>1
    <2>2. answer.previewId = issued /\ answer.report = report OBVIOUS
    <2> HIDE DEF answer
    <2> QED BY <1>1, <2>1, <2>2, CallAnswered
  <1>4. call.arg \in Operations \cup {None} /\ now \in Nat /\ issued \in Nat
    BY <1>1 DEF Reporting, AskedReports, Forms
  <1> HIDE DEF l
  <1>5. Composer!Accounted(report) /\ events \subseteq Composer!ToSet(l.events)
    BY <1>2, ReportAccounts
  <1>6. events \in SUBSET Event
    <2>1. \A i \in DOMAIN l.events : l.events[i] \in Event
      BY <1>2, LenProperties, ElementOfSeq DEF Log
    <2> QED BY <1>5, <2>1 DEF Composer!ToSet
  <1> HIDE DEF events
  <1>7. report \in Support /\ report.made = now /\ report.events = events
    BY <1>2, <1>4, <1>6 DEF Support, Log
  <1>8. /\ made \in Kept /\ made.previewId = issued /\ made.content = report
        /\ made.expires <= now + PreviewAge /\ \A e \in events : made.expires <= e.time + EventAge
    BY <1>4, <1>6, <1>7, ExpiresType DEF Kept
  <1> HIDE DEF report, made
  <1>9. /\ l.previews \in SUBSET Kept /\ IsFiniteSet(l.previews) /\ Cardinality(l.previews) <= PreviewLimit
        /\ l.previews \subseteq log.previews
    <2>1. Cardinality(log.previews) \in Nat /\ Cardinality(l.previews) \in Nat
          /\ IsFiniteSet(l.previews) /\ Cardinality(l.previews) <= Cardinality(log.previews)
      BY <1>2, FS_Subset, FS_CardinalityType DEF Logged
    <2> QED BY <1>2, <2>1, LimitsAssumption DEF Logged, Log
  <1> DEFINE previews == Composer!Evict(l.previews) \cup {made}
  <1>10. /\ previews \subseteq log.previews \cup {made} /\ IsFiniteSet(previews)
         /\ Cardinality(previews) <= PreviewLimit /\ previews \subseteq Kept
    BY <1>8, <1>9, EvictType
  <1>11. log' = [l EXCEPT !.previews = previews] BY <1>1
  <1> HIDE DEF previews
  <1>12. /\ log' \in Log /\ log'.events = l.events /\ log'.sequence = l.sequence
         /\ log'.dropped = l.dropped /\ log'.previews = previews
    BY <1>2, <1>10, <1>11 DEF Log
  <1>13. Grows /\ issued' \in Nat /\ Issued \subseteq Issued' /\ issued \in Issued' /\ issued \notin Issued
    <2>1. issued' \in Nat /\ issued <= issued' BY <1>1, <1>4
    <2>2. issued \in Issued' /\ issued \notin Issued BY <1>1, <1>4 DEF Issued
    <2> QED BY <1>1, <2>1, <2>2, IssuedGrows DEF Grows, Forms
  <1>14. Logged'
    <2>1. Orderly(log)' BY <1>1, <1>2, <1>12 DEF Orderly
    <2>2. ASSUME NEW p, p = made PROVE Timely(p)'
      BY <2>2, <1>5, <1>7, <1>8, <1>13 DEF Timely, Composer!Accounted
    <2>3. \A p \in log.previews : Timely(p)' BY <1>13 DEF Logged, Timely, Composer!Accounted
    <2>4. \A p \in previews : Timely(p)' BY <1>10, <2>2, <2>3
    <2> QED BY <1>2, <1>10, <1>12, <2>1, <2>4 DEF Logged
  <1>15. Forms' BY <1>1, <1>3, <1>12, <1>13 DEF Forms
  <1>16. Receipting' BY <1>1, <1>3, <1>13, ReceiptingKept DEF Elsewhere, ForReceipts
  <1>17. ShownReports'
    <2>1. page.diagnosticPreviewId # issued
      BY <1>4, <1>13, InstallationAssumption DEF Reporting, ShownReports
    <2>2. Reports(page.diagnosticPreviewId, page.report)'
      BY <1>1, <1>8, <1>10, <1>12, <2>1 DEF Reports, Reporting, ShownReports
    <2>3. saved' # None /\ saved'.what = "report" => Filed(saved.content, saved.shown)'
      BY <1>1 DEF Reporting, ShownReports, Filed, Composer!Accounted
    <2> QED BY <1>1, <1>13, <2>2, <2>3 DEF Reporting, ShownReports
  <1>18. AskedReports'
    <2>1. \A p \in log.previews : p.previewId # issued BY <1>13 DEF Logged, Timely
    <2>2. Reports(call.answer.previewId, call.answer.report)'
      BY <1>3, <1>8, <1>10, <1>12, <2>1 DEF Reports
    <2> QED BY <1>3, <1>13, <2>2 DEF AskedReports, Composer!Answered, Composer!Asked
  <1> QED BY <1>14, <1>15, <1>16, <1>17, <1>18 DEF Reporting

LEMMA Reportings ==
  ASSUME CInv, Composer!Report
  PROVE  CInv'
  <1> USE DEF CInv
  <1> DEFINE l == Composer!Prune(log)
             hits == {p \in l.previews : p.previewId = call.arg}
  <1>1. /\ UNCHANGED <<records, working, preview, now, issued, page, saved>>
        /\ call # None /\ call.what = "report" /\ Composer!Asked("report")
        /\ log' = [l EXCEPT !.previews = @ \ hits]
        /\ Composer!Refuses \/ \E p \in hits : Composer!Answers([content |-> p.content, at |-> now])
    BY DEF Composer!Report, Composer!Asked
  <1>2. /\ l \in Log /\ Orderly(l) /\ Len(l.events) <= EventLimit
        /\ l.previews = {p \in log.previews : now < p.expires}
    BY Pruned
  <1> HIDE DEF l
  <1>3. /\ log' \in Log /\ Orderly(log') /\ Len(log'.events) <= EventLimit
        /\ log'.previews \subseteq log.previews
    <2>1. /\ log' \in Log /\ log'.events = l.events /\ log'.sequence = l.sequence
          /\ log'.dropped = l.dropped /\ log'.previews = l.previews \ hits
      BY <1>1, <1>2 DEF Log
    <2> QED BY <1>2, <2>1 DEF Orderly
  <1>4. Grows /\ Logged' BY <1>1, <1>3, SameServer, LoggedAfter
  <1>5. ASSUME NEW p \in hits PROVE Filed([content |-> p.content, at |-> now], call.shown)
    <2>1. p \in log.previews /\ now < p.expires /\ p.previewId = call.arg BY <1>2
    <2>2. p.content = call.shown BY <1>1, <2>1 DEF Reporting, AskedReports, Reports
    <2>3. /\ Composer!Accounted(p.content) /\ p.expires <= p.content.made + PreviewAge
          /\ \A e \in p.content.events : p.expires <= e.time + EventAge
      BY <2>1 DEF Logged, Timely
    <2>4. /\ p.expires \in Nat /\ p.content.made \in Nat /\ now \in Nat
          /\ PreviewAge \in Nat /\ EventAge \in Nat
          /\ \A e \in p.content.events : e.time \in Nat
      BY <2>1, LimitsAssumption DEF Forms, Log, Kept, Support, Event
    <2>5. now - p.content.made < PreviewAge BY <2>1, <2>3, <2>4
    <2>6. \A e \in p.content.events : now - e.time < EventAge BY <2>1, <2>3, <2>4
    <2> QED BY <2>2, <2>3, <2>5, <2>6 DEF Filed
  <1>6. /\ call'.what = "report" /\ Requested(call') /\ call'.step \in {"answered", "failed"}
        /\ call'.step = "answered" => Filed(call'.answer, call'.shown)
    BY <1>1, <1>5, CallAnswered, CallRefused
  <1>7. Forms' BY <1>1, <1>3, <1>6 DEF Forms
  <1>8. Receipting' BY <1>1, <1>4, <1>6, ReceiptingKept DEF Elsewhere, ForReceipts
  <1>9. ShownReports' BY <1>1, <1>3, <1>4, ShownReportsKept DEF Reporting
  <1>10. AskedReports'
    <2>1. Composer!Answered("report")' => Filed(call.answer, call.shown)'
      BY <1>6 DEF Composer!Answered, Filed, Composer!Accounted
    <2> QED BY <1>6, <2>1 DEF AskedReports, Composer!Answered, Composer!Asked
  <1> QED BY <1>4, <1>7, <1>8, <1>9, <1>10 DEF Reporting

-----------------------------------------------------------------------------
(* The answer reaches the page.                                            *)

LEMMA ListArrives ==
  ASSUME CInv, Composer!Listed
  PROVE  CInv'
  <1> USE DEF CInv
  <1>1. /\ UNCHANGED <<records, working, preview, log, now, issued, saved>>
        /\ Composer!Answered("list") /\ call' = None
        /\ page' = [Composer!InvalidatePreview(page) EXCEPT !.listed = call.answer, !.chosen = call.arg \cap call.answer]
    BY DEF Composer!Listed, Composer!server
  <1>2. /\ Fields(page') /\ page'.listed = call.answer /\ page'.chosen = call.arg \cap call.answer
        /\ page'.previewId = None /\ page'.disclosure = None
        /\ page'.offered = page.offered /\ page'.operation = page.operation /\ page'.report = page.report
        /\ page'.diagnosticPreviewId = page.diagnosticPreviewId
    BY <1>1 DEF Forms, Fields, Composer!InvalidatePreview
  <1>3. Grows /\ Logged' BY <1>1, SameServer, LoggedKept
  <1>4. Forms' BY <1>1, <1>2 DEF Forms
  <1>5. Reporting' BY <1>1, <1>2, <1>3, ReportingKept DEF Elsewhere
  <1>6. AskedReceipts' BY <1>1, <1>3, AskedReceiptsKept DEF Elsewhere, Receipting
  <1>7. ShownReceipts'
    <2>1. preview # None => preview.previewId # None
      BY IssuedType DEF Forms, Receipting, ShownReceipts
    <2>2. Matches(page.previewId, page.disclosure)' BY <1>1, <1>2, <2>1 DEF Matches
    <2>3. /\ \A bytes : Bytes(bytes) => Bytes(bytes)'
          /\ Composer!History' = Composer!History /\ Issued' = Issued
      BY <1>1 DEF Bytes, Composer!History, Issued
    <2>4. page'.listed \subseteq Composer!History' /\ page'.chosen \subseteq page'.listed
      BY <1>1, <1>2, <2>3 DEF Receipting, AskedReceipts
    <2>5. /\ preview' # None => preview'.previewId \in Issued' /\ Bytes(preview.bytes)'
          /\ saved' # None /\ saved'.what = "export" => saved'.content = saved'.shown /\ Bytes(saved.content)'
      BY <1>1, <2>3 DEF Receipting, ShownReceipts, Bytes
    <2> QED BY <1>2, <2>2, <2>4, <2>5 DEF ShownReceipts
  <1> QED BY <1>3, <1>4, <1>5, <1>6, <1>7 DEF Receipting

LEMMA PreviewArrives ==
  ASSUME CInv, Composer!Previewed
  PROVE  CInv'
  <1> USE DEF CInv
  <1>1. /\ UNCHANGED <<records, working, preview, log, now, issued, saved>>
        /\ Composer!Answered("prepare") /\ call' = None
        /\ page' = [page EXCEPT !.previewId = call.answer.previewId, !.disclosure = call.answer.bytes]
    BY DEF Composer!Previewed, Composer!server
  <1>2. /\ Fields(page') /\ page'.listed = page.listed /\ page'.chosen = page.chosen
        /\ page'.previewId = call.answer.previewId /\ page'.disclosure = call.answer.bytes
        /\ page'.offered = page.offered /\ page'.operation = page.operation /\ page'.report = page.report
        /\ page'.diagnosticPreviewId = page.diagnosticPreviewId
    BY <1>1 DEF Forms, Fields
  <1>3. Grows /\ Logged' BY <1>1, SameServer, LoggedKept
  <1>4. Forms' BY <1>1, <1>2 DEF Forms
  <1>5. Reporting' BY <1>1, <1>2, <1>3, ReportingKept DEF Elsewhere
  <1>6. AskedReceipts' BY <1>1, <1>3, AskedReceiptsKept DEF Elsewhere, Receipting
  <1>7. ShownReceipts'
    <2>1. call.answer.previewId \in Issued /\ Matches(call.answer.previewId, call.answer.bytes)
      BY <1>1 DEF Receipting, AskedReceipts
    <2>2. Matches(page.previewId, page.disclosure)' BY <1>1, <1>2, <2>1 DEF Matches
    <2>3. /\ \A bytes : Bytes(bytes) => Bytes(bytes)'
          /\ Composer!History' = Composer!History /\ Issued' = Issued
      BY <1>1 DEF Bytes, Composer!History, Issued
    <2>4. page'.listed \subseteq Composer!History' /\ page'.chosen \subseteq page'.listed
      BY <1>2, <2>3 DEF Receipting, ShownReceipts
    <2>5. /\ preview' # None => preview'.previewId \in Issued' /\ Bytes(preview.bytes)'
          /\ saved' # None /\ saved'.what = "export" => saved'.content = saved'.shown /\ Bytes(saved.content)'
      BY <1>1, <2>3 DEF Receipting, ShownReceipts, Bytes
    <2> QED BY <1>2, <2>1, <2>2, <2>3, <2>4, <2>5 DEF ShownReceipts
  <1> QED BY <1>3, <1>4, <1>5, <1>6, <1>7 DEF Receipting

LEMMA ChangeArrives ==
  ASSUME CInv, Composer!Changed
  PROVE  CInv'
  <1> USE DEF CInv
  <1>1. /\ UNCHANGED <<records, working, preview, log, now, issued, page, saved>>
        /\ call' = Composer!Request("list", page.chosen, None)
    BY DEF Composer!Changed, Composer!server
  <1>2. call'.what = "list" /\ call'.step = "asked" /\ Requested(call') BY <1>1, CallAsked
  <1>3. Grows /\ Logged' BY <1>1, SameServer, LoggedKept
  <1>4. Forms' BY <1>1, <1>2 DEF Forms
  <1>5. Reporting' BY <1>1, <1>2, <1>3, ReportingKept DEF Elsewhere, ForReports
  <1>6. ShownReceipts' BY <1>1, <1>3, ShownReceiptsKept DEF Receipting
  <1>7. AskedReceipts' BY <1>2 DEF AskedReceipts, Composer!Answered, Composer!Asked
  <1> QED BY <1>3, <1>4, <1>5, <1>6, <1>7 DEF Receipting

LEMMA OfferArrives ==
  ASSUME CInv, Composer!Offered
  PROVE  CInv'
  <1> USE DEF CInv
  <1>1. /\ UNCHANGED <<records, working, preview, log, now, issued, saved>>
        /\ Composer!Answered("selection") /\ call' = None
        /\ page' = [Composer!InvalidateDiagnostics(page) EXCEPT !.offered = call.answer, !.operation = None]
    BY DEF Composer!Offered, Composer!server
  <1>2. /\ Fields(page') /\ page'.listed = page.listed /\ page'.chosen = page.chosen
        /\ page'.previewId = page.previewId /\ page'.disclosure = page.disclosure
        /\ page'.offered = call.answer /\ page'.operation = None /\ page'.report = None
        /\ page'.diagnosticPreviewId = None
    BY <1>1 DEF Forms, Fields, Composer!InvalidateDiagnostics
  <1>3. Grows /\ Logged' BY <1>1, SameServer, LoggedKept
  <1>4. Forms' BY <1>1, <1>2 DEF Forms, Reporting, AskedReports
  <1>5. Receipting' BY <1>1, <1>2, <1>3, ReceiptingKept DEF Elsewhere
  <1>6. AskedReports' BY <1>1, <1>3, AskedReportsKept DEF Elsewhere, Reporting
  <1>7. ShownReports'
    <2>1. \A p \in log.previews : p.previewId # None BY IssuedType DEF Logged, Timely, Forms
    <2>2. Reports(page.diagnosticPreviewId, page.report)' BY <1>1, <1>2, <2>1 DEF Reports
    <2>3. saved' # None /\ saved'.what = "report" => Filed(saved.content, saved.shown)'
      BY <1>1 DEF Reporting, ShownReports, Filed, Composer!Accounted
    <2> QED BY <1>2, <2>2, <2>3 DEF ShownReports
  <1> QED BY <1>3, <1>4, <1>5, <1>6, <1>7 DEF Reporting

LEMMA ReportArrives ==
  ASSUME CInv, Composer!Reported
  PROVE  CInv'
  <1> USE DEF CInv
  <1>1. /\ UNCHANGED <<records, working, preview, log, now, issued, saved>>
        /\ Composer!Answered("preview") /\ call' = None
        /\ page' = [page EXCEPT !.diagnosticPreviewId = call.answer.previewId, !.report = call.answer.report]
    BY DEF Composer!Reported, Composer!server
  <1>2. /\ Fields(page') /\ page'.listed = page.listed /\ page'.chosen = page.chosen
        /\ page'.previewId = page.previewId /\ page'.disclosure = page.disclosure
        /\ page'.offered = page.offered /\ page'.operation = page.operation
        /\ page'.report = call.answer.report /\ page'.diagnosticPreviewId = call.answer.previewId
    BY <1>1 DEF Forms, Fields
  <1>3. Grows /\ Logged' BY <1>1, SameServer, LoggedKept
  <1>4. Forms' BY <1>1, <1>2 DEF Forms
  <1>5. Receipting' BY <1>1, <1>2, <1>3, ReceiptingKept DEF Elsewhere
  <1>6. AskedReports' BY <1>1, <1>3, AskedReportsKept DEF Elsewhere, Reporting
  <1>7. ShownReports'
    <2>1. Reports(page.diagnosticPreviewId, page.report)' /\ page'.diagnosticPreviewId \in Issued'
      BY <1>1, <1>2 DEF Reports, Reporting, AskedReports, Issued
    <2>2. saved' # None /\ saved'.what = "report" => Filed(saved.content, saved.shown)'
      BY <1>1 DEF Reporting, ShownReports, Filed, Composer!Accounted
    <2> QED BY <2>1, <2>2 DEF ShownReports
  <1> QED BY <1>3, <1>4, <1>5, <1>6, <1>7 DEF Reporting

LEMMA FileArrives ==
  ASSUME CInv, Composer!Saved
  PROVE  CInv'
  <1> USE DEF CInv
  <1>1. /\ UNCHANGED <<records, working, preview, log, now, issued, page>>
        /\ Composer!Answered("export") \/ Composer!Answered("report")
        /\ call' = None
        /\ saved' = [what |-> call.what, content |-> call.answer, shown |-> call.shown]
    BY DEF Composer!Saved, Composer!server, Composer!File
  <1>2. Grows /\ Logged' BY <1>1, SameServer, LoggedKept
  <1>3. Forms' BY <1>1 DEF Forms
  <1>4. AskedReceipts' /\ AskedReports'
    BY <1>1, <1>2, AskedReceiptsKept, AskedReportsKept DEF Elsewhere, Receipting, Reporting
  <1>5. /\ saved'.what = "export" => saved'.content = saved'.shown /\ Bytes(saved.content)'
        /\ saved'.what = "report" => Filed(saved.content, saved.shown)'
    <2>1. ASSUME saved'.what = "export" PROVE saved'.content = saved'.shown /\ Bytes(saved.content)'
      BY <1>1, <2>1 DEF Receipting, AskedReceipts, Composer!Answered, Bytes
    <2>2. ASSUME saved'.what = "report" PROVE Filed(saved.content, saved.shown)'
      <3>1. Filed(call.answer, call.shown) BY <1>1, <2>2 DEF Reporting, AskedReports, Composer!Answered
      <3> QED BY <1>1, <3>1 DEF Filed, Composer!Accounted
    <2> QED BY <2>1, <2>2
  <1>6. ShownReceipts'
    BY <1>1, <1>5 DEF Receipting, ShownReceipts, Composer!History, Issued, Bytes, Matches
  <1>7. ShownReports'
    BY <1>1, <1>5 DEF Reporting, ShownReports, Reports, Issued
  <1> QED BY <1>2, <1>3, <1>4, <1>6, <1>7 DEF Receipting, Reporting

LEMMA ComposerStep == CInv /\ (Composer!ReceiptsDesk \/ Composer!ReportsDesk) => CInv'
  <1> SUFFICES ASSUME CInv, Composer!ReceiptsDesk \/ Composer!ReportsDesk PROVE CInv'
    OBVIOUS
  <1>1. CASE Composer!ReceiptsDesk
    BY <1>1, Chooses, Surrounded, AsksForReceipts, Lists, Prepares, Exports, Derives, ListArrives,
       PreviewArrives, ChangeArrives, FileArrives DEF Composer!ReceiptsDesk
  <1>2. CASE Composer!ReportsDesk
    BY <1>2, Chooses, Surrounded, AsksForReports, Records, Selects, Previews, Reportings, OfferArrives,
       ReportArrives, FileArrives DEF Composer!ReportsDesk
  <1> QED BY <1>1, <1>2
-----------------------------------------------------------------------------
(* The promises.                                                           *)

LEMMA Inductive == IInv /\ [Next]_vars => IInv'
  <1>1. ASSUME IInv, UNCHANGED vars PROVE IInv'
    BY <1>1 DEF vars, IInv, Shaped, Started, Pending, Awaited, Floored, Known, Newest, Downloads, Registered,
         Remembered, Accounted
  <1> QED BY <1>1, Launches, Stops, Surroundings, Starting, Enables, Removes, ChangesManifest, Saves, SavesNot,
        Checks, Fetches, DownloadsFile DEF Next, Lifecycle, Updating

LEMMA ComposerInductive == CInv /\ [DesktopNext]_desktopVars => CInv'
  <1>1. ASSUME CInv, UNCHANGED composerVars PROVE CInv'
    BY <1>1 DEF composerVars, CInv, Forms, Logged, Orderly, Timely, Issued, Receipting, ShownReceipts,
         AskedReceipts, Bytes, Matches, Reporting, ShownReports, AskedReports, Reports, Filed, Composer!History,
         Composer!Asked, Composer!Answered, Composer!Accounted
  <1> QED BY <1>1, ComposerStep DEF desktopVars, DesktopNext, Maintenance, ReceiptFiles, ReportFiles

\* The page's files are no part of the installation: the app beside them is the Installation.
LEMMA Implements == DesktopSpec => Spec
  <1>1. DesktopInit => Init BY DEF DesktopInit
  <1>2. [DesktopNext]_desktopVars => [Next]_vars
    BY DEF DesktopNext, desktopVars, Maintenance, ReceiptFiles, ReportFiles
  <1> QED BY <1>1, <1>2, PTL DEF DesktopSpec, Spec

LEMMA Always == DesktopSpec => []IInv
  BY InitHolds, Inductive, Implements, PTL DEF Spec

LEMMA ComposerAlways == DesktopSpec => []CInv
  <1>1. DesktopInit => CInv BY ComposerInit DEF DesktopInit
  <1> QED BY <1>1, ComposerInductive, PTL DEF DesktopSpec

\* A version that came up once is the least that comes up again, whatever failed or died in between
\* and whichever channel ran meanwhile (init, #save).
THEOREM FloorStands == DesktopSpec => []FloorHolds
  <1>1. IInv => FloorHolds BY DEF IInv, Started, Floored, FloorHolds
  <1> QED BY <1>1, Always, PTL

\* Nothing is opened but a complete download that Apple's tools approved, and nothing a failed one
\* wrote is kept (download and its finally).
THEOREM OnlyApproved == DesktopSpec => []OnlyApprovedOpens
  <1>1. IInv => OnlyApprovedOpens
    BY Constants DEF IInv, Downloads, OnlyApprovedOpens
  <1> QED BY <1>1, Always, PTL

\* What this app registered a saved state accounts for, unless a registration was interrupted
\* between its two files (enable, remove).
THEOREM RegistrationKnown == DesktopSpec => []RegistrationAccounted
  <1>1. IInv => RegistrationAccounted BY DEF IInv, Registered, RegistrationAccounted
  <1> QED BY <1>1, Always, PTL

\* The updater writes no state of its own: it has the lifecycle remember for it.
LEMMA UpdatersKeep ==
  ASSUME Updating \/ CheckUpdate \/ DownloadUpdate
  PROVE  disk' = disk /\ app' = app
  <1>1. ASSUME NEW s, Checked(s) PROVE disk' = disk /\ app' = app BY <1>1 DEF Checked
  <1>2. CASE CheckRecorded BY <1>2 DEF CheckRecorded
  <1>3. CASE RecordFailed BY <1>3 DEF RecordFailed
  <1>4. CASE Download BY <1>4 DEF Download
  <1>5. CASE OpenDownload BY <1>5 DEF OpenDownload
  <1>6. CASE CheckUpdate BY <1>6 DEF CheckUpdate
  <1>7. CASE DownloadUpdate
    <2>1. UNCHANGED <<disk, manifest, app, queue, op, torn, ran, opened>> BY ONLY <1>7, Zenon DEF DownloadUpdate
    <2> QED BY <2>1
  <1> QED BY <1>1, <1>2, <1>3, <1>4, <1>5, <1>6, <1>7 DEF Updating

\* Only the end of a lifecycle operation writes a saved state.
LEMMA OnlySavesWrite ==
  ASSUME Next
  PROVE  disk' = disk \/ Save \/ SaveFails
  <1>1. ASSUME NEW c, NEW s, NEW p, Launch(c, s, p) PROVE disk' = disk BY <1>1 DEF Launch
  <1>2. CASE Stop BY <1>2 DEF Stop
  <1>3. ASSUME NEW m, ForeignManifest(m) PROVE disk' = disk BY <1>3 DEF ForeignManifest
  <1>4. ASSUME NEW kind, Ask(kind) PROVE disk' = disk BY <1>4 DEF Ask
  <1>5. CASE Lifecycle
    <2>1. CASE Record BY <2>1 DEF Record
    <2>2. CASE RememberRelease BY <2>2 DEF RememberRelease
    <2>3. CASE ReadManifest BY <2>3 DEF ReadManifest
    <2>4. CASE Enable BY <2>4 DEF Enable
    <2>5. CASE Remove BY <2>5 DEF Remove
    <2>6. CASE ChangeManifest BY <2>6 DEF ChangeManifest
    <2> QED BY <1>5, <2>1, <2>2, <2>3, <2>4, <2>5, <2>6 DEF Lifecycle
  <1>6. CASE Updating \/ CheckUpdate \/ DownloadUpdate BY <1>6, UpdatersKeep
  <1> QED BY <1>1, <1>2, <1>3, <1>4, <1>5, <1>6 DEF Next

\* Only a check that was remembered and recorded changes what is offered.
LEMMA OfferedBefore ==
  ASSUME IInv, Next
  PROVE  up'.release \in {up.release, None} \/ (disk' = disk /\ app' = app)
  <1> USE DEF IInv
  <1>0. up \in Updater BY DEF Shaped
  <1>1. ASSUME NEW answer \in Steps, op # None, Ends(answer) PROVE up'.release = up.release
    BY <1>1, EndsType
  <1>2. ASSUME NEW c \in Channels, NEW s \in Releases, NEW p \in Places, Launch(c, s, p) PROVE up' = up
    BY <1>2 DEF Launch
  <1>5. CASE Stop BY <1>5 DEF Stop, Idle
  <1>6. ASSUME NEW m, ForeignManifest(m) PROVE up' = up BY <1>6 DEF ForeignManifest
  <1>7. ASSUME NEW kind, Ask(kind) PROVE up' = up BY <1>7 DEF Ask
  <1>3. CASE Lifecycle
    <2>1. CASE Record \/ ReadManifest BY <2>1 DEF Record, ReadManifest
    <2>2. CASE RememberRelease
      <3>1. up' = up \/ up' = [up EXCEPT !.step = "failed"] BY <2>2 DEF RememberRelease
      <3> QED BY <1>0, <3>1 DEF Updater
    <2>3. CASE Enable \/ Remove \/ ChangeManifest
      <3>1. op # None /\ (up' = up \/ Ends("failed"))
        BY <2>3 DEF Enable, Remove, ChangeManifest, Proceeds
      <3> QED BY <1>1, <3>1 DEF Steps
    <2>4. CASE Save
      <3>1. op # None /\ \E answer \in {"remembered", "recorded"} : Ends(answer) BY <2>4 DEF Save
      <3> QED BY <1>1, <3>1 DEF Steps
    <2>5. CASE SaveFails BY <1>1, <2>5 DEF SaveFails, Steps
    <2> QED BY <1>3, <2>1, <2>2, <2>3, <2>4, <2>5 DEF Lifecycle
  <1>4. CASE Updating \/ CheckUpdate \/ DownloadUpdate
    BY <1>4, UpdatersKeep
  <1> QED BY <1>2, <1>3, <1>4, <1>5, <1>6, <1>7 DEF Next

\* No saved knowledge of a newer release is lost, and only the newest one saved is offered or
\* downloaded (check, rememberRelease, init).
THEOREM NewestStays == DesktopSpec => NewestIsRemembered
  <1> DEFINE Step == /\ \A c \in Channels : disk[c] # None => disk'[c] # None /\ disk'[c].seen >= disk[c].seen
                     /\ up'.release # None => up'.release = disk[app.channel].seen
  <1>1. ASSUME IInv, IInv', Next PROVE Step
    <2>1. ASSUME NEW c \in Channels, disk[c] # None PROVE disk'[c] # None /\ disk'[c].seen >= disk[c].seen
      <3>1. disk[c].seen \in Nat BY <1>1, <2>1, Constants DEF IInv, Shaped, Saved
      <3>2. CASE disk' = disk BY <2>1, <3>1, <3>2
      <3>3. CASE app.on /\ disk' = [disk EXCEPT ![app.channel] = app.mem]
        BY <1>1, <2>1, <3>1, <3>3, DiskType DEF IInv, Known
      <3>4. CASE Save \/ SaveFails
        BY <1>1, <3>2, <3>3, <3>4 DEF Save, SaveFails, IInv, Started
      <3>5. disk' = disk \/ Save \/ SaveFails BY <1>1, OnlySavesWrite
      <3> QED BY <3>2, <3>4, <3>5
    <2>2. up'.release # None => up'.release = disk[app.channel].seen
      BY <1>1, OfferedBefore DEF IInv, Known, Newest
    <2> QED BY <2>1, <2>2
  <1>2. IInv /\ IInv' /\ [Next]_vars => [Step]_vars BY <1>1
  <1>3. DesktopSpec => [][Step]_vars BY <1>2, Always, Implements, PTL DEF Spec
  <1> QED BY <1>3 DEF NewestIsRemembered

\* A file of receipts has exactly the records on show when the person asked to save it, however many
\* receipts were captured, derived, selected, previewed again or lost meanwhile (prepare, export,
\* invalidatePreview).
THEOREM FilesAsShown == DesktopSpec => []ReceiptsAsShown
  <1>1. CInv => ReceiptsAsShown
    BY DEF CInv, Receipting, ShownReceipts, Matches, Bytes, ReceiptsAsShown, Composer!ReceiptsAsShown
  <1> QED BY <1>1, ComposerAlways, PTL

\* A support report is the one on show, was fresh as it left and accounts for every event it lacks, for
\* every limit on events, previews and ages (record, preview, export, #prune).
THEOREM ReportsAccounted == DesktopSpec => []ReportsAsShown
  <1>1. CInv => ReportsAsShown
    BY SameCardinality DEF CInv, Logged, Orderly, Reporting, ShownReports, Filed, ReportsAsShown, Composer!ReportsAsShown
  <1> QED BY <1>1, ComposerAlways, PTL
=============================================================================
