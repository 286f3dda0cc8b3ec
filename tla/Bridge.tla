--------------------------------- MODULE Bridge ---------------------------------
(***************************************************************************)
(* The path of one release from the app into the provider's page: the      *)
(* adapter and the bridge controller in the app, a framed pipe to the      *)
(* extension's service worker, and the content script in the page.         *)
(*                                                                         *)
(* Four parties run at their own pace: the app, the worker, the page and   *)
(* the person (with the provider's own scripts).  Each await in the code   *)
(* is a point where the others may act.  The pipe is ordered and dies with *)
(* the connection; state snapshots are taken asynchronously and may be     *)
(* posted in any order; the worker may be stopped and started again by     *)
(* Chrome; the page may reload under a release.                            *)
(***************************************************************************)
EXTENDS Naturals, Sequences, FiniteSets

CONSTANTS
  Attempts,      \* release attempts the runtime hands over, one at a time
  Destinations,  \* conversations the page can show
  MaxScopes,     \* bound on enrollments
  MaxSessions,   \* bound on starts of the service worker
  MaxPublishing, \* bound on publications under way when the outside changes something
  MaxQueue,      \* bound on unread messages from the worker
  None

VARIABLES
  page,       \* the provider's tab and what surrounds it
  worker,     \* the service worker
  publishing, \* state messages the worker is preparing
  toApp,      \* messages on their way from the worker to the app
  link,       \* the app's end of the connection
  ad,         \* the adapter's memory
  att,        \* each attempt, wherever it is
  chosen,     \* history: the conversation of every enrollment
  strayed     \* history: the page left what is enrolled and has not come back

vars == <<page, worker, publishing, toApp, link, ad, att, chosen, strayed>>

Sessions == 1 .. MaxSessions
Scopes   == 1 .. MaxScopes
Places   == {"new", "wire", "worker", "asked", "hashing", "answered", "returned", "gone"}
Results  == {"NONE", "CLICKED", "UNKNOWN"}
Outcomes == {"SUBMISSION_OBSERVED", "FAILED_BEFORE_EGRESS", "OUTCOME_UNKNOWN"}

\* empty: one composer, no text, no attachment; alone: the only ChatGPT tab, and active.
Page == [dest : Destinations, empty : BOOLEAN, alone : BOOLEAN, granted : BOOLEAN]
Publications == [kind : {"hello", "state"}, seen : Page \cup {None}]
Enrollment == [scope : Scopes, dest : Destinations, session : Sessions]

Attempt == [at : Places, scope : Scopes \cup {None}, dest : Destinations \cup {None},
            session : Sessions \cup {None}, job : Sessions \cup {None},
            result : Results \cup {None}, shown : {0, 1}, clicked : BOOLEAN,
            pending : BOOLEAN, replied : Results \cup {None}, stale : BOOLEAN,
            verdict : Outcomes \cup {None}, calm : BOOLEAN]
Message == [kind : {"hello", "state"}, seen : Page, session : Sessions]
           \cup [kind : {"reply"}, attempt : Attempts, session : Sessions, result : Results]

ASSUME BridgeAssumption ==
  /\ None \notin Attempts \cup Destinations \cup Nat \cup Results \cup Outcomes
  /\ None \notin Page
  /\ {MaxScopes, MaxSessions, MaxPublishing, MaxQueue} \subseteq Nat \ {0}

NewAttempt == [at |-> "new", scope |-> None, dest |-> None, session |-> None, job |-> None,
               result |-> None, shown |-> 0, clicked |-> FALSE,
               pending |-> FALSE, replied |-> None, stale |-> FALSE, verdict |-> None,
               calm |-> FALSE]

Init ==
  /\ page \in [dest : Destinations, empty : {TRUE}, alone : {TRUE}, granted : {TRUE}]
  /\ worker = [session |-> 1, deferred |-> FALSE, notice |-> FALSE]
  /\ publishing = {} /\ toApp = <<>> /\ link = "down"
  /\ ad = [conn |-> None, view |-> None, enrolled |-> None]
  /\ att = [t \in Attempts |-> NewAttempt]
  /\ chosen = <<>> /\ strayed = FALSE

-----------------------------------------------------------------------------
(* Vocabulary.                                                             *)

\* The page as seen is the enrolled, empty, unambiguous one.
Fits(seen, enrolled) == seen.dest = enrolled.dest /\ seen.empty /\ seen.alone

\* assertHealthy, of the adapter's latest view.
Healthy(scope) ==
  /\ ad.enrolled # None /\ ad.view # None
  /\ ad.enrolled.scope = scope /\ ad.enrolled.session = ad.conn
  /\ Fits(ad.view, ad.enrolled)

\* Releases the present worker is still working on.
ActiveReleases(a, session) ==
  {t \in Attempts : a[t].at \in {"worker", "asked", "hashing", "answered", "returned"} /\ a[t].job = session}

\* The app runs to completion: what was read settles before its next event.
AppIdle == \A t \in Attempts : att[t].replied = None

Publish(kind) == [kind |-> kind, seen |-> None]
Asked == Cardinality(publishing) < MaxPublishing

Settle(a, verdict) == [a EXCEPT !.pending = FALSE, !.replied = None, !.verdict = verdict]

\* Nobody but the release itself touches anything while it runs.
Disturbed(a) == [t \in Attempts |-> [a[t] EXCEPT !.calm = FALSE]]
\* An answer still owed was asked for under an enrollment that is no more.
Outdated(a) == [t \in Attempts |-> [a[t] EXCEPT !.stale = @ \/ a[t].pending \/ a[t].replied # None]]

\* The content script answers the worker that asked.
Answered(a, result) == [a EXCEPT !.at = "answered", !.result = result]

\* The history variable strayed, after the page becomes next.
Strays(next) ==
  LET left(p) == ~(p.granted /\ Fits(p, ad.enrolled)) IN
  ad.enrolled # None /\ left(next) /\ (strayed \/ ~left(page))

-----------------------------------------------------------------------------
(* The person, the provider's scripts and Chrome.                          *)

\* The surface changes without a new document; a changed URL is published at once.
SurfaceChanges(dest, empty) ==
  LET next == [page EXCEPT !.dest = dest, !.empty = empty] IN
  /\ next # page /\ Asked
  /\ page' = next /\ strayed' = Strays(next)
  /\ worker' = [worker EXCEPT !.notice = TRUE]
  /\ publishing' = IF dest # page.dest THEN publishing \cup {Publish("state")} ELSE publishing
  /\ att' = Disturbed(att)
  /\ UNCHANGED <<toApp, link, ad, chosen>>

\* Another tab comes or goes, or is activated; or the permission is removed.
TabsChange(alone, granted) ==
  LET next == [page EXCEPT !.alone = alone, !.granted = granted] IN
  /\ next # page /\ (granted => page.granted) /\ Asked
  /\ page' = next /\ strayed' = Strays(next)
  /\ publishing' = publishing \cup {Publish("state")}
  /\ att' = Disturbed(att)
  /\ UNCHANGED <<worker, toApp, link, ad, chosen>>

\* A plausible bug in Unheard, used only to test the properties.
UnheardIsNothing == "NONE"
\* What the worker makes of a content script that does not answer.
Unheard == "UNKNOWN"

\* A new document: the content scripts at work in the old one never answer, and
\* the worker cannot know what they did.
Reload(dest) ==
  LET next == [page EXCEPT !.dest = dest, !.empty = TRUE]
      lost(a) == IF a.at \in {"asked", "hashing", "answered"} THEN Answered(a, Unheard) ELSE a IN
  /\ Asked
  /\ page' = next /\ strayed' = Strays(next)
  /\ publishing' = publishing \cup {Publish("state")}
  /\ att' = Disturbed([t \in Attempts |-> lost(att[t])])
  /\ UNCHANGED <<worker, toApp, link, ad, chosen>>

-----------------------------------------------------------------------------
(* The worker: connection and state publication.                           *)

Connect ==
  /\ link = "down" /\ Asked
  /\ link' = "up"
  /\ publishing' = publishing \cup {Publish("hello")}
  /\ UNCHANGED <<page, worker, toApp, ad, att, chosen, strayed>>

\* A publication sees the tabs as they are now.
InspectTabs(m) ==
  /\ m.seen = None
  /\ publishing' = (publishing \ {m}) \cup {[m EXCEPT !.seen = page]}
  /\ UNCHANGED <<page, worker, toApp, link, ad, att, chosen, strayed>>

\* It is posted to whichever connection there is by then.
PostState(m) ==
  /\ m.seen # None /\ Len(toApp) < MaxQueue
  /\ publishing' = publishing \ {m}
  /\ toApp' = IF link = "up"
              THEN Append(toApp, [kind |-> m.kind, seen |-> m.seen, session |-> worker.session]) ELSE toApp
  /\ UNCHANGED <<page, worker, link, ad, att, chosen, strayed>>

\* A plausible bug in SurfaceNotice, used only to test the properties.
SurfaceNoticeAtOnce ==
  /\ worker.notice
  /\ worker' = [worker EXCEPT !.notice = FALSE]
  /\ publishing' = publishing \cup {Publish("state")}
  /\ UNCHANGED <<page, toApp, link, ad, att, chosen, strayed>>
\* While a release is under way a change of the surface is published after it.
SurfaceNotice ==
  LET busy == ActiveReleases(att, worker.session) # {} IN
  /\ worker.notice
  /\ worker' = [worker EXCEPT !.notice = FALSE, !.deferred = @ \/ busy]
  /\ publishing' = IF busy THEN publishing ELSE publishing \cup {Publish("state")}
  /\ UNCHANGED <<page, toApp, link, ad, att, chosen, strayed>>

-----------------------------------------------------------------------------
(* A release in the worker and in the page.                                *)

ReceiveRelease(t) ==
  /\ att[t].at = "wire"
  /\ att' = [att EXCEPT ![t].at = "worker", ![t].job = worker.session]
  /\ UNCHANGED <<page, worker, publishing, toApp, link, ad, chosen, strayed>>

\* The worker inspects the tabs; only then does it ask the content script.
HandleRelease(t) ==
  LET a == att[t] IN
  /\ a.at = "worker"
  /\ att' = [att EXCEPT ![t] =
       IF a.session = worker.session /\ Fits(page, [dest |-> a.dest])
       THEN [a EXCEPT !.at = "asked"] ELSE [a EXCEPT !.at = "returned", !.result = "NONE"]]
  /\ UNCHANGED <<page, worker, publishing, toApp, link, ad, chosen, strayed>>

\* The content script does not see the other tabs.
SurfaceFits(a) == page.dest = a.dest /\ page.empty

BeginInjection(t) ==
  /\ att[t].at = "asked"
  /\ att' = [att EXCEPT ![t] = IF SurfaceFits(@) THEN [@ EXCEPT !.at = "hashing"] ELSE Answered(@, "NONE")]
  /\ UNCHANGED <<page, worker, publishing, toApp, link, ad, chosen, strayed>>

\* The text reaches the composer; the page may then change it, or the button be disabled.
Injected(a, clicked) ==
  [Answered(a, IF clicked THEN "CLICKED" ELSE "UNKNOWN") EXCEPT !.shown = a.shown + 1, !.clicked = clicked]

InjectAndClick(t) ==
  \E clicked \in BOOLEAN :
    /\ att' = [att EXCEPT ![t] = Injected(@, clicked)]
    /\ page' = [page EXCEPT !.empty = FALSE]
    /\ strayed' = Strays(page')
    /\ worker' = [worker EXCEPT !.notice = TRUE]

Withhold(t) ==
  /\ att' = [att EXCEPT ![t] = Answered(@, "NONE")]
  /\ UNCHANGED <<page, worker, strayed>>

\* Two plausible bugs in FinishInjection, used only to test the properties.
FinishInjectionUnchecked(t) ==
  /\ att[t].at = "hashing"
  /\ InjectAndClick(t)
  /\ UNCHANGED <<publishing, toApp, link, ad, chosen>>
FinishInjectionTwice(t) ==
  /\ att[t].at = "hashing" /\ SurfaceFits(att[t])
  /\ att' = [att EXCEPT ![t].shown = @ + 1]
  /\ page' = [page EXCEPT !.empty = FALSE]
  /\ UNCHANGED <<worker, publishing, toApp, link, ad, chosen, strayed>>
\* After the digest, everything is looked at again, and nothing comes between this look and the text.
FinishInjection(t) ==
  /\ att[t].at = "hashing"
  /\ IF SurfaceFits(att[t]) THEN InjectAndClick(t) ELSE Withhold(t)
  /\ UNCHANGED <<publishing, toApp, link, ad, chosen>>

\* The worker hears of it, unless it is no longer the worker that asked.
HearAnswer(t) ==
  /\ att[t].at = "answered"
  /\ att' = [att EXCEPT ![t].at = IF att[t].job = worker.session THEN "returned" ELSE "gone"]
  /\ UNCHANGED <<page, worker, publishing, toApp, link, ad, chosen, strayed>>

\* A plausible bug in PostReply, used only to test the properties.
PostReplyForgetting(t) ==
  /\ att[t].at = "returned" /\ Len(toApp) < MaxQueue
  /\ att' = [att EXCEPT ![t].at = "gone"]
  /\ toApp' = IF link = "up"
              THEN Append(toApp, [kind |-> "reply", attempt |-> t, session |-> worker.session,
                                  result |-> att[t].result]) ELSE toApp
  /\ UNCHANGED <<page, worker, publishing, link, ad, chosen, strayed>>
\* The reply is posted first, the deferred change of the surface published after it.
PostReply(t) ==
  LET done == [att EXCEPT ![t].at = "gone"]
      last == ActiveReleases(done, worker.session) = {} IN
  /\ att[t].at = "returned" /\ Len(toApp) < MaxQueue
  /\ att' = done
  /\ toApp' = IF link = "up"
              THEN Append(toApp, [kind |-> "reply", attempt |-> t, session |-> worker.session,
                                  result |-> att[t].result]) ELSE toApp
  /\ publishing' = IF last /\ worker.deferred THEN publishing \cup {Publish("state")} ELSE publishing
  /\ worker' = [worker EXCEPT !.deferred = @ /\ ~last]
  /\ UNCHANGED <<page, link, ad, chosen, strayed>>

-----------------------------------------------------------------------------
(* The app: adapter and bridge controller.                                 *)

Enroll(d) ==
  LET scope == Len(chosen) + 1 IN
  /\ AppIdle /\ scope \in Scopes
  /\ ad.conn # None /\ ad.view # None /\ Fits(ad.view, [dest |-> d])
  /\ ad' = [ad EXCEPT !.enrolled = [scope |-> scope, dest |-> d, session |-> ad.conn]]
  /\ chosen' = Append(chosen, d)
  /\ strayed' = FALSE
  /\ UNCHANGED <<page, worker, publishing, toApp, link, att>>

\* The adapter's memory and the attempts after an invalidation.
Invalidated == [ad EXCEPT !.view = None, !.enrolled = None]

\* The release runtime hands an attempt over, of whatever enrollment its evidence names;
\* it waits for the answer before it hands over the next.
Dispatch(t, scope) ==
  LET quiet == /\ publishing = {} /\ ~worker.notice /\ ~worker.deferred
               /\ \A i \in DOMAIN toApp : toApp[i].kind = "reply" IN
  /\ AppIdle
  /\ att[t].at = "new" /\ \A u \in Attempts : att[u].at # "new" => att[u].verdict # None
  /\ att' = [att EXCEPT ![t] =
       IF ~Healthy(scope) \/ link # "up"
       THEN [@ EXCEPT !.at = "gone", !.verdict = "FAILED_BEFORE_EGRESS"]
       ELSE [@ EXCEPT !.at = "wire", !.pending = TRUE, !.scope = scope, !.dest = ad.enrolled.dest,
                      !.session = ad.conn, !.calm = quiet]]
  /\ UNCHANGED <<page, worker, publishing, toApp, link, ad, chosen, strayed>>

\* pair and synchronize: a snapshot from another session, without permission or at odds
\* with the enrollment ends the enrollment and the connection.
Synchronize(m) ==
  LET conn  == IF m.kind = "state" THEN ad.conn ELSE IF m.seen.granted THEN m.session ELSE None
      renewed == m.kind = "hello" /\ ad.conn # None /\ ad.conn # conn
      enrolled == IF renewed THEN None ELSE ad.enrolled
      accepted == /\ conn = m.session /\ m.seen.granted
                  /\ enrolled # None => Fits(m.seen, enrolled) IN
  /\ ad' = IF accepted THEN [conn |-> conn, view |-> m.seen, enrolled |-> enrolled]
           ELSE [Invalidated EXCEPT !.conn = conn]
  /\ link' = IF accepted THEN "up" ELSE "closing"
  /\ att' = LET late == {t \in Attempts : att[t].replied # None} IN
            [t \in Attempts |->
               [(IF accepted /\ ~renewed THEN att ELSE Outdated(att))[t] EXCEPT !.calm = @ /\ t \notin late]]
  /\ strayed' = (strayed /\ ad'.enrolled # None)

\* The reply answers the exact command that is still pending.
Matches(m) == att[m.attempt].session = m.session

TakeReply(m) ==
  /\ att' = IF ~att[m.attempt].pending THEN att
            ELSE [att EXCEPT ![m.attempt] = IF Matches(m) THEN [@ EXCEPT !.pending = FALSE, !.replied = m.result]
                                           ELSE Settle(@, "OUTCOME_UNKNOWN")]
  /\ UNCHANGED <<ad, link, strayed>>

Receive ==
  /\ link = "up" /\ toApp # <<>>
  /\ toApp' = Tail(toApp)
  /\ IF Head(toApp).kind = "reply" THEN TakeReply(Head(toApp)) ELSE Synchronize(Head(toApp))
  /\ UNCHANGED <<page, worker, publishing, chosen>>

\* The adapter resumes: messages of the same read may have been handled since the reply.
Resume(t) ==
  LET a == att[t] IN
  /\ a.replied # None
  /\ att' = [att EXCEPT ![t] = Settle(@,
       CASE a.replied = "NONE" -> "FAILED_BEFORE_EGRESS"
         [] a.replied = "CLICKED" /\ ~a.stale -> "SUBMISSION_OBSERVED"
         [] OTHER -> "OUTCOME_UNKNOWN")]
  /\ UNCHANGED <<page, worker, publishing, toApp, link, ad, chosen, strayed>>

Timeout(t) ==
  /\ AppIdle /\ att[t].pending
  /\ att' = [att EXCEPT ![t] = [Settle(@, "OUTCOME_UNKNOWN") EXCEPT !.calm = FALSE]]
  /\ UNCHANGED <<page, worker, publishing, toApp, link, ad, chosen, strayed>>

\* A plausible bug in Cut, used only to test the properties.
CutForgetting(a) == [t \in Attempts |-> [a[t] EXCEPT !.pending = FALSE]]
\* What the loss of the connection leaves of the attempts.
Cut(a) ==
  LET lost(r) == IF r.at = "wire" THEN [r EXCEPT !.at = "gone"] ELSE r
      owed(r) == IF r.pending THEN Settle(r, "OUTCOME_UNKNOWN") ELSE r IN
  [t \in Attempts |-> owed(lost(a[t]))]

\* A plausible bug in Disconnected, used only to test the properties.
DisconnectedEnrolled == [ad EXCEPT !.view = None]
\* The adapter's memory after the bridge disconnected.
Disconnected == Invalidated

\* Either end goes, or the app has closed it after a message it refused.
Disconnect ==
  /\ AppIdle /\ link \in {"up", "closing"}
  /\ link' = "down" /\ toApp' = <<>>
  /\ ad' = Disconnected
  /\ att' = Cut(IF link = "up" THEN Disturbed(att) ELSE att) /\ strayed' = FALSE
  /\ UNCHANGED <<page, worker, publishing, chosen>>

\* The integration is removed while the app runs: no connection is accepted any more.
DisableIntegration ==
  /\ AppIdle /\ link # "disabled"
  /\ link' = "disabled" /\ toApp' = <<>>
  /\ ad' = Invalidated
  /\ att' = Cut(Disturbed(att)) /\ strayed' = FALSE
  /\ UNCHANGED <<page, worker, publishing, chosen>>

\* Chrome stops the worker and starts it again; the content scripts go on.
WorkerRestarts ==
  LET dropped(r) == IF r.at \in {"worker", "returned"} THEN [r EXCEPT !.at = "gone"] ELSE r IN
  /\ AppIdle /\ worker.session < MaxSessions
  /\ worker' = [session |-> worker.session + 1, deferred |-> FALSE, notice |-> FALSE]
  /\ publishing' = {} /\ toApp' = <<>>
  /\ link' = IF link = "disabled" THEN link ELSE "down"
  /\ ad' = Disconnected
  /\ att' = Cut(Disturbed([t \in Attempts |-> dropped(att[t])])) /\ strayed' = FALSE
  /\ UNCHANGED <<page, chosen>>

-----------------------------------------------------------------------------

Outside ==
  \/ \E d \in Destinations, empty \in BOOLEAN : SurfaceChanges(d, empty)
  \/ \E alone, granted \in BOOLEAN : TabsChange(alone, granted)
  \/ \E d \in Destinations : Reload(d) \/ Enroll(d)
  \/ \E t \in Attempts, scope \in Scopes : Dispatch(t, scope)
  \/ Connect \/ DisableIntegration \/ WorkerRestarts

Publication == SurfaceNotice \/ \E m \in publishing : InspectTabs(m) \/ PostState(m)

ReleaseStep(t) ==
  \/ ReceiveRelease(t) \/ HandleRelease(t) \/ BeginInjection(t) \/ FinishInjection(t)
  \/ HearAnswer(t) \/ PostReply(t) \/ Resume(t) \/ Timeout(t)

Next == Outside \/ Publication \/ (\E t \in Attempts : ReleaseStep(t)) \/ Receive \/ Disconnect

Spec == Init /\ [][Next]_vars

\* Timers fire, sockets that were destroyed close, Chrome delivers and answers.
Fairness ==
  /\ WF_vars(SurfaceNotice)
  /\ WF_vars(\E m \in publishing : InspectTabs(m)) /\ WF_vars(\E m \in publishing : PostState(m))
  /\ WF_vars(Receive)
  /\ WF_vars(link = "closing" /\ Disconnect)
  /\ \A t \in Attempts : WF_vars(ReleaseStep(t))

FairSpec == Spec /\ Fairness

-----------------------------------------------------------------------------
(* Properties.                                                             *)

TypeOK ==
  /\ page \in Page
  /\ worker \in [session : Sessions, deferred : BOOLEAN, notice : BOOLEAN]
  /\ publishing \subseteq Publications
  /\ toApp \in Seq(Message)
  /\ link \in {"down", "up", "closing", "disabled"}
  /\ ad \in [conn : Sessions \cup {None}, view : Page \cup {None}, enrolled : Enrollment \cup {None}]
  /\ att \in [Attempts -> Attempt]
  /\ chosen \in Seq(Destinations) /\ Len(chosen) <= MaxScopes
  /\ strayed \in BOOLEAN

\* The text of an attempt enters the page only while the page shows, with an empty
\* composer, the conversation the person enrolled for it, however the page moved
\* between the checks of the app, of the worker and of the content script
\* (content-script.js looks again after the digest).
ShownWhereEnrolled ==
  [][\A t \in Attempts : att'[t].shown # att[t].shown =>
       page.empty /\ page.dest = chosen[att[t].scope]]_vars

\* What is enrolled was enrolled over the connection that is open, with the worker
\* that is running, and agrees with the last state that worker reported: a lost
\* connection, a restarted worker or a state at odds with it ends the enrollment
\* (adapter.mjs invalidate, bridge.mjs disconnect).
EnrollmentIsHealthy ==
  ad.enrolled # None =>
    /\ link \in {"up", "closing"}
    /\ ad.enrolled.session = worker.session
    /\ Healthy(ad.enrolled.scope)

\* A release that nothing from outside disturbs is reported as the click it was: the
\* change it makes to the composer itself does not revoke its own answer, unless the
\* app reads that change together with the reply (service-worker.js defers it).
ClickIsObserved ==
  \A t \in Attempts : att[t].clicked /\ att[t].calm => att[t].verdict # "OUTCOME_UNKNOWN"

\* The bridge keeps the contract the durable release runtime relies on: a refused
\* attempt is never shown, not even by a content script that answers after the
\* timeout, and an observed submission was shown.
Fate(t) ==
  IF att[t].shown > 0 THEN "exposed"
  ELSE IF att[t].verdict = "FAILED_BEFORE_EGRESS" THEN "refused"
  ELSE IF att[t].at = "new" THEN "new" ELSE "inflight"
Contract == INSTANCE AdapterContract WITH
  fate   <- [t \in Attempts |-> Fate(t)],
  answer <- [t \in Attempts |-> att[t].verdict]
KeepsContract == Contract!Spec

\* Every attempt handed over is answered, whatever is lost on the way: the queue of
\* the release runtime is held up by the adapter for a bounded time only.
DispatchEnds == \A t \in Attempts : (att[t].at # "new") ~> (att[t].verdict # None)

\* Once the page has left the enrolled conversation or is no longer fit, either it
\* comes back or the enrollment ends: a change noticed during a release is put off,
\* not dropped, and the worker that would report it either does or takes the
\* connection with it.
StrayingIsNoticed == strayed ~> ~strayed
=============================================================================
