------------------------------- MODULE Composer -------------------------------
(***************************************************************************)
(* What leaves the local page as a file: selected receipts (LocalReceipts) *)
(* and support reports (LocalDiagnostics), each previewed first.           *)
(*                                                                         *)
(* The page has one action under way at a time (`busy`), but its boxes and *)
(* lists stay enabled meanwhile, the vault and the log grow, previews      *)
(* expire, and a request or its answer may be lost.                        *)
(***************************************************************************)
EXTENDS Naturals, FiniteSets, SequencesExt

CONSTANTS
  Receipts,     \* what the history may list: frozen versions and redacted derivatives
  MaxRecords,   \* bound on the signed records of one receipt
  Operations,   \* operations that events belong to
  EventLimit,   \* DIAGNOSTIC_LIMITS.events
  EventAge,     \* DIAGNOSTIC_LIMITS.ageMs
  PreviewLimit, \* DIAGNOSTIC_LIMITS.previews
  PreviewAge,   \* DIAGNOSTIC_LIMITS.previewAgeMs
  MaxEvents,    \* bound on recorded events
  MaxPreviews,  \* bound on previews made, of both kinds
  LastTick,     \* the end of the clock
  None

VARIABLES
  records,  \* how many signed records the vault has of each receipt, 0: no such receipt
  working,  \* an operation of the session is in its queue
  preview,  \* #preview of LocalReceipts
  log,      \* LocalDiagnostics: events, oldest first, sequence, dropped and previews, their identifiers
            \* in the order of their insertion
  now,      \* performance.now()
  issued,   \* preview identifiers drawn; random ones never repeat
  page,     \* boxes and lists of product-app.js, what it shows and the previews it would save; the
            \* evidence box and the list of components are further choices like the ones here
  call,     \* the request of the action under way, None: not busy
  saved     \* the file saved last, with what the page showed when the person asked for it

server == <<records, working, preview, log, now, issued>>
vars == <<server, page, call, saved>>

Init ==
  /\ records = [r \in Receipts |-> 0] /\ working = FALSE
  /\ preview = None
  /\ log = [events |-> <<>>, sequence |-> 0, dropped |-> 0, previews |-> {}]
  /\ now = 0 /\ issued = 0
  /\ page = [listed |-> {}, chosen |-> {}, previewId |-> None, disclosure |-> None,
             offered |-> {}, operation |-> None, diagnosticPreviewId |-> None, report |-> None]
  /\ call = None /\ saved = None

-----------------------------------------------------------------------------
(* The page.                                                               *)

\* api() within an action: `arg` is the body, `shown` what was on show as the person clicked.
Request(what, arg, shown) == [what |-> what, step |-> "asked", arg |-> arg, shown |-> shown, answer |-> None]
Asks(what, arg, shown) ==
  /\ call = None
  /\ call' = Request(what, arg, shown)

InvalidatePreview(p) == [p EXCEPT !.previewId = None, !.disclosure = None]
InvalidateDiagnostics(p) == [p EXCEPT !.diagnosticPreviewId = None, !.report = None]

ChooseReceipt(r) ==
  /\ r \in page.listed
  /\ page' = [InvalidatePreview(page) EXCEPT !.chosen = IF r \in @ THEN @ \ {r} ELSE @ \cup {r}]
  /\ UNCHANGED <<server, call, saved>>

ChooseOperation(o) ==
  /\ o \in page.offered \cup {None} /\ o # page.operation
  /\ page' = [InvalidateDiagnostics(page) EXCEPT !.operation = o]
  /\ UNCHANGED <<server, call, saved>>

RefreshHistory == Asks("list", page.chosen, None) /\ UNCHANGED <<server, page, saved>>
PreviewExport  == Asks("prepare", page.chosen, None) /\ UNCHANGED <<server, page, saved>>
SaveExport ==
  /\ page.previewId # None
  /\ Asks("export", page.previewId, page.disclosure)
  /\ UNCHANGED <<server, page, saved>>
Redact ==
  /\ Cardinality(page.chosen) = 1
  /\ Asks("redact", page.chosen, None)
  /\ UNCHANGED <<server, page, saved>>

\* freeze, confirm, managed anchoring, release or cancel: Session's operations, seen from here. What
\* freeze asks for next, anchoring, is another. Bounded: while there is something left to capture.
Operate ==
  /\ \E r \in Receipts : records[r] < MaxRecords
  /\ Asks("operate", None, None)
  /\ UNCHANGED <<server, page, saved>>

RefreshDiagnostics == Asks("selection", None, None) /\ UNCHANGED <<server, page, saved>>
PreviewDiagnostics ==
  /\ Asks("preview", page.operation, None)
  /\ page' = [page EXCEPT !.diagnosticPreviewId = None]
  /\ UNCHANGED <<server, saved>>
SaveDiagnostics ==
  /\ page.diagnosticPreviewId # None
  /\ Asks("report", page.diagnosticPreviewId, page.report)
  /\ page' = [page EXCEPT !.diagnosticPreviewId = None]
  /\ UNCHANGED <<server, saved>>

-----------------------------------------------------------------------------
(* LocalReceipts, as the server calls it.                                  *)

Asked(what) == call # None /\ call.what = what /\ call.step = "asked"
Answers(value) == call' = [call EXCEPT !.step = "answered", !.answer = value]
Refuses == call' = [call EXCEPT !.step = "failed"]

History == {r \in Receipts : records[r] > 0}
Disclosure(ids) == [r \in ids |-> records[r]]

List ==
  /\ Asked("list") /\ Answers(History)
  /\ UNCHANGED <<server, page, saved>>

\* An earlier preview is gone even if this one is refused.
Prepare ==
  /\ Asked("prepare")
  /\ \/ /\ call.arg # {} /\ call.arg \subseteq History /\ issued < MaxPreviews
        /\ preview' = [previewId |-> issued, bytes |-> Disclosure(call.arg)]
        /\ issued' = issued + 1
        /\ Answers(preview')
     \/ preview' = None /\ issued' = issued /\ Refuses
  /\ UNCHANGED <<records, working, log, now, page, saved>>

\* A plausible bug in Export, used only to test the properties: the identifier is not compared.
ExportLatest ==
  /\ Asked("export")
  /\ IF preview # None THEN Answers(preview.bytes) ELSE Refuses
  /\ UNCHANGED <<server, page, saved>>
Export ==
  /\ Asked("export")
  /\ IF preview # None /\ preview.previewId = call.arg THEN Answers(preview.bytes) ELSE Refuses
  /\ UNCHANGED <<server, page, saved>>

\* New signed bytes, a receipt of their own; the source keeps its records.
Derive ==
  /\ Asked("redact")
  /\ \/ /\ call.arg \subseteq History
        /\ \E r \in Receipts \ History : records' = [records EXCEPT ![r] = 1]
        /\ preview' = None /\ Answers(None)
     \/ Refuses /\ UNCHANGED <<records, preview>>
  /\ UNCHANGED <<working, log, now, issued, page, saved>>

\* An operation captures any number of records, may fail after some of them, and goes on when the
\* page has lost the connection and given it up.
Admit ==
  /\ Asked("operate")
  /\ working' = TRUE
  /\ call' = [call EXCEPT !.step = "working"]
  /\ UNCHANGED <<records, preview, log, now, issued, page, saved>>
Capture(r) ==
  /\ working /\ records[r] < MaxRecords
  /\ records' = [records EXCEPT ![r] = @ + 1]
  /\ UNCHANGED <<working, preview, log, now, issued, page, call, saved>>
Finish ==
  /\ working /\ working' = FALSE
  /\ IF call # None /\ call.step = "working" THEN Answers(None) \/ Refuses ELSE UNCHANGED call
  /\ UNCHANGED <<records, preview, log, now, issued, page, saved>>

-----------------------------------------------------------------------------
(* LocalDiagnostics.                                                       *)

Fresh(event) == now - event.time < EventAge

\* #drop: the oldest go, and are counted.
Drop(l, n) == [l EXCEPT !.events = SubSeq(@, n + 1, Len(@)), !.dropped = @ + n]
\* The events at the head that are too old.
Stale(l) == Min({n \in 0 .. Len(l.events) : n = Len(l.events) \/ Fresh(l.events[n + 1])})

\* A plausible bug in Prune, used only to test the properties: expired previews stay.
PruneEvents(l) == Drop(l, Stale(l))
Prune(l) == [Drop(l, Stale(l)) EXCEPT !.previews = {p \in @ : now < p.expires}]

\* The oldest go until the rest fits into both limits; sizes differ, so the limit on bytes may take
\* more of them than the limit on events, never the newest.
Record(operation) ==
  /\ log.sequence < MaxEvents
  /\ LET event  == [number |-> log.sequence + 1, time |-> now, operation |-> operation]
         longer == [Prune(log) EXCEPT !.events = Append(@, event), !.sequence = @ + 1]
     IN \E n \in 0 .. Len(longer.events) - 1 :
          /\ Len(longer.events) - n <= EventLimit
          /\ log' = Drop(longer, n)
  /\ UNCHANGED <<records, working, preview, now, issued, page, call, saved>>

Selection ==
  /\ Asked("selection")
  /\ log' = Prune(log)
  /\ Answers({e.operation : e \in ToSet(log'.events)} \ {None})
  /\ UNCHANGED <<records, working, preview, now, issued, page, saved>>

\* A plausible bug in Expires, used only to test the properties: a preview lasts however old its events.
ExpiresLater(events) == now + PreviewAge
\* A preview does not outlive the oldest event in it.
Expires(events) == Min({now + PreviewAge} \cup {e.time + EventAge : e \in events})

\* The preview made first makes room for a new one.
Evict(previews) ==
  IF Cardinality(previews) < PreviewLimit THEN previews
  ELSE previews \ {CHOOSE p \in previews : \A q \in previews : p.previewId <= q.previewId}

Preview ==
  /\ Asked("preview") /\ issued < MaxPreviews
  /\ LET pruned == Prune(log)
         events == {e \in ToSet(pruned.events) : call.arg \in {None, e.operation}}
         report == [operation |-> call.arg, dropped |-> pruned.dropped, events |-> events, made |-> now]
         made   == [previewId |-> issued, content |-> report, expires |-> Expires(events)]
     IN /\ log' = [pruned EXCEPT !.previews = Evict(@) \cup {made}]
        /\ Answers([previewId |-> issued, report |-> report])
  /\ issued' = issued + 1
  /\ UNCHANGED <<records, working, preview, now, page, saved>>

\* export: a preview is good for one file.
Report ==
  /\ Asked("report")
  /\ LET pruned == Prune(log)
         hits   == {p \in pruned.previews : p.previewId = call.arg}
     IN /\ log' = [pruned EXCEPT !.previews = @ \ hits]
        /\ IF hits = {} THEN Refuses
           ELSE \E p \in hits : Answers([content |-> p.content, at |-> now])
  /\ UNCHANGED <<records, working, preview, now, issued, page, saved>>

Tick ==
  /\ now < LastTick /\ now' = now + 1
  /\ UNCHANGED <<records, working, preview, log, issued, page, call, saved>>

-----------------------------------------------------------------------------
(* The answer reaches the page, or the request or its answer is lost.      *)

Answered(what) == call # None /\ call.what = what /\ call.step = "answered"
File(content) == [what |-> call.what, content |-> content, shown |-> call.shown]

\* Only the status line tells of it.
Fails ==
  /\ call # None /\ call' = None
  /\ UNCHANGED <<server, page, saved>>

\* loadReceipts goes on from the boxes as they were when it asked.
Listed ==
  /\ Answered("list")
  /\ page' = [InvalidatePreview(page) EXCEPT !.listed = call.answer, !.chosen = call.arg \cap call.answer]
  /\ call' = None
  /\ UNCHANGED <<server, saved>>

\* A plausible bug in Previewed, used only to test the properties: what is on show stays.
PreviewedOnceShown ==
  /\ Answered("prepare")
  /\ page' = [page EXCEPT !.previewId = call.answer.previewId,
                          !.disclosure = IF @ = None THEN call.answer.bytes ELSE @]
  /\ call' = None
  /\ UNCHANGED <<server, saved>>
Previewed ==
  /\ Answered("prepare")
  /\ page' = [page EXCEPT !.previewId = call.answer.previewId, !.disclosure = call.answer.bytes]
  /\ call' = None
  /\ UNCHANGED <<server, saved>>

\* A new version or derivative: the history is listed again within the same action.
Changed ==
  /\ Answered("redact") \/ Answered("operate")
  /\ call' = Request("list", page.chosen, None)
  /\ UNCHANGED <<server, page, saved>>

Offered ==
  /\ Answered("selection")
  /\ page' = [InvalidateDiagnostics(page) EXCEPT !.offered = call.answer, !.operation = None]
  /\ call' = None
  /\ UNCHANGED <<server, saved>>

Reported ==
  /\ Answered("preview")
  /\ page' = [page EXCEPT !.diagnosticPreviewId = call.answer.previewId, !.report = call.answer.report]
  /\ call' = None
  /\ UNCHANGED <<server, saved>>

Saved ==
  /\ Answered("export") \/ Answered("report")
  /\ saved' = File(call.answer)
  /\ call' = None
  /\ UNCHANGED <<server, page>>

-----------------------------------------------------------------------------

\* The receipts and the reports share the page's one call, which holds nothing between two actions.
ReceiptsDesk ==
  \/ \E r \in Receipts : ChooseReceipt(r) \/ Capture(r)
  \/ RefreshHistory \/ PreviewExport \/ SaveExport \/ Redact \/ Operate
  \/ List \/ Prepare \/ Export \/ Derive \/ Admit \/ Finish
  \/ Listed \/ Previewed \/ Changed \/ Saved \/ Fails

ReportsDesk ==
  \/ \E o \in Operations \cup {None} : ChooseOperation(o) \/ Record(o)
  \/ RefreshDiagnostics \/ PreviewDiagnostics \/ SaveDiagnostics
  \/ Selection \/ Preview \/ Report
  \/ Offered \/ Reported \/ Saved \/ Fails \/ Tick

Next == ReceiptsDesk \/ ReportsDesk

Spec == Init /\ [][Next]_vars

-----------------------------------------------------------------------------
(* Properties.                                                             *)

\* A file of receipts has exactly the records the page showed when the person asked to save it,
\* whatever was captured, redacted, selected, previewed again or lost since; and what a button would
\* save is what is on show (prepare, export, invalidatePreview).
ReceiptsAsShown ==
  /\ page.chosen \subseteq page.listed /\ page.listed \subseteq History
  /\ preview # None /\ preview.previewId = page.previewId => preview.bytes = page.disclosure
  /\ saved # None /\ saved.what = "export" =>
       /\ saved.content = saved.shown
       /\ \A r \in DOMAIN saved.content : saved.content[r] \in 1 .. records[r]

\* A support report is the one on show when the person asked to save it. When it left the log none of
\* its events had expired, nor had its preview; and it counts every event it lacks: between the ones it
\* drops and its last nothing of what was selected is missing (record, preview, export, #prune).
Accounted(report) ==
  /\ \A e \in report.events : e.number > report.dropped
  /\ \A e, f \in report.events : e.number = f.number => e = f
  /\ report.operation = None =>
       \A e \in report.events : \A n \in report.dropped + 1 .. e.number : \E f \in report.events : f.number = n
ReportsAsShown ==
  /\ Len(log.events) <= EventLimit /\ Cardinality(log.previews) <= PreviewLimit
  /\ log.sequence = log.dropped + Len(log.events)
  /\ saved # None /\ saved.what = "report" =>
       LET report == saved.content.content IN
       /\ report = saved.shown
       /\ saved.content.at - report.made < PreviewAge
       /\ \A e \in report.events : saved.content.at - e.time < EventAge
       /\ Accounted(report)
=============================================================================
