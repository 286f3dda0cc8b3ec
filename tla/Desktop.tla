-------------------------------- MODULE Desktop --------------------------------
(***************************************************************************)
(* What the local page does beside the protection session: maintenance of  *)
(* the installation, files of receipts and support reports.                *)
(*                                                                         *)
(* Each has state of its own, in another component, and the page has one   *)
(* action under way at a time, so one behaviour is about one of them.      *)
(***************************************************************************)
EXTENDS Installation

CONSTANTS Receipts, MaxRecords, Operations, EventLimit, EventAge, PreviewLimit, PreviewAge,
          MaxEvents, MaxPreviews, LastTick

ASSUME LimitsAssumption ==
  /\ EventLimit \in Nat \ {0} /\ EventAge \in Nat \ {0}
  /\ PreviewLimit \in Nat \ {0} /\ PreviewAge \in Nat \ {0}
  /\ None \notin Receipts \cup Operations

VARIABLES records, working, preview, log, now, issued, page, call, saved, \* of Composer
          desk \* what this behaviour is about

Composer == INSTANCE Composer

composerVars == <<records, working, preview, log, now, issued, page, call, saved>>
desktopVars == <<vars, composerVars, desk>>

DesktopInit ==
  /\ desk \in {"maintenance", "receipts", "reports"}
  /\ Init /\ Composer!Init

Maintenance == desk = "maintenance" /\ Next /\ UNCHANGED composerVars
ReceiptFiles == desk = "receipts" /\ Composer!ReceiptsDesk /\ UNCHANGED vars
ReportFiles == desk = "reports" /\ Composer!ReportsDesk /\ UNCHANGED vars

DesktopNext == (Maintenance \/ ReceiptFiles \/ ReportFiles) /\ UNCHANGED desk

DesktopSpec == DesktopInit /\ [][DesktopNext]_desktopVars

\* A file of receipts is what was on show (see Composer: prepare, export, invalidatePreview).
ReceiptsAsShown == Composer!ReceiptsAsShown

\* A support report is what was on show, fresh and accounted for (see Composer: record, preview,
\* export, #prune).
ReportsAsShown == Composer!ReportsAsShown
=============================================================================
