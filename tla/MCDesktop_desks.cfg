\* Two versions at two places, of two channels, come and go, and one operation of the page waits
\* behind another beside those of the updater. Two receipts of up to two records and two previews.
\* Three events of which two fit, for two of three ticks, and two previews of which one is kept.
\* Places and receipts are interchangeable.
SPECIFICATION DesktopSpec
CONSTANTS
  here = here  there = there  r1 = r1  r2 = r2  o1 = o1
  MaxSequence = 2
  MaxQueue = 1
  MaxDownloads = 2
  Places = {here, there}
  Channels = {"production", "candidate"}
  Receipts = {r1, r2}
  MaxRecords = 2
  Operations = {o1}
  EventLimit = 2
  EventAge = 2
  PreviewLimit = 1
  PreviewAge = 2
  MaxEvents = 3
  MaxPreviews = 2
  LastTick = 2
  None = None
SYMMETRY Symmetric
INVARIANTS
  FloorHolds
  OnlyApprovedOpens
  RegistrationAccounted
  ReceiptsAsShown
  ReportsAsShown
PROPERTIES
  NewestIsRemembered
