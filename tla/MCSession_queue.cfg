\* One version through five operations, queued behind each other while the draft is edited and
\* the conversation revoked. No symmetry, because the run also checks that the queue drains. The
\* bounds on requests and revisions stop it in the end.
SPECIFICATION FairSpec
CONSTANTS
  d1 = d1  d2 = d2  x1 = x1  x2 = x2
  Texts = {d1, d2}
  Modes = {"Continuous", "Sealed", "Always Protect"}
  Transactions = {x1, x2}
  MaxRevision = 1
  MaxVersions = 1
  MaxAttempts = 2
  MaxQueue = 2
  MaxRequests = 5
  None = None
CHECK_DEADLOCK FALSE
INVARIANTS
  SentAsApproved
  ViewIsJournal
PROPERTIES
  DrainEnds
  VersionsHold
