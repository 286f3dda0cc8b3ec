\* Two accounts share the day's and the ledger's limits; one server with two handlers
\* that crashes, requests, renewals and rotations at every point, and a clock that jumps either way.
SPECIFICATION Spec
CONSTANTS
  a1 = a1  a2 = a2  p1 = p1  p2 = p2  p3 = p3  c1 = c1  c2 = c2  c3 = c3
  x1 = x1  x2 = x2  x3 = x3  s1 = s1  s2 = s2
  Accounts = {a1, a2}
  Payloads = {p1, p2}
  Tokens = {c1, c2}
  Transactions = {x1, x2, x3}
  Servers = {s1}
  Slots = {1, 2}
  Horizon = 2
  MinuteLength = 4
  DayLength = 2
  MonthLength = 4
  Times <- MCTimes
  Minute <- MCMinute
  Day <- MCDay
  Month <- MCMonth
  AccountLimit = 2
  LedgerLimit = 2
  AccountMonth = 2
  AccountDay = 1
  GlobalDay = 2
  AccountMinute = 2
  GlobalMinute = 3
  MaxBroadcasts = 1
  Spacing = 1
  None = None
SYMMETRY Symmetric
INVARIANTS
  QuotasHold
PROPERTIES
  LedgerGrows
