\* Two servers overlap on one ledger and one account submits one payload again and again. No
\* symmetry, because the run also checks that every request ends.
SPECIFICATION FairSpec
CONSTANTS
  a1 = a1  a2 = a2  p1 = p1  p2 = p2  p3 = p3  c1 = c1  c2 = c2  c3 = c3
  x1 = x1  x2 = x2  x3 = x3  s1 = s1  s2 = s2
  Accounts = {a1}
  Payloads = {p1}
  Tokens = {c1}
  Transactions = {x1, x2}
  Servers = {s1, s2}
  Slots = {1}
  Horizon = 2
  MinuteLength = 1
  DayLength = 4
  MonthLength = 8
  Times <- MCTimes
  Minute <- MCMinute
  Day <- MCDay
  Month <- MCMonth
  AccountLimit = 1
  LedgerLimit = 2
  AccountMonth = 2
  AccountDay = 2
  GlobalDay = 2
  AccountMinute = 2
  GlobalMinute = 2
  MaxBroadcasts = 2
  Spacing = 2
  None = None
INVARIANTS
  NeverResigned
  BroadcastsCounted
PROPERTIES
  RequestsEnd
