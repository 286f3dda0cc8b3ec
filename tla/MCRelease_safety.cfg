\* Two versions and two attempts, every failure and crash between their steps, refined by the ledger.
SPECIFICATION Spec
CONSTANTS
  s1 = s1  s2 = s2  t1 = t1  t2 = t2
  a1 = a1  a2 = a2   p1 = p1  p2 = p2
  SealIds = {s1, s2}
  AttemptIds = {t1, t2}
  AuthIds = {a1, a2}
  Payloads = {p1, p2}
  Digest <- MCDigest
  Scopes = {"tab1", "tab2"}
  Protocols = {"chatgpt/1", "release-fixture/1"}
  RuntimeProtocol = "chatgpt/1"
  Modes = {"Continuous", "Sealed"}
  None = None
SYMMETRY Symmetric
INVARIANTS
  TypeOK
  ConsumedBeforeDispatch
  AuthorizationSpentOnce
  ExactVersionAuthorized
  CancelIsFinal
  RecordIsTrue
PROPERTIES
  ImplementsLedger
  HistoryIsFinal
