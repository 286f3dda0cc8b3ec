\* Two processes capture, export and rotate over one database. Deadlock is allowed: a vault whose
\* last key was deleted (see MCVault_openers.cfg) cannot be opened again.
SPECIFICATION Spec
CONSTANTS
  k1 = k1  k2 = k2  k3 = k3  e1 = e1  e2 = e2  u1 = u1  u2 = u2
  Procs = {u1, u2}
  VaultKeys = {k1, k2}
  FirstKey = k1
  Contents = {e1, e2}
  MaxWraps = 5
  MaxRecords = 2
  None = None
CHECK_DEADLOCK FALSE
SYMMETRY Symmetric
INVARIANTS
  NonceUnique
  AcknowledgedReadable
