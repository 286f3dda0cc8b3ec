\* One process, from a vault created, restored or adopted through every failed call and death of up
\* to two rotations. The keys that may be drawn run out: CHECK_DEADLOCK FALSE.
SPECIFICATION FoundingSpec
CONSTANTS
  k1 = k1  k2 = k2  k3 = k3  e1 = e1  u1 = u1
  Procs = {u1}
  VaultKeys = {k1, k2, k3}
  FirstKey = k1
  Contents = {e1}
  MaxWraps = 6
  MaxRecords = 2
  None = None
CHECK_DEADLOCK FALSE
SYMMETRY Symmetric
INVARIANTS
  Custody
