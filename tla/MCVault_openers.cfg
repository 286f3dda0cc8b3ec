\* One process opens the vault while another rotates its key.
SPECIFICATION Spec
CONSTANTS
  k1 = k1  k2 = k2  k3 = k3  e1 = e1  e2 = e2  u1 = u1  u2 = u2
  Procs = {u1, u2}
  VaultKeys = {k1, k2}
  FirstKey = k1
  Contents = {e1}
  MaxWraps = 4
  MaxRecords = 1
  None = None
SYMMETRY Symmetric
INVARIANTS
  ActiveKeyKept
