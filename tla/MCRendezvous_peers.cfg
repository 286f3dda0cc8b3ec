\* Two hosts, a restart and up to three publications. No symmetry, because the run also checks
\* that every wait ends. The bounds on starts and publications stop it in the end.
SPECIFICATION FairSpec
CONSTANTS
  p1 = p1  p2 = p2
  Peers = {p1, p2}
  MaxEpochs = 2
  MaxTokens = 3
  MaxQueue = 2
  None = None
CHECK_DEADLOCK FALSE
INVARIANTS
  Connections
  PublicationsHold
PROPERTIES
  WaitsEnd
