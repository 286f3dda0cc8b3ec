\* Three State Proof intervals of two rounds; batches of up to nine records; a wait of three ticks.
SPECIFICATION Spec
CONSTANTS
  d1 = d1  d2 = d2  d3 = d3  d4 = d4  d5 = d5  d6 = d6  d7 = d7  d8 = d8  d9 = d9
  Rounds = 6
  Interval = 2
  Digests <- MCDigests
  MaxLinks = 2
  MaxReferences = 3
  MaxVerifications = 2
  FullWait = 3
  ObserverWait = 2
  Latest = 4
  None = None
CHECK_DEADLOCK FALSE
INVARIANTS
  InclusionSound
  VerdictsAreEarned
  ConfirmationSound
PROPERTIES
  CollectionEnds
