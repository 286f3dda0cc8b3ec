\* One release and one conversation under fairness.
SPECIFICATION FairSpec
CONSTANTS
  t1 = t1  t2 = t2  d1 = d1  d2 = d2
  Attempts = {t1}
  Destinations = {d1}
  MaxScopes = 1
  MaxSessions = 2
  MaxPublishing = 1
  MaxQueue = 1
  None = None
PROPERTIES
  DispatchEnds
  StrayingIsNoticed
