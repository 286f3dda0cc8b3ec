\* One release while everything around it may change.
SPECIFICATION Spec
CONSTANTS
  t1 = t1  t2 = t2  d1 = d1  d2 = d2
  Attempts = {t1}
  Destinations = {d1, d2}
  MaxScopes = 1
  MaxSessions = 2
  MaxPublishing = 1
  MaxQueue = 1
  None = None
SYMMETRY Symmetric
INVARIANTS
  TypeOK
  ClickIsObserved
  EnrollmentIsHealthy
PROPERTIES
  ShownWhereEnrolled
  KeepsContract
