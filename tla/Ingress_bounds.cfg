\* Three clients for two places; two identities, whose own limits together are
\* above the global one.
SPECIFICATION Spec
CONSTANTS
  t1 = t1  t2 = t2  t3 = t3
  Task = {t1, t2, t3}
  s1 = s1  s2 = s2
  Source = {s1, s2}
  DesignationLimit = 1
  RecurrenceLimit = 2
  GlobalLimit = 2
  MaxLimited = 0
  MaxInFlight = 2
INVARIANTS IngressTypeOK InFlightExact RateBounded GlobalBounded ClosedEmpty
PROPERTY ShutdownEnds
