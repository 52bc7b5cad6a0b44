\* Two threads, the real window of five, and a cache of one entry for two keys: a
\* backend that fails, then heals.
CONSTANTS
  Callers = {c1, c2}
  Keys = {k1, k2}
  MaxTimeouts = 2
  LatencyWindow = 5
  LatencyPercentile = 95
  CacheMax = 1
SPECIFICATION BusySpec
INVARIANTS
  TypeOK
  HalfOpenHasProbe
  ClosedBelowTimeoutLimit
  CacheOrderAgrees
PROPERTIES
  LateResultNeverCloses
  ImplementsAdmissionControl
  OutageEnds
