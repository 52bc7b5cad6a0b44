\* Every fault at once, two processes, one of them with two worker threads.
CONSTANTS
  p1 = p1
  p2 = p2
  p3 = p3
  t1 = t1
  t2 = t2
  t3 = t3
  None = None
  Proc = {p1, p2}
  Thread = {t1, t2, t3}
  ProcOf <- TwoWorkers
  Faults = {"backend", "oversize", "crash", "lapse", "outage", "watchdog"}
SPECIFICATION FairSpec
INVARIANTS
  TypeOK
  MutualExclusion
PROPERTIES
  
  
  KeyIsFreed
\* The system stops when every process is dead.
CHECK_DEADLOCK FALSE
