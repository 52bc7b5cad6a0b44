\* A process dies while the other two wait for its lock.
CONSTANTS
  p1 = p1
  p2 = p2
  p3 = p3
  t1 = t1
  t2 = t2
  t3 = t3
  None = None
  Proc = {p1, p2, p3}
  Thread = {t1, t2, t3}
  ProcOf <- ThreeProcesses
  Faults = {"crash"}
SPECIFICATION Spec
INVARIANTS
  NoConcurrentMetalOperations
\* The system stops when every process is dead.
CHECK_DEADLOCK FALSE
