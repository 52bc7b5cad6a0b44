\* Two BACKGROUND requests compete for one permit; ATLAS preempts them at
\* exactly PreemptDelta.
CONSTANTS
  aaron = aaron
  atlas = atlas
  Requests = {atlas, r1, r2}
  Workers = {w1, w2}
  Priority = {2, 4}
  prio <- Prio
  Cap <- OnePermitEach
  None = None
SPECIFICATION FairSpec
INVARIANTS
  TypeOK
  PermitsAccounted
  InflightWithinCap
  NeverLost
PROPERTIES
  EveryRequestAnswered
  ImplementsPriorityPool
\* Every request has been submitted and answered.
CHECK_DEADLOCK FALSE
