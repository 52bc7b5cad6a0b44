CONSTANTS
  Origin = a
  Dest = b
  AckRetries = 1
  StoreRetries = 1
  MaxTrouble = 1
  MaxWatchdog = 1
  MaxAcks = 1
  None = None
CHECK_DEADLOCK FALSE
SPECIFICATION FairSpec
INVARIANTS
  TypeOK
  WatchdogIsIdle
PROPERTIES
  RepetitionEnds
  MessageArrives
