\* Three submissions on two loops; the limiter shrinks and grows between 1 and 2.
CONSTANTS
  main = main
  sync = sync
  s1 = s1
  s2 = s2
  s3 = s3
  None = None
  Submissions = {s1, s2, s3}
  Loops = {main, sync}
  LoopOf <- TwoLoops
  Semaphores = {0, 1, 2}
  InitialSlots = 2
  MinSlots = 1
  MaxSlots = 2
  DownWindow = 2
  UpWindow = 3
  WaitTimes = {0, 100}
  ResizeDownWait = 30
  ResizeUpWait = 1
SPECIFICATION FairSpec
INVARIANTS
  TypeOK
  SlotsAccounted
  ParkedAreServed
PROPERTIES
  RestoredWhenCalm
