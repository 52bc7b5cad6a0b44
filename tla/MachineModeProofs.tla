-------------------------- MODULE MachineModeProofs --------------------------
(***************************************************************************)
(* Proofs about the two components that decide which mode the machine is   *)
(* in: SchedulerCoordinator, for any number of faults and commands, and    *)
(* ModeSwitch, for any number of runs and writers.                         *)
(*                                                                         *)
(* Celery is launched, or missed in heavy mode, only by a coordinator that *)
(* has counted at most one failure (Counted); that bounds the counter.  As *)
(* long as nothing is lost, a recent failure is known in memory and in     *)
(* Redis (Remembered), so that the mode is detected as lite.               *)
(*                                                                         *)
(* A run that is alone keeps the freeze that it has set (Guarded).         *)
(* Whatever is frozen, locked or flipped has a run left that will undo it  *)
(* (Pending).                                                              *)
(***************************************************************************)
EXTENDS SchedulerCoordinator, ModeSwitch, TLAPS

Counted ==
  pc \in Starting \/ (pc = "verify" /\ mode = "heavy") => failures < 2

Bounded == TypeOK /\ Counted

-----------------------------------------------------------------------------
\* The operators

\* What detecting the mode leaves of the lockout.
LEMMA Detection ==
  ASSUME TypeOK, DetectMode
  PROVE  /\ failures' \in 0 .. 2
         /\ lockout_key' \in BOOLEAN
         /\ Detected \in Mode
         /\ Detected = "heavy" => failures' < 2
BY DEF TypeOK, DetectMode, Detected, SeesLockout, KeyCleared, Mode

\* A failure is counted up to two.
LEMMA LockingOut ==
  ASSUME TypeOK, failures < 2, LockOut
  PROVE  failures' \in 0 .. 2 /\ locked' \in BOOLEAN /\ lockout_key' \in BOOLEAN
         /\ recent' \in BOOLEAN
BY DEF TypeOK, LockOut, KeySet

-----------------------------------------------------------------------------
\* Types

\* A counted fault stays within its bound.
LEMMA TroubleIsBounded ==
  ASSUME trouble \in 0 .. MaxTrouble, Trouble
  PROVE  trouble' \in 0 .. MaxTrouble
BY TroubleAssumption DEF Trouble

\* Wherever heavy mode begins, it is not after two failures, whether Celery is found
\* or launched.
LEMMA CeleryBegins ==
  ASSUME TypeOK, Detected = "heavy", FindsCelery \/ LaunchesCelery
  PROVE  /\ failures' \in 0 .. 1
         /\ lockout_key' \in BOOLEAN
         /\ celery' \in BOOLEAN
         /\ trouble' \in 0 .. MaxTrouble
<1>1. CASE FindsCelery
  <2>1. CASE DetectMode /\ UNCHANGED trouble
    BY <1>1, <2>1, Detection DEF FindsCelery, TypeOK
  <2>2. CASE Trouble /\ failures' = 0 /\ lockout_key' = KeyCleared
    <3>1. trouble' \in 0 .. MaxTrouble
      BY <2>2, TroubleIsBounded DEF TypeOK
    <3> QED
      BY <1>1, <2>2, <3>1 DEF FindsCelery, KeyCleared, TypeOK
  <2> QED
    BY <1>1, <2>1, <2>2 DEF FindsCelery
<1>2. CASE LaunchesCelery
  <2>1. failures' \in 0 .. 1 /\ lockout_key' \in BOOLEAN
    BY <1>2, Detection DEF LaunchesCelery
  <2>2. Trouble => trouble' \in 0 .. MaxTrouble
    BY TroubleIsBounded DEF TypeOK
  <2> QED
    BY <1>2, <2>1, <2>2 DEF LaunchesCelery, Launched, TypeOK
<1> QED
  BY <1>1, <1>2

\* Nor does a look at Celery that misses it break the bound of the faults.
LEMMA MissingIsBounded ==
  ASSUME TypeOK, MissesCelery
  PROVE  trouble' \in 0 .. MaxTrouble
BY TroubleIsBounded DEF MissesCelery, TypeOK

LEMMA StartKeepsBounded ==
  ASSUME Bounded, Start
  PROVE  Bounded'
<1> USE DEF Bounded, TypeOK, Counted, Starting, Mode
<1>1. mode' = Detected /\ Detected \in Mode
      /\ UNCHANGED <<locked, hot, redis_up, healthy, intended, recent, disturbed>>
  BY DEF Start, Detected
<1>2. CASE Detected = "lite"
  <2>1. DetectMode /\ lite' = TRUE /\ pc' = "asleep" /\ UNCHANGED <<celery, trouble>>
    BY <1>2 DEF Start
  <2>2. failures' \in 0 .. 2 /\ lockout_key' \in BOOLEAN
    BY <2>1, Detection
  <2> QED
    BY <1>1, <1>2, <2>1, <2>2
<1>3. CASE Detected = "heavy"
  <2>1. /\ FindsCelery \/ LaunchesCelery
        /\ pc' \in {"asleep", "boot_start"} /\ UNCHANGED lite
    BY <1>3 DEF Start
  <2>2. /\ failures' \in 0 .. 1 /\ lockout_key' \in BOOLEAN /\ celery' \in BOOLEAN
        /\ trouble' \in 0 .. MaxTrouble
    BY <1>3, <2>1, CeleryBegins
  <2> QED
    BY <1>1, <1>3, <2>1, <2>2
<1> QED
  BY <1>1, <1>2, <1>3

LEMMA TickKeepsBounded ==
  ASSUME Bounded, Tick
  PROVE  Bounded'
<1> USE DEF Bounded, TypeOK, Counted, Starting, Mode
<1>1. UNCHANGED <<locked, hot, redis_up, healthy, intended, recent, disturbed>>
  BY DEF Tick
<1>2. CASE Keeps \/ HandsToLite
  <2>1. /\ failures' \in 0 .. 2 /\ lockout_key' \in BOOLEAN /\ Detected \in Mode
        /\ Detected = "heavy" => failures' < 2
    BY <1>2, Detection DEF Keeps, HandsToLite
  <2> QED
    BY <1>1, <1>2, <2>1 DEF Keeps, HandsToLite
<1>3. CASE HandsToHeavy
  <2>1. /\ failures' \in 0 .. 1 /\ lockout_key' \in BOOLEAN /\ celery' \in BOOLEAN
        /\ trouble' \in 0 .. MaxTrouble
    BY <1>3, CeleryBegins DEF HandsToHeavy
  <2>2. lite' = FALSE /\ pc' \in {"verify", "start"} /\ mode' \in Mode
    BY <1>3 DEF HandsToHeavy
  <2>3. failures' \in 0 .. 2 /\ failures' < 2
    BY <2>1
  <2>4. TypeOK'
    BY <1>1, <2>1, <2>2, <2>3
  <2> QED
    BY <2>3, <2>4
<1> QED
  BY <1>2, <1>3 DEF Tick

LEMMA ChecksKeepBounded ==
  ASSUME Bounded, CeleryChecked \/ Verify
  PROVE  Bounded'
<1> USE DEF Bounded, Counted
<1>1. CASE CeleryChecked
  <2>1. failures < 2
    BY <1>1 DEF CeleryChecked
  <2>2. CASE UNCHANGED trouble /\ mode' = "heavy" /\ failures' = 0 /\ lockout_key' = KeyCleared
             /\ UNCHANGED <<lite, locked, recent>>
    BY <1>1, <2>2 DEF CeleryChecked, TypeOK, KeyCleared, backend, Starting, Mode
  <2>3. CASE MissesCelery /\ LockOut /\ mode' = "lite" /\ lite' = TRUE
    <3>1. failures' \in 0 .. 2 /\ locked' \in BOOLEAN /\ lockout_key' \in BOOLEAN
          /\ recent' \in BOOLEAN
      BY <2>1, <2>3, LockingOut
    <3>2. trouble' \in 0 .. MaxTrouble
      BY <2>3, MissingIsBounded
    <3> QED
      BY <1>1, <2>3, <3>1, <3>2 DEF CeleryChecked, TypeOK, backend, Starting, Mode
  <2> QED
    BY <1>1, <2>2, <2>3 DEF CeleryChecked
<1>2. CASE Verify
  <2>1. pc' = "asleep" /\ hot' = FALSE /\ lite' \in BOOLEAN
        /\ UNCHANGED <<redis_up, celery, healthy, intended, disturbed>>
    BY <1>2 DEF Verify, backend
  <2>2. CASE mode = "heavy" /\ MissesCelery /\ LockOut /\ mode' = "lite"
    <3>1. failures < 2
      BY <1>2, <2>2 DEF Verify
    <3>2. failures' \in 0 .. 2 /\ locked' \in BOOLEAN /\ lockout_key' \in BOOLEAN
          /\ recent' \in BOOLEAN
      BY <2>2, <3>1, LockingOut
    <3>3. trouble' \in 0 .. MaxTrouble
      BY <2>2, MissingIsBounded
    <3> QED
      BY <2>1, <2>2, <3>2, <3>3 DEF TypeOK, Starting, Mode
  <2>3. CASE UNCHANGED <<failures, locked, lockout_key, recent, mode, trouble>>
    BY <1>2, <2>1, <2>3 DEF TypeOK, Starting, Mode
  <2> QED
    BY <1>2, <2>2, <2>3 DEF Verify
<1> QED
  BY <1>1, <1>2

LEMMA OthersKeepBounded ==
  ASSUME Bounded, Environment \/ Stops \/ Status \/ Handoff
  PROVE  Bounded'
<1> TypeOK /\ trouble \in 0 .. MaxTrouble
  BY DEF Bounded, TypeOK
<1>1. CASE KeyExpires
  <2>1. /\ UNCHANGED <<pc, mode, lite, failures, locked, hot, redis_up, celery, healthy,
                       intended, recent, disturbed, trouble>>
        /\ lockout_key' \in BOOLEAN
    BY <1>1 DEF KeyExpires, memory, backend
  <2>2. TypeOK' /\ Counted'
    BY <2>1 DEF Bounded, TypeOK, Counted, Starting, Mode
  <2> QED
    BY <2>2 DEF Bounded
<1>2. CASE LockoutElapses
  <2>1. /\ UNCHANGED <<pc, mode, lite, failures, hot, lockout_key, redis_up, celery, healthy,
                       intended, disturbed, trouble>>
        /\ locked' \in BOOLEAN /\ recent' \in BOOLEAN
    BY <1>2 DEF LockoutElapses, memory, backend
  <2>2. TypeOK' /\ Counted'
    BY <2>1 DEF Bounded, TypeOK, Counted, Starting, Mode
  <2> QED
    BY <2>2 DEF Bounded
<1>3. CASE CeleryDies
  <2>1. /\ UNCHANGED <<pc, mode, lite, failures, locked, hot, lockout_key, redis_up, healthy,
                       intended, recent, disturbed, trouble>>
        /\ celery' \in BOOLEAN
    BY <1>3 DEF CeleryDies, memory, backend
  <2>2. TypeOK' /\ Counted'
    BY <2>1 DEF Bounded, TypeOK, Counted, Starting, Mode
  <2> QED
    BY <2>2 DEF Bounded
<1>4. CASE CeleryMended
  <2>1. /\ UNCHANGED <<pc, mode, lite, failures, locked, hot, lockout_key, redis_up, celery,
                       intended, recent, disturbed, trouble>>
        /\ healthy' \in BOOLEAN
    BY <1>4 DEF CeleryMended, memory, backend
  <2>2. TypeOK' /\ Counted'
    BY <2>1 DEF Bounded, TypeOK, Counted, Starting, Mode
  <2> QED
    BY <2>2 DEF Bounded
<1>5. CASE CeleryBreaks
  <2>1. /\ UNCHANGED <<pc, mode, lite, failures, locked, hot, lockout_key, redis_up, celery,
                       intended, recent, disturbed>>
        /\ healthy' \in BOOLEAN
    BY <1>5 DEF CeleryBreaks, memory, backend
  <2>2. trouble' \in 0 .. MaxTrouble
    BY <1>5, TroubleIsBounded DEF CeleryBreaks
  <2>3. TypeOK' /\ Counted'
    BY <2>1, <2>2 DEF Bounded, TypeOK, Counted, Starting, Mode
  <2> QED
    BY <2>3 DEF Bounded
<1>6. CASE IntendedChanges
  <2>1. /\ UNCHANGED <<pc, mode, lite, failures, locked, hot, lockout_key, redis_up, celery,
                       healthy, recent, disturbed>>
        /\ intended' \in Mode
    BY <1>6 DEF IntendedChanges, memory, backend, TypeOK
  <2>2. trouble' \in 0 .. MaxTrouble
    BY <1>6, TroubleIsBounded DEF IntendedChanges
  <2>3. TypeOK' /\ Counted'
    BY <2>1, <2>2 DEF Bounded, TypeOK, Counted, Starting, Mode
  <2> QED
    BY <2>3 DEF Bounded
<1>7. CASE LiteDies
  <2>1. /\ UNCHANGED <<pc, mode, failures, locked, hot, lockout_key, redis_up, celery, healthy,
                       intended, recent, disturbed>>
        /\ lite' \in BOOLEAN
    BY <1>7 DEF LiteDies, memory, backend
  <2>2. trouble' \in 0 .. MaxTrouble
    BY <1>7, TroubleIsBounded DEF LiteDies
  <2>3. TypeOK' /\ Counted'
    BY <2>1, <2>2 DEF Bounded, TypeOK, Counted, Starting, Mode
  <2> QED
    BY <2>3 DEF Bounded
<1>8. CASE LiteSpins
  <2>1. /\ UNCHANGED <<pc, mode, lite, failures, locked, lockout_key, redis_up, celery, healthy,
                       intended, recent, disturbed>>
        /\ hot' \in BOOLEAN
    BY <1>8 DEF LiteSpins, memory, backend
  <2>2. trouble' \in 0 .. MaxTrouble
    BY <1>8, TroubleIsBounded DEF LiteSpins
  <2>3. TypeOK' /\ Counted'
    BY <2>1, <2>2 DEF Bounded, TypeOK, Counted, Starting, Mode
  <2> QED
    BY <2>3 DEF Bounded
<1>9. CASE RedisToggles
  <2>1. /\ UNCHANGED <<pc, mode, lite, failures, locked, hot, celery, healthy, intended, recent>>
        /\ redis_up' \in BOOLEAN /\ lockout_key' \in BOOLEAN /\ disturbed' \in BOOLEAN
    BY <1>9 DEF RedisToggles, memory, backend, TypeOK
  <2>2. trouble' \in 0 .. MaxTrouble
    BY <1>9, TroubleIsBounded DEF RedisToggles
  <2>3. TypeOK' /\ Counted'
    BY <2>1, <2>2 DEF Bounded, TypeOK, Counted, Starting, Mode
  <2> QED
    BY <2>3 DEF Bounded
<1>10. CASE Stops
  <2>1. /\ UNCHANGED <<lockout_key, redis_up, celery, healthy, intended, recent>>
        /\ pc' = "down" /\ mode' = "lite" /\ failures' = 0
        /\ lite' \in BOOLEAN /\ locked' \in BOOLEAN /\ hot' \in BOOLEAN /\ disturbed' \in BOOLEAN
    BY <1>10 DEF Stops, memory, backend
  <2>2. trouble' \in 0 .. MaxTrouble
    BY <1>10, TroubleIsBounded DEF Stops
  <2>3. TypeOK' /\ Counted'
    BY <2>1, <2>2 DEF Bounded, TypeOK, Counted, Starting, Mode
  <2> QED
    BY <2>3 DEF Bounded
<1>11. CASE Status
  <2>1. /\ UNCHANGED <<pc, mode, lite, failures, locked, hot, redis_up, celery, healthy,
                       intended, recent>>
        /\ lockout_key' \in BOOLEAN /\ disturbed' \in BOOLEAN
    BY <1>11 DEF Status, memory, backend, KeySeenByCommand, KeyCleared, TypeOK
  <2>2. trouble' \in 0 .. MaxTrouble
    BY <1>11, TroubleIsBounded DEF Status
  <2>3. TypeOK' /\ Counted'
    BY <2>1, <2>2 DEF Bounded, TypeOK, Counted, Starting, Mode
  <2> QED
    BY <2>3 DEF Bounded
<1>12. CASE Handoff
  <2>1. /\ UNCHANGED <<pc, mode, lite, failures, locked, hot, redis_up, healthy, intended>>
        /\ celery' \in BOOLEAN /\ lockout_key' \in BOOLEAN /\ recent' \in BOOLEAN
        /\ disturbed' \in BOOLEAN
    BY <1>12 DEF Handoff, memory, backend, Launched, KeySeenByCommand, KeyCleared, KeySet, TypeOK
  <2>2. trouble' \in 0 .. MaxTrouble
    BY <1>12, TroubleIsBounded DEF Handoff
  <2>3. TypeOK' /\ Counted'
    BY <2>1, <2>2 DEF Bounded, TypeOK, Counted, Starting, Mode
  <2> QED
    BY <2>3 DEF Bounded
<1> QED
  BY <1>1, <1>2, <1>3, <1>4, <1>5, <1>6, <1>7, <1>8, <1>9, <1>10, <1>11, <1>12
     DEF Environment

\* The failures stay below two whenever Celery is about to be launched, as Bounded says.
LEMMA BoundedAlways == Spec => []Bounded
<1>1. Init => Bounded
  <2> SUFFICES ASSUME Init PROVE TypeOK /\ Counted
    BY DEF Bounded
  <2>1. trouble \in 0 .. MaxTrouble /\ failures \in 0 .. 2
    BY TroubleAssumption DEF Init
  <2>2. /\ lite \in BOOLEAN /\ locked \in BOOLEAN /\ hot \in BOOLEAN
        /\ lockout_key \in BOOLEAN /\ redis_up \in BOOLEAN /\ celery \in BOOLEAN
        /\ recent \in BOOLEAN /\ disturbed \in BOOLEAN
    BY DEF Init
  <2> QED
    BY <2>1, <2>2 DEF Init, TypeOK, Counted, Starting, Mode
<1>2. Bounded /\ [Next]_vars => Bounded'
  <2> SUFFICES ASSUME Bounded, [Next]_vars PROVE Bounded'
    OBVIOUS
  <2>1. CASE UNCHANGED vars
    BY <2>1 DEF vars, memory, backend, Bounded, TypeOK, Counted
  <2>2. CASE Next
    BY <2>2, StartKeepsBounded, TickKeepsBounded, ChecksKeepBounded, OthersKeepBounded
       DEF Next, Monitor
  <2> QED
    BY <2>1, <2>2
<1> QED
  BY <1>1, <1>2, PTL DEF Spec

\* Every variable keeps its type; in particular no coordinator counts more than
\* two failures of Celery before the lockout holds it back.
THEOREM TypeCorrect == Spec => []TypeOK
BY BoundedAlways, PTL DEF Bounded

-----------------------------------------------------------------------------
\* The lockout

\* What a coordinator that was never disturbed knows of a recent failure.
Remembered ==
  ~disturbed =>
    /\ redis_up
    /\ recent => locked /\ lockout_key /\ pc \notin Starting

\* A known failure makes the mode lite.
LEMMA RecentIsLite ==
  ASSUME Remembered, ~disturbed, recent
  PROVE  Detected = "lite" /\ ~(SeesLockout /\ ~locked)
BY DEF Remembered, Detected, SeesLockout

LEMMA CoordinatorRemembers ==
  ASSUME TypeOK, Remembered, Start \/ Monitor
  PROVE  Remembered'
<1> SUFFICES ASSUME ~disturbed' PROVE Remembered'
  BY DEF Remembered
<1>1. UNCHANGED <<disturbed, redis_up>>
  BY DEF Start, Monitor, Tick, CeleryChecked, Verify
<1> ~disturbed /\ redis_up /\ redis_up'
  BY <1>1 DEF Remembered
<1>2. CASE Start \/ Tick
  <2>1. UNCHANGED <<locked, recent>>
    BY <1>2 DEF Start, Tick
  <2>2. CASE ~recent
    BY <1>1, <2>1, <2>2 DEF Remembered
  <2>3. CASE recent
    <3>1. Detected = "lite"
      BY <1>1, <2>3, RecentIsLite
    <3>2. DetectMode /\ pc' \in {"asleep", "verify"}
      BY <1>2, <3>1 DEF Start, Tick, Keeps, HandsToLite, HandsToHeavy
    <3>3. UNCHANGED lockout_key
      BY <1>1, <2>3, <3>2, RecentIsLite DEF DetectMode
    <3> QED
      BY <1>1, <2>1, <2>3, <3>2, <3>3 DEF Remembered, Starting
  <2> QED
    BY <2>2, <2>3
<1>3. CASE CeleryChecked
  <2>1. ~recent /\ pc' \notin Starting
    BY <1>1, <1>3 DEF CeleryChecked, Remembered, Starting
  <2>2. UNCHANGED recent \/ (locked' /\ lockout_key')
    BY <1>1, <1>3 DEF CeleryChecked, LockOut, KeySet
  <2> QED
    BY <1>1, <2>1, <2>2 DEF Remembered
<1>4. CASE Verify
  <2>1. pc' \notin Starting
    BY <1>4 DEF Verify, Starting
  <2>2. UNCHANGED <<locked, lockout_key, recent>> \/ (locked' /\ lockout_key')
    BY <1>1, <1>4 DEF Verify, LockOut, KeySet
  <2> QED
    BY <1>1, <2>1, <2>2 DEF Remembered
<1> QED
  BY <1>2, <1>3, <1>4 DEF Monitor

LEMMA OthersRemember ==
  ASSUME TypeOK, Remembered, Environment \/ Stops \/ Status \/ Handoff
  PROVE  Remembered'
<1> USE DEF Remembered, memory
<1>1. CASE KeyExpires \/ LockoutElapses \/ CeleryDies \/ CeleryMended
  BY <1>1 DEF KeyExpires, LockoutElapses, CeleryDies, CeleryMended
<1>2. CASE CeleryBreaks \/ IntendedChanges \/ LiteDies \/ LiteSpins
  BY <1>2 DEF CeleryBreaks, IntendedChanges, LiteDies, LiteSpins
<1>3. CASE RedisToggles \/ Stops \/ Status \/ Handoff
  BY <1>3 DEF RedisToggles, Stops, Status, Handoff
<1> QED
  BY <1>1, <1>2, <1>3 DEF Environment

\* "prevents crash-loop": with any number of failures, mode changes and dying
\* schedulers, Celery is not launched within ten minutes after it failed, until
\* Redis or the coordinator is lost or a command is used.
THEOREM LockoutKept == Spec => LockoutIsKept
<1>1. Init => Remembered
  BY DEF Init, Remembered
<1>2. TypeOK /\ Remembered /\ [Next]_vars => Remembered'
  <2> SUFFICES ASSUME TypeOK, Remembered, [Next]_vars PROVE Remembered'
    OBVIOUS
  <2>1. CASE UNCHANGED vars
    BY <2>1 DEF vars, memory, Remembered
  <2>2. CASE Next
    BY <2>2, CoordinatorRemembers, OthersRemember DEF Next
  <2> QED
    BY <2>1, <2>2
<1>3. TypeOK /\ Remembered /\ [Next]_vars
        => [pc \notin Starting /\ pc' \in Starting /\ ~disturbed => ~recent]_vars
  <2> SUFFICES ASSUME Remembered, [Next]_vars, pc \notin Starting, pc' \in Starting,
                      ~disturbed, recent
               PROVE  FALSE
    OBVIOUS
  <2>1. Detected = "lite"
    BY RecentIsLite
  <2>2. CASE Start \/ Tick
    <3>1. CASE Start
      BY <2>1, <3>1 DEF Start, Starting
    <3>2. CASE Tick
      BY <2>1, <3>2 DEF Tick, Keeps, HandsToLite, HandsToHeavy, Starting
    <3> QED
      BY <2>2, <3>1, <3>2
  <2>3. CASE CeleryChecked \/ Verify
    BY <2>3 DEF CeleryChecked, Verify, Starting
  <2>4. CASE Environment
    BY <2>4 DEF Environment, KeyExpires, LockoutElapses, CeleryDies, CeleryMended,
       CeleryBreaks, IntendedChanges, LiteDies, LiteSpins, RedisToggles
  <2>5. CASE Stops \/ Status \/ Handoff
    BY <2>5 DEF Stops, Status, Handoff, Starting
  <2>6. CASE UNCHANGED vars
    BY <2>6 DEF vars
  <2> QED
    BY <2>2, <2>3, <2>4, <2>5, <2>6 DEF Next, Monitor
<1> QED
  BY <1>1, <1>2, <1>3, TypeCorrect, PTL DEF Spec, LockoutIsKept

-----------------------------------------------------------------------------
\* The mode switch: types

LEMMA StageType ==
  ASSUME SwitchTypeOK, NEW o \in Operators, Stage(o)
  PROVE  SwitchTypeOK'
<1> USE DEF SwitchTypeOK, Stages, Frozen, Rollback, Goes, store, freezeKey, history
<1>1. CASE Preflight(o)
  BY <1>1 DEF Preflight
<1>2. CASE Lock(o)
  BY <1>2 DEF Lock
<1>3. CASE Freeze(o)
  BY <1>3 DEF Freeze
<1>4. CASE Broadcast(o)
  BY <1>4 DEF Broadcast
<1>5. CASE Settle(o)
  BY <1>5 DEF Settle
<1>6. CASE Drain(o)
  BY <1>6 DEF Drain
<1>7. CASE Snapshot(o)
  BY <1>7 DEF Snapshot
<1>8. CASE Replay(o)
  BY <1>8 DEF Replay
<1>9. CASE Flip(o)
  <2>1. plan[o] \in Plans
    BY <1>9 DEF Flip
  <2>2. [mode |-> plan[o].to, from_mode |-> plan[o].from] \in Pointers
    BY <2>1 DEF Plans, Pointers
  <2> QED
    BY <1>9, <2>2 DEF Flip
<1>10. CASE Cache(o)
  BY <1>10 DEF Cache
<1>11. CASE CacheWrite(o)
  BY <1>11 DEF CacheWrite
<1>12. CASE Poll(o)
  BY <1>12 DEF Poll
<1> QED
  BY <1>1, <1>2, <1>3, <1>4, <1>5, <1>6, <1>7, <1>8, <1>9, <1>10, <1>11, <1>12 DEF Stage

LEMMA RollbackType ==
  ASSUME SwitchTypeOK, NEW o \in Operators, RollsBack(o)
  PROVE  SwitchTypeOK'
<1> USE DEF SwitchTypeOK, Stages, Frozen, Rollback, Goes, Ends, store, freezeKey, history
<1>1. CASE Restore(o)
  <2>1. CASE config = "absent"
    BY <1>1, <2>1 DEF Restore
  <2>2. CASE config = "whole"
    BY <1>1, <2>2 DEF Restore
  <2>3. CASE config = "torn"
    BY <1>1, <2>3 DEF Restore
  <2> QED
    BY <2>1, <2>2, <2>3
<1>2. CASE RestoreWrite(o)
  BY <1>2 DEF RestoreWrite
<1>3. CASE Revert(o)
  BY <1>3 DEF Revert
<1>4. CASE SetBack(o)
  <2>1. plan[o] \in Plans
    BY <1>4 DEF SetBack
  <2>2. [mode |-> plan[o].from, from_mode |-> plan[o].to] \in Pointers
    BY <2>1 DEF Plans, Pointers
  <2> QED
    BY <1>4, <2>2 DEF SetBack
<1>5. CASE Thaw(o)
  BY <1>5 DEF Thaw
<1>6. CASE Unlock(o)
  BY <1>6 DEF Unlock
<1> QED
  BY <1>1, <1>2, <1>3, <1>4, <1>5, <1>6 DEF RollsBack

\* Those who are no run, and what happens to one.
LEMMA OthersType ==
  ASSUME SwitchTypeOK,
         \/ \E o \in Operators : Begin(o) \/ Crash(o)
         \/ \E w \in Writers : Check(w) \/ Commit(w)
         \/ Emit \/ LockExpires \/ FreezeAges \/ FreezeExpires \/ RedisLost \/ RedisBack
  PROVE  SwitchTypeOK'
<1> USE DEF SwitchTypeOK, Stages, Frozen, Rollback, run, store, freezeKey, history
<1>1. ASSUME NEW o \in Operators, Begin(o) PROVE SwitchTypeOK'
  <2>1. PICK p \in Plans :
          /\ plan' = [plan EXCEPT ![o] = p]
          /\ origins' = (IF NobodyRuns THEN {} ELSE origins) \cup {p.from}
    BY <1>1 DEF Begin, Transitions
  <2>2. p # NoPlan /\ p.from \in Mode
    BY DEF Plans, NoPlan, Mode
  <2>3. origins' \subseteq Mode
    BY <2>1, <2>2
  <2>4. exposed' \in BOOLEAN /\ faulted' \in BOOLEAN
    BY <1>1 DEF Begin
  <2> QED
    BY <1>1, <2>1, <2>2, <2>3, <2>4 DEF Begin
<1>2. ASSUME NEW o \in Operators, Crash(o) PROVE SwitchTypeOK'
  <2>1. trouble' \in 0 .. MaxTrouble
    BY <1>2, TroubleIsBounded DEF Crash
  <2> QED
    BY <1>2, <2>1 DEF Crash, Ends
<1>3. ASSUME NEW w \in Writers, Check(w) \/ Commit(w) PROVE SwitchTypeOK'
  BY <1>3 DEF Check, Commit
<1>4. CASE Emit
  BY <1>4 DEF Emit
<1>5. CASE LockExpires \/ RedisBack
  <2>1. /\ UNCHANGED <<stage, plan, unchanged, frozen, fresh, truth, config, checked,
                        origins, exposed, faulted, trouble>>
        /\ lock' \in BOOLEAN /\ redis_up' \in BOOLEAN
    BY <1>5 DEF LockExpires, RedisBack, freezeKey
  <2> QED
    BY <2>1
<1>6. CASE FreezeAges \/ FreezeExpires
  <2>1. /\ UNCHANGED <<stage, plan, unchanged, lock, truth, redis_up, config, checked,
                        origins, faulted, trouble>>
        /\ frozen' \in BOOLEAN /\ fresh' = FALSE /\ exposed' \in BOOLEAN
    BY <1>6 DEF FreezeAges, FreezeExpires, NobodyRuns
  <2> QED
    BY <2>1
<1>7. CASE RedisLost
  <2>1. trouble' \in 0 .. MaxTrouble
    BY <1>7, TroubleIsBounded DEF RedisLost
  <2> QED
    BY <1>7, <2>1 DEF RedisLost
<1> QED
  BY <1>1, <1>2, <1>3, <1>4, <1>5, <1>6, <1>7

\* Every variable of the mode switch keeps its type; in particular a run has a plan
\* as long as it runs, and the truth pointer never names one mode twice.
THEOREM SwitchTypeCorrect == SwitchSpec => []SwitchTypeOK
<1>1. SwitchInit => SwitchTypeOK
  <2> SUFFICES ASSUME SwitchInit PROVE SwitchTypeOK
    OBVIOUS
  <2>1. trouble \in 0 .. MaxTrouble
    BY TroubleAssumption DEF SwitchInit
  <2>2. origins \subseteq Mode
    BY DEF SwitchInit
  <2>3. \A o \in Operators : stage[o] = "idle" /\ plan[o] = NoPlan
    BY DEF SwitchInit
  <2> QED
    BY <2>1, <2>2, <2>3 DEF SwitchInit, SwitchTypeOK
<1>2. SwitchTypeOK /\ [SwitchNext]_switchVars => SwitchTypeOK'
  <2> SUFFICES ASSUME SwitchTypeOK, [SwitchNext]_switchVars PROVE SwitchTypeOK'
    OBVIOUS
  <2>1. CASE UNCHANGED switchVars
    BY <2>1 DEF switchVars, run, store, freezeKey, history, SwitchTypeOK
  <2>2. CASE SwitchNext
    BY <2>2, StageType, RollbackType, OthersType DEF SwitchNext
  <2> QED
    BY <2>1, <2>2
<1> QED
  BY <1>1, <1>2, PTL DEF SwitchSpec

-----------------------------------------------------------------------------
\* The mode switch: the freeze

\* While exposed is FALSE, Redis answers, there is one run at most, and what it has
\* frozen stays so until it thaws.
Guarded ==
  ~exposed =>
    /\ redis_up
    /\ \A o, q \in Operators : stage[o] # "idle" /\ stage[q] # "idle" => o = q
    /\ \A o \in Operators : stage[o] \in Frozen => frozen

LEMMA StageKeepsGuarded ==
  ASSUME SwitchTypeOK, Guarded, NEW o \in Operators, Stage(o)
  PROVE  Guarded'
<1> USE DEF SwitchTypeOK, Guarded, Stages, Frozen, Goes, store, freezeKey, history
<1>1. CASE Preflight(o)
  BY <1>1 DEF Preflight
<1>2. CASE Lock(o)
  BY <1>2 DEF Lock
<1>3. CASE Freeze(o)
  BY <1>3 DEF Freeze
<1>4. CASE Broadcast(o)
  BY <1>4 DEF Broadcast
<1>5. CASE Settle(o)
  BY <1>5 DEF Settle
<1>6. CASE Drain(o) \/ Snapshot(o)
  BY <1>6 DEF Drain, Snapshot
<1>7. CASE Replay(o)
  BY <1>7 DEF Replay
<1>8. CASE Flip(o)
  BY <1>8 DEF Flip
<1>9. CASE Cache(o)
  BY <1>9 DEF Cache
<1>10. CASE CacheWrite(o) \/ Poll(o)
  BY <1>10 DEF CacheWrite, Poll
<1> QED
  BY <1>1, <1>2, <1>3, <1>4, <1>5, <1>6, <1>7, <1>8, <1>9, <1>10 DEF Stage

\* Only the run itself thaws: another run would have exposed the writes.
LEMMA OthersKeepGuarded ==
  ASSUME SwitchTypeOK, Guarded,
         \/ \E o \in Operators : Begin(o) \/ RollsBack(o) \/ Crash(o)
         \/ \E w \in Writers : Check(w) \/ Commit(w)
         \/ Emit \/ LockExpires \/ FreezeAges \/ FreezeExpires \/ RedisLost \/ RedisBack
  PROVE  Guarded'
<1> USE DEF SwitchTypeOK, Guarded, Frozen, Goes, Ends, run, store, freezeKey, history
<1>1. ASSUME NEW o \in Operators, Begin(o) PROVE Guarded'
  BY <1>1 DEF Begin, NobodyRuns
<1>2. ASSUME NEW o \in Operators, Restore(o) PROVE Guarded'
  <2>1. CASE config = "absent"
    BY <1>2, <2>1 DEF Restore
  <2>2. CASE config = "whole"
    BY <1>2, <2>2 DEF Restore
  <2>3. CASE config = "torn"
    BY <1>2, <2>3 DEF Restore
  <2> QED
    BY <1>2, <2>1, <2>2, <2>3
<1>3. ASSUME NEW o \in Operators, RestoreWrite(o) \/ Revert(o) \/ SetBack(o)
      PROVE  Guarded'
  BY <1>3 DEF RestoreWrite, Revert, SetBack
<1>4. ASSUME NEW o \in Operators, Thaw(o) \/ Unlock(o) PROVE Guarded'
  BY <1>4 DEF Thaw, Unlock
<1>5. ASSUME NEW o \in Operators, Crash(o) PROVE Guarded'
  BY <1>5 DEF Crash
<1>6. ASSUME NEW w \in Writers, Check(w) PROVE Guarded'
  BY <1>6 DEF Check
<1>7. ASSUME NEW w \in Writers, Commit(w) PROVE Guarded'
  BY <1>7 DEF Commit
<1>8. CASE Emit \/ LockExpires
  BY <1>8 DEF Emit, LockExpires
<1>9. CASE FreezeAges \/ FreezeExpires
  BY <1>9 DEF FreezeAges, FreezeExpires, NobodyRuns
<1>10. CASE RedisLost \/ RedisBack
  BY <1>10 DEF RedisLost, RedisBack
<1> QED
  BY <1>1, <1>2, <1>3, <1>4, <1>5, <1>6, <1>7, <1>8, <1>9, <1>10 DEF RollsBack

\* For any number of runs and writers: as long as runs do not overlap, the freeze
\* outlives them and Redis answers, no write passes the check between the broadcast
\* of the freeze and the end of FLIP, through whatever stages and retreats.
THEOREM FreezeHolds == SwitchSpec => NoFurtherWrites
<1>1. SwitchInit => Guarded
  BY DEF SwitchInit, Guarded, Frozen
<1>2. SwitchTypeOK /\ Guarded /\ [SwitchNext]_switchVars => Guarded'
  <2> SUFFICES ASSUME SwitchTypeOK, Guarded, [SwitchNext]_switchVars PROVE Guarded'
    OBVIOUS
  <2>1. CASE UNCHANGED switchVars
    BY <2>1 DEF switchVars, run, store, freezeKey, history, Guarded
  <2>2. CASE SwitchNext
    BY <2>2, StageKeepsGuarded, OthersKeepGuarded DEF SwitchNext
  <2> QED
    BY <2>1, <2>2
<1>3. Guarded /\ [SwitchNext]_switchVars
        => [~exposed /\ (\E o \in Operators : stage[o] \in Frozen)
              => checked' \subseteq checked]_switchVars
  <2> SUFFICES ASSUME Guarded, SwitchNext, ~exposed,
                      NEW o \in Operators, stage[o] \in Frozen
               PROVE  checked' \subseteq checked
    OBVIOUS
  <2>1. frozen /\ redis_up
    BY DEF Guarded
  <2>2. ASSUME NEW q \in Operators, Begin(q) \/ Crash(q) PROVE UNCHANGED checked
    BY <2>2 DEF Begin, Crash
  <2>3. ASSUME NEW q \in Operators, Stage(q) PROVE UNCHANGED checked
    BY <2>3 DEF Stage, Preflight, Lock, Freeze, Broadcast, Settle, Drain, Snapshot,
       Replay, Flip, Cache, CacheWrite, Poll
  <2>4. ASSUME NEW q \in Operators, RollsBack(q) PROVE UNCHANGED checked
    BY <2>4 DEF RollsBack, Restore, RestoreWrite, Revert, SetBack, Thaw, Unlock
  <2>5. ASSUME NEW w \in Writers, Check(w) PROVE FALSE
    BY <2>1, <2>5 DEF Check
  <2>6. ASSUME NEW w \in Writers, Commit(w) PROVE checked' \subseteq checked
    BY <2>6 DEF Commit
  <2>7. CASE Emit \/ LockExpires \/ FreezeAges \/ FreezeExpires \/ RedisLost \/ RedisBack
    BY <2>7 DEF Emit, LockExpires, FreezeAges, FreezeExpires, RedisLost, RedisBack
  <2> QED
    BY <2>2, <2>3, <2>4, <2>5, <2>6, <2>7 DEF SwitchNext
<1> QED
  BY <1>1, <1>2, <1>3, SwitchTypeCorrect, PTL DEF SwitchSpec, NoFurtherWrites

-----------------------------------------------------------------------------
\* The mode switch: what is still to be undone

\* The pointer names a mode that no run started from.
Astray == truth # NoTruth /\ truth.mode \notin origins

\* Each run knows where it started from; and as long as no run, rollback or Redis is
\* lost, what is locked, frozen or astray has a run that has not passed the step of
\* its rollback that undoes it.  It need not be the run that did it.
Pending ==
  /\ \A o \in Operators : stage[o] # "idle" => plan[o].from \in origins
  /\ ~faulted =>
       /\ redis_up
       /\ lock => \E o \in Operators : stage[o] # "idle"
       /\ frozen => \E o \in Operators : stage[o] \notin {"idle", "unlock"}
       /\ Astray => \E o \in Operators : stage[o] \notin {"idle", "thaw", "unlock"}

\* A pointer names both modes, and so mentions the mode of every run.
LEMMA EveryRunIsMentioned ==
  ASSUME SwitchTypeOK, NEW o \in Operators, stage[o] # "idle", truth # NoTruth
  PROVE  Mentions(o)
BY DEF SwitchTypeOK, Mentions, Plans, Pointers, Mode

\* A run that has not come to its revert yet will undo whatever there is.
LEMMA RunBeforeRevert ==
  ASSUME SwitchTypeOK, Pending, NEW o \in Operators,
         stage[o] # "idle", stage'[o] \notin {"idle", "thaw", "unlock"},
         \A q \in Operators : stage'[q] # "idle" => stage[q] # "idle",
         UNCHANGED <<plan, origins, faulted, redis_up>>
  PROVE  Pending'
BY DEF Pending

LEMMA StageKeepsPending ==
  ASSUME SwitchTypeOK, Pending, NEW o \in Operators, Stage(o)
  PROVE  Pending'
<1>1. /\ stage[o] # "idle"
      /\ stage'[o] \notin {"idle", "thaw", "unlock"}
      /\ \A q \in Operators : stage'[q] # "idle" => stage[q] # "idle"
  <2> USE DEF SwitchTypeOK, Goes
  <2>1. CASE Preflight(o) \/ Lock(o) \/ Freeze(o) \/ Broadcast(o) \/ Settle(o)
    BY <2>1 DEF Preflight, Lock, Freeze, Broadcast, Settle
  <2>2. CASE Drain(o) \/ Snapshot(o) \/ Replay(o) \/ Flip(o)
    BY <2>2 DEF Drain, Snapshot, Replay, Flip
  <2>3. CASE Cache(o) \/ CacheWrite(o) \/ Poll(o)
    BY <2>3 DEF Cache, CacheWrite, Poll
  <2> QED
    BY <2>1, <2>2, <2>3 DEF Stage
<1>2. UNCHANGED <<plan, origins, faulted, redis_up>>
  <2> USE DEF store, freezeKey, history
  <2>1. CASE Preflight(o) \/ Lock(o) \/ Freeze(o) \/ Broadcast(o) \/ Settle(o)
    BY <2>1 DEF Preflight, Lock, Freeze, Broadcast, Settle
  <2>2. CASE Drain(o) \/ Snapshot(o) \/ Replay(o) \/ Flip(o)
    BY <2>2 DEF Drain, Snapshot, Replay, Flip
  <2>3. CASE Cache(o) \/ CacheWrite(o) \/ Poll(o)
    BY <2>3 DEF Cache, CacheWrite, Poll
  <2> QED
    BY <2>1, <2>2, <2>3 DEF Stage
<1> QED
  BY <1>1, <1>2, RunBeforeRevert

LEMMA RollbackKeepsPending ==
  ASSUME SwitchTypeOK, Pending, NEW o \in Operators, RollsBack(o)
  PROVE  Pending'
<1> USE DEF SwitchTypeOK, Goes
<1>1. CASE Restore(o)
  <2>1. CASE config = "absent" \/ config = "whole"
    <3>1. /\ stage[o] # "idle"
          /\ stage'[o] \notin {"idle", "thaw", "unlock"}
          /\ \A q \in Operators : stage'[q] # "idle" => stage[q] # "idle"
      BY <1>1, <2>1 DEF Restore
    <3>2. UNCHANGED <<plan, origins, faulted, redis_up>>
      BY <1>1, <2>1 DEF Restore, store, freezeKey
    <3> QED
      BY <3>1, <3>2, RunBeforeRevert
  <2>2. CASE config = "torn"
    <3>1. Ends(o) /\ faulted' /\ UNCHANGED origins
      BY <1>1, <2>2 DEF Restore
    <3> QED
      BY <3>1 DEF Pending, Ends
  <2> QED
    BY <2>1, <2>2
<1>2. CASE RestoreWrite(o)
  <2>1. /\ stage[o] # "idle"
        /\ stage'[o] \notin {"idle", "thaw", "unlock"}
        /\ \A q \in Operators : stage'[q] # "idle" => stage[q] # "idle"
    BY <1>2 DEF RestoreWrite
  <2>2. UNCHANGED <<plan, origins, faulted, redis_up>>
    BY <1>2 DEF RestoreWrite, store, freezeKey, history
  <2> QED
    BY <2>1, <2>2, RunBeforeRevert
<1>3. CASE Revert(o)
  <2>1. UNCHANGED <<plan, origins, faulted, redis_up, lock, frozen, truth>>
    BY <1>3 DEF Revert, store, freezeKey, history
  <2>2. redis_up /\ truth # NoTruth => stage'[o] = "set_back"
    BY <1>3, EveryRunIsMentioned DEF Revert
  <2>3. /\ stage[o] = "revert" /\ stage'[o] \in {"set_back", "thaw"}
        /\ \A q \in Operators \ {o} : stage'[q] = stage[q]
    BY <1>3 DEF Revert
  <2> QED
    BY <2>1, <2>2, <2>3 DEF Pending, Astray
<1>4. CASE SetBack(o)
  <2>1. UNCHANGED <<plan, origins, faulted, redis_up, lock, frozen>>
    BY <1>4 DEF SetBack, freezeKey, history
  <2>2. redis_up => truth'.mode = plan[o].from
    BY <1>4 DEF SetBack
  <2>3. /\ stage[o] = "set_back" /\ stage'[o] = "thaw"
        /\ \A q \in Operators \ {o} : stage'[q] = stage[q]
    BY <1>4 DEF SetBack
  <2> QED
    BY <2>1, <2>2, <2>3 DEF Pending, Astray
<1>5. CASE Thaw(o)
  <2>1. UNCHANGED <<plan, origins, faulted, redis_up, lock, truth>>
    BY <1>5 DEF Thaw, history
  <2>2. redis_up => ~frozen'
    BY <1>5 DEF Thaw
  <2>3. /\ stage[o] = "thaw" /\ stage'[o] = "unlock"
        /\ \A q \in Operators \ {o} : stage'[q] = stage[q]
    BY <1>5 DEF Thaw
  <2> QED
    BY <2>1, <2>2, <2>3 DEF Pending, Astray
<1>6. CASE Unlock(o)
  <2>1. /\ UNCHANGED <<origins, redis_up, frozen, truth>>
        /\ faulted' = (faulted \/ ~redis_up)
        /\ lock' = (lock /\ ~redis_up)
    BY <1>6 DEF Unlock, freezeKey
  <2>2. /\ stage[o] = "unlock" /\ stage'[o] = "idle"
        /\ \A q \in Operators \ {o} : stage'[q] = stage[q] /\ plan'[q] = plan[q]
    BY <1>6 DEF Unlock, Ends
  <2> QED
    BY <2>1, <2>2 DEF Pending, Astray
<1> QED
  BY <1>1, <1>2, <1>3, <1>4, <1>5, <1>6 DEF RollsBack

LEMMA OthersKeepPending ==
  ASSUME SwitchTypeOK, Pending,
         \/ \E o \in Operators : Begin(o) \/ Crash(o)
         \/ \E w \in Writers : Check(w) \/ Commit(w)
         \/ Emit \/ LockExpires \/ FreezeAges \/ FreezeExpires \/ RedisLost \/ RedisBack
  PROVE  Pending'
<1> USE DEF SwitchTypeOK, run, store, freezeKey, history
<1>1. ASSUME NEW o \in Operators, Begin(o) PROVE Pending'
  <2>1. PICK p \in Plans :
          /\ plan' = [plan EXCEPT ![o] = p]
          /\ origins' = (IF NobodyRuns THEN {} ELSE origins) \cup {p.from}
    BY <1>1 DEF Begin, Transitions
  <2>2. /\ stage'[o] = "preflight" /\ stage[o] = "idle"
        /\ \A q \in Operators \ {o} : stage'[q] = stage[q]
    BY <1>1 DEF Begin
  <2>3. \A q \in Operators : stage'[q] # "idle" => plan'[q].from \in origins'
    <3> SUFFICES ASSUME NEW q \in Operators, stage'[q] # "idle"
                 PROVE  plan'[q].from \in origins'
      OBVIOUS
    <3>1. CASE q = o
      BY <2>1, <3>1
    <3>2. CASE q # o
      BY <2>1, <2>2, <3>2 DEF Pending, NobodyRuns
    <3> QED
      BY <3>1, <3>2
  <2>4. ~faulted' => redis_up'
    BY <1>1 DEF Begin
  <2> QED
    BY <2>2, <2>3, <2>4 DEF Pending
<1>2. ASSUME NEW o \in Operators, Crash(o) PROVE Pending'
  BY <1>2 DEF Crash, Ends, Pending
<1>3. ASSUME NEW w \in Writers, Check(w) \/ Commit(w) PROVE Pending'
  BY <1>3 DEF Check, Commit, Pending, Astray
<1>4. CASE Emit
  BY <1>4 DEF Emit, Pending, Astray
<1>5. CASE LockExpires \/ FreezeAges \/ FreezeExpires
  BY <1>5 DEF LockExpires, FreezeAges, FreezeExpires, Pending, Astray
<1>6. CASE RedisLost \/ RedisBack
  BY <1>6 DEF RedisLost, RedisBack, Pending, Astray
<1> QED
  BY <1>1, <1>2, <1>3, <1>4, <1>5, <1>6

\* However many runs overlap, refuse each other and undo each other's steps: once
\* nobody runs, and no run, rollback or Redis was lost on the way, nothing is frozen
\* or locked, and the pointer names a mode that one of them started from.
THEOREM NothingIsHalfDone == SwitchSpec => []NothingHalfDone
<1>1. SwitchInit => Pending
  BY DEF SwitchInit, Pending, Astray, Pointers
<1>2. SwitchTypeOK /\ Pending /\ [SwitchNext]_switchVars => Pending'
  <2> SUFFICES ASSUME SwitchTypeOK, Pending, [SwitchNext]_switchVars PROVE Pending'
    OBVIOUS
  <2>1. CASE UNCHANGED switchVars
    BY <2>1 DEF switchVars, run, store, freezeKey, history, Pending, Astray
  <2>2. CASE SwitchNext
    BY <2>2, StageKeepsPending, RollbackKeepsPending, OthersKeepPending DEF SwitchNext
  <2> QED
    BY <2>1, <2>2
<1>3. Pending => NothingHalfDone
  BY DEF Pending, Astray, NothingHalfDone, NobodyRuns
<1> QED
  BY <1>1, <1>2, <1>3, SwitchTypeCorrect, PTL DEF SwitchSpec

=============================================================================
