---------------------------- MODULE GpuLockProofs ----------------------------
(***************************************************************************)
(* Proofs about GpuLock, for any number of processes with any number of    *)
(* worker threads and under any set of faults.  Until a fault that the     *)
(* lock is not proof against strikes or a thread is robbed of the key, the *)
(* lock is exclusive; only second releases rob, and only in a process with *)
(* several workers; the file lock is lost to siblings only.                *)
(***************************************************************************)
EXTENDS GpuLock, Naturals, TLAPS

-----------------------------------------------------------------------------
\* Types

\* Every step keeps every variable within its type.
THEOREM TypeCorrect == Spec => []TypeOK
<1> USE ProcOfAssumption, NoneAssumption
<1>1. Init => TypeOK
  BY DEF Init, TypeOK, Phase
<1>2. TypeOK /\ [Next]_vars => TypeOK'
  <2> SUFFICES ASSUME TypeOK, [Next]_vars PROVE TypeOK'
    OBVIOUS
  <2> USE DEF TypeOK, Phase, Goto, fileVars
  <2>1. CASE UNCHANGED vars
    BY <2>1 DEF vars, lockVars, envVars, threadVars
  <2>2. ASSUME NEW t \in Thread, Acquire(t) PROVE TypeOK'
    <3>1. CASE StartAcquire(t)
      BY <3>1 DEF StartAcquire, lockVars
    <3>2. CASE SetIfAbsent(t)
      BY <3>2 DEF SetIfAbsent, envVars
    <3>3. CASE FindDeadHolder(t)
      BY <3>3 DEF FindDeadHolder, lockVars, envVars
    <3>4. CASE Steal(t)
      BY <3>4 DEF Steal, envVars
    <3>5. CASE RedisFails(t)
      BY <3>5 DEF RedisFails, envVars
    <3>6. CASE Flock(t)
      BY <3>6 DEF Flock, envVars
    <3>7. CASE AcquireTimesOut(t)
      BY <3>7 DEF AcquireTimesOut, lockVars, envVars
    <3>8. CASE Keep(t)
      BY <3>8 DEF Keep, envVars
    <3> QED
      BY <2>2, <3>1, <3>2, <3>3, <3>4, <3>5, <3>6, <3>7, <3>8 DEF Acquire
  <2>3. ASSUME NEW t \in Thread, Execute(t) PROVE TypeOK'
    BY <2>3 DEF Execute, RejectOversize, Post, PostReturns, PostRaises,
       ExternalReturns, lockVars, envVars
  <2>4. ASSUME NEW t \in Thread, Release(t) PROVE TypeOK'
    <3>1. CASE ReleaseFile(t)
      BY <3>1 DEF ReleaseFile, envVars
    <3>2. CASE CompareOwner(t)
      BY <3>2 DEF CompareOwner, Released, lockVars, envVars
    <3>3. CASE DeleteKey(t)
      BY <3>3 DEF DeleteKey, Released, envVars
    <3>4. CASE ReleaseFails(t)
      BY <3>4 DEF ReleaseFails, Released, lockVars, envVars
    <3>5. CASE Drop(t)
      BY <3>5 DEF Drop, envVars
    <3> QED
      BY <2>4, <3>1, <3>2, <3>3, <3>4, <3>5 DEF Release
  <2>5. ASSUME NEW p \in Proc, Crash(p) PROVE TypeOK'
    BY <2>5 DEF Crash
  <2>6. CASE Expire \/ WatchdogClears \/ RedisToggles
    BY <2>6 DEF Expire, WatchdogClears, RedisToggles, threadVars
  <2> QED
    BY <2>1, <2>2, <2>3, <2>4, <2>5, <2>6 DEF Next
<1> QED
  BY <1>1, <1>2, PTL DEF Spec

-----------------------------------------------------------------------------
\* The file lock

\* A process keeps a descriptor of its own.
HandleInv == \A p \in Proc : handle[p] # None => ProcOf[handle[p]] = p

LEMMA HandlesAreOwn == Spec => []HandleInv
<1> USE ProcOfAssumption, NoneAssumption
<1>1. Init => HandleInv
  BY DEF Init, HandleInv
<1>2. TypeOK /\ HandleInv /\ [Next]_vars => HandleInv'
  <2> SUFFICES ASSUME TypeOK, HandleInv, [Next]_vars PROVE HandleInv'
    OBVIOUS
  <2> USE DEF TypeOK, HandleInv
  <2>1. CASE UNCHANGED vars
    BY <2>1 DEF vars, lockVars, fileVars
  <2>2. ASSUME NEW t \in Thread, Acquire(t) PROVE HandleInv'
    BY <2>2 DEF Acquire, StartAcquire, SetIfAbsent, FindDeadHolder, Steal, RedisFails, Flock,
       Keep, AcquireTimesOut, lockVars, fileVars
  <2>3. ASSUME NEW t \in Thread, Execute(t) \/ Release(t) PROVE HandleInv'
    BY <2>3 DEF Execute, RejectOversize, Post, PostReturns, PostRaises, ExternalReturns,
       Release, ReleaseFile, Drop, CompareOwner, DeleteKey, ReleaseFails, lockVars, fileVars
  <2>4. ASSUME NEW p \in Proc, Crash(p) PROVE HandleInv'
    BY <2>4 DEF Crash
  <2>5. CASE Expire \/ WatchdogClears \/ RedisToggles
    BY <2>5 DEF Expire, WatchdogClears, RedisToggles, fileVars
  <2> QED
    BY <2>1, <2>2, <2>3, <2>4, <2>5 DEF Next
<1> QED
  BY <1>1, <1>2, TypeCorrect, PTL DEF Spec

\* Under every fault, a live holder of the file loses the flock only to a release of
\* another thread of its own process, which shares the descriptor.
THEOREM FileIsLostWithin == Spec => FileIsLostToSiblingsOnly
<1> USE ProcOfAssumption, NoneAssumption
<1> DEFINE A == \A u \in Thread :
       file_lock = u /\ file_lock' # u /\ held[u] = "file" /\ held'[u] = "file" =>
         \E t \in Thread \ {u} : ProcOf[t] = ProcOf[u] /\ pc[t] = "release_file"
<1>1. TypeOK /\ HandleInv /\ [Next]_vars => [A]_vars
  <2> SUFFICES ASSUME TypeOK, HandleInv, Next, NEW u \in Thread,
                      file_lock = u, file_lock' # u, held[u] = "file", held'[u] = "file"
               PROVE  \E t \in Thread \ {u} : ProcOf[t] = ProcOf[u] /\ pc[t] = "release_file"
    OBVIOUS
  <2> USE DEF TypeOK
  <2>1. ASSUME NEW t \in Thread, Acquire(t) PROVE FALSE
    BY <2>1 DEF Acquire, StartAcquire, SetIfAbsent, FindDeadHolder, Steal, RedisFails, Flock,
       Keep, AcquireTimesOut, lockVars, fileVars
  <2>2. ASSUME NEW t \in Thread, Execute(t) PROVE FALSE
    BY <2>2 DEF Execute, RejectOversize, Post, PostReturns, PostRaises, ExternalReturns,
       lockVars, fileVars
  <2>3. ASSUME NEW t \in Thread, Release(t)
        PROVE  t # u /\ ProcOf[t] = ProcOf[u] /\ pc[t] = "release_file"
    <3>1. ReleaseFile(t)
      BY <2>3 DEF Release, Drop, CompareOwner, DeleteKey, ReleaseFails, lockVars, fileVars
    <3>2. handle[ProcOf[t]] = u
      BY <3>1 DEF ReleaseFile
    <3> QED
      BY <3>1, <3>2 DEF ReleaseFile, HandleInv
  <2>4. ASSUME NEW p \in Proc, Crash(p) PROVE FALSE
    BY <2>4 DEF Crash
  <2>5. CASE Expire \/ WatchdogClears \/ RedisToggles
    BY <2>5 DEF Expire, WatchdogClears, RedisToggles, fileVars
  <2> QED
    BY <2>1, <2>2, <2>3, <2>4, <2>5 DEF Next
<1> HIDE DEF A
<1>2. Spec => [][A]_vars
  BY <1>1, TypeCorrect, HandlesAreOwn, PTL DEF Spec
<1> QED
  BY <1>2 DEF A, FileIsLostToSiblingsOnly

-----------------------------------------------------------------------------
\* The lock as a whole

\* Redis and the processes are up, so nobody steals or locks the file.
Quiet ==
  /\ redis_up
  /\ file_lock = None
  /\ \A p \in Proc : alive[p] /\ handle[p] = None
  /\ \A t \in Thread : pc[t] \notin {"stealing", "file", "keep", "drop", "dead"}
                        /\ held[t] # "file"

\* Redis names the process of the one thread that holds the key.
HolderInv ==
  /\ \A t \in Thread : held[t] = "redis" => gpu_lock = ProcOf[t]
  /\ \A t, u \in Thread : held[t] = "redis" /\ held[u] = "redis" => t = u

\* A thread that uses the lock holds it, and one that waits for it does not.
PhaseInv ==
  \A t \in Thread :
    /\ pc[t] \in {"locked", "posting"} => held[t] = "redis"
    /\ pc[t] \in {"idle", "redis"} => held[t] = "none"

Alone(t) == \A v \in Thread : ProcOf[v] = ProcOf[t] => v = t

\* The only worker of its process has deleted its key before it releases once more: it
\* finds the key of another process, or none.
AloneInv ==
  \A t \in Thread :
    Alone(t) /\ held[t] = "none" =>
      /\ pc[t] # "release_del"
      /\ pc[t] \in {"external", "release_file", "release_get"} => gpu_lock # ProcOf[t]

LockInv == TypeOK /\ Quiet /\ HolderInv /\ PhaseInv /\ AloneInv

\* A lock that has been robbed or disturbed does not become calm again.
LEMMA CalmIsNotRegained ==
  ASSUME TypeOK, [Next]_vars, story' = "calm"
  PROVE  story = "calm"
<1> USE DEF TypeOK
<1>1. CASE UNCHANGED vars
  BY <1>1 DEF vars, envVars
<1>2. ASSUME NEW t \in Thread, Acquire(t) PROVE story = "calm"
  BY <1>2 DEF Acquire, StartAcquire, SetIfAbsent, FindDeadHolder, Steal, RedisFails,
     Flock, Keep, AcquireTimesOut, envVars
<1>3. ASSUME NEW t \in Thread, Execute(t) \/ Release(t) PROVE story = "calm"
  BY <1>3 DEF Execute, RejectOversize, Post, PostReturns, PostRaises, ExternalReturns,
     Release, ReleaseFile, Drop, CompareOwner, DeleteKey, ReleaseFails, envVars
<1>4. ASSUME NEW p \in Proc, Crash(p) PROVE story = "calm"
  BY <1>4 DEF Crash
<1>5. CASE Expire \/ WatchdogClears \/ RedisToggles
  BY <1>5 DEF Expire, WatchdogClears, RedisToggles
<1> QED
  BY <1>1, <1>2, <1>3, <1>4, <1>5 DEF Next

LEMMA AcquireKeepsLockInv ==
  ASSUME LockInv, story' = "calm", NEW t \in Thread, Acquire(t)
  PROVE  Quiet' /\ HolderInv' /\ PhaseInv' /\ AloneInv'
<1> USE ProcOfAssumption, NoneAssumption DEF LockInv, TypeOK, Goto
<1>1. CASE StartAcquire(t)
  <2>1. pc' = [pc EXCEPT ![t] = "redis"] /\ UNCHANGED <<lockVars, redis_up, alive, held>>
    BY <1>1 DEF StartAcquire
  <2> QED
    BY <1>1, <2>1 DEF StartAcquire, Quiet, HolderInv, PhaseInv, AloneInv, Alone, lockVars, fileVars
<1>2. CASE SetIfAbsent(t)
  <2> USE <1>2 DEF SetIfAbsent
  <2>1. \A u \in Thread : held[u] # "redis"
    BY DEF HolderInv
  <2>2. Quiet' /\ HolderInv'
    BY <2>1 DEF Quiet, HolderInv, envVars, fileVars
  <2>3. PhaseInv' /\ AloneInv'
    BY <2>1 DEF PhaseInv, AloneInv, Alone
  <2> QED
    BY <2>2, <2>3
<1>3. CASE AcquireTimesOut(t)
  BY <1>3 DEF AcquireTimesOut, Quiet, HolderInv, PhaseInv, AloneInv, Alone, lockVars, fileVars,
     envVars
<1>4. ~FindDeadHolder(t)
  BY DEF FindDeadHolder, Quiet
<1>5. ~Steal(t) /\ ~Flock(t) /\ ~Keep(t)
  BY DEF Steal, Flock, Keep, Quiet
<1>6. ~RedisFails(t)
  BY DEF RedisFails
<1> QED
  BY <1>1, <1>2, <1>3, <1>4, <1>5, <1>6 DEF Acquire

LEMMA ExecuteKeepsLockInv ==
  ASSUME LockInv, story' = "calm", NEW t \in Thread, Execute(t)
  PROVE  Quiet' /\ HolderInv' /\ PhaseInv' /\ AloneInv'
<1> USE ProcOfAssumption, NoneAssumption DEF LockInv, TypeOK, Goto
<1> USE DEF Quiet, HolderInv, PhaseInv, AloneInv, Alone, lockVars, fileVars, envVars
<1>1. CASE RejectOversize(t)
  BY <1>1 DEF RejectOversize
<1>2. CASE Post(t)
  BY <1>2 DEF Post
<1>3. CASE PostReturns(t)
  BY <1>3 DEF PostReturns
<1>4. CASE PostRaises(t)
  BY <1>4 DEF PostRaises
<1>5. CASE ExternalReturns(t)
  BY <1>5 DEF ExternalReturns
<1> QED
  BY <1>1, <1>2, <1>3, <1>4, <1>5 DEF Execute

\* A thread that holds the key deletes it, and one that does not hold it deletes one
\* that nobody holds; otherwise the lock has been robbed.
LEMMA ReleaseKeepsLockInv ==
  ASSUME LockInv, story' = "calm", NEW t \in Thread, Release(t)
  PROVE  Quiet' /\ HolderInv' /\ PhaseInv' /\ AloneInv'
<1> USE ProcOfAssumption, NoneAssumption DEF LockInv, TypeOK, Goto
<1>1. CASE ReleaseFile(t)
  BY <1>1 DEF ReleaseFile, Quiet, HolderInv, PhaseInv, AloneInv, Alone, envVars
<1>2. CASE CompareOwner(t)
  <2> USE <1>2 DEF CompareOwner, Released
  <2>1. held[t] = "redis" => gpu_lock = ProcOf[t]
    BY DEF HolderInv
  <2>2. CASE gpu_lock = ProcOf[t]
    BY <2>2 DEF Quiet, HolderInv, PhaseInv, AloneInv, Alone, lockVars, fileVars, envVars
  <2>3. CASE gpu_lock # ProcOf[t]
    BY <2>1, <2>3 DEF Quiet, HolderInv, PhaseInv, AloneInv, Alone, lockVars, fileVars, envVars
  <2> QED
    BY <2>2, <2>3
<1>3. CASE DeleteKey(t)
  <2> USE <1>3 DEF DeleteKey, Released
  <2>1. \A u \in Thread : u # t => held[u] # "redis"
    OBVIOUS
  <2>2. Quiet' /\ HolderInv'
    BY <2>1 DEF Quiet, HolderInv, fileVars
  <2>3. PhaseInv' /\ AloneInv'
    BY <2>1 DEF PhaseInv, AloneInv, Alone
  <2> QED
    BY <2>2, <2>3
<1>4. ~ReleaseFails(t) /\ ~Drop(t)
  BY DEF ReleaseFails, Drop, Quiet
<1> QED
  BY <1>1, <1>2, <1>3, <1>4 DEF Release

\* Until one of the faults has struck or somebody has been robbed.
Undisturbed == story = "calm" => Quiet /\ HolderInv /\ PhaseInv /\ AloneInv

LEMMA UndisturbedInvariant == Spec => []Undisturbed
<1> USE ProcOfAssumption, NoneAssumption
<1>1. Init => Undisturbed
  BY DEF Init, Undisturbed, Quiet, HolderInv, PhaseInv, AloneInv
<1>2. TypeOK /\ Undisturbed /\ [Next]_vars => Undisturbed'
  <2> SUFFICES ASSUME TypeOK, Undisturbed, [Next]_vars, story' = "calm"
               PROVE  Quiet' /\ HolderInv' /\ PhaseInv' /\ AloneInv'
    BY DEF Undisturbed
  <2>0. LockInv
    BY CalmIsNotRegained DEF LockInv, Undisturbed
  <2>1. CASE UNCHANGED vars
    BY <2>0, <2>1 DEF vars, lockVars, fileVars, envVars, threadVars, LockInv, Quiet, HolderInv,
       PhaseInv, AloneInv, Alone
  <2>2. CASE \E t \in Thread : Acquire(t) \/ Execute(t) \/ Release(t)
    BY <2>0, <2>2, AcquireKeepsLockInv, ExecuteKeepsLockInv, ReleaseKeepsLockInv
  <2>3. CASE Expire
    BY <2>0, <2>3 DEF Expire, LockInv, TypeOK, Quiet, HolderInv, PhaseInv, AloneInv, Alone,
       threadVars, fileVars
  <2>4. ~WatchdogClears /\ ~RedisToggles /\ \A p \in Proc : ~Crash(p)
    BY DEF WatchdogClears, RedisToggles, Crash
  <2> QED
    BY <2>1, <2>2, <2>3, <2>4 DEF Next
<1> QED
  BY <1>1, <1>2, TypeCorrect, PTL DEF Spec

\* However many processes and worker threads compete for the lock, and even though
\* rejected prompts leak it and failed requests release it twice: no two requests are in
\* flight at the same time before a fault strikes or somebody is robbed of the key.
THEOREM LockIsExclusive == Spec => []MutualExclusion
<1>1. Undisturbed => MutualExclusion
  BY DEF Undisturbed, PhaseInv, HolderInv, MutualExclusion
<1> QED
  BY <1>1, UndisturbedInvariant, PTL

\* The key is deleted under another thread only by a second release, in a process with
\* more than one worker: for the only worker of a process it is the no-op that the
\* comment beside it claims.
THEOREM RobbersHaveSiblings == Spec => OnlySecondReleasesRob
<1> USE ProcOfAssumption, NoneAssumption
<1> DEFINE A == story # "robbed" /\ story' = "robbed" =>
       \E t, v \in Thread :
         t # v /\ ProcOf[t] = ProcOf[v] /\ pc[t] = "release_del" /\ held[t] = "none"
<1>1. TypeOK /\ Undisturbed /\ [Next]_vars => [A]_vars
  <2> SUFFICES ASSUME TypeOK, Undisturbed, Next, story # "robbed", story' = "robbed"
               PROVE  \E t, v \in Thread : t # v /\ ProcOf[t] = ProcOf[v]
                                           /\ pc[t] = "release_del" /\ held[t] = "none"
    OBVIOUS
  <2>1. PICK t \in Thread : DeleteKey(t)
    <3>1. ASSUME NEW t \in Thread PROVE ~Acquire(t) /\ ~Execute(t)
      BY DEF Acquire, StartAcquire, SetIfAbsent, FindDeadHolder, Steal, RedisFails, Flock, Keep,
         AcquireTimesOut, Execute, RejectOversize, Post, PostReturns, PostRaises,
         ExternalReturns, envVars
    <3>2. ASSUME NEW t \in Thread, Release(t) PROVE DeleteKey(t)
      BY <3>2 DEF Release, ReleaseFile, Drop, CompareOwner, ReleaseFails, envVars
    <3>3. ~Expire /\ ~WatchdogClears /\ ~RedisToggles /\ \A p \in Proc : ~Crash(p)
      BY DEF Expire, WatchdogClears, RedisToggles, Crash
    <3> QED
      BY <3>1, <3>2, <3>3 DEF Next
  <2>2. story = "calm" /\ \E u \in Thread \ {t} : held[u] = "redis"
    BY <2>1 DEF DeleteKey
  <2>3. Quiet /\ HolderInv /\ AloneInv
    BY <2>2 DEF Undisturbed
  <2>4. held[t] = "none"
    BY <2>2, <2>3 DEF TypeOK, Quiet, HolderInv
  <2>5. ~Alone(t)
    BY <2>1, <2>3, <2>4 DEF AloneInv, DeleteKey
  <2> QED
    BY <2>1, <2>4, <2>5 DEF Alone, DeleteKey
<1> HIDE DEF A
<1>2. Spec => [][A]_vars
  BY <1>1, TypeCorrect, UndisturbedInvariant, PTL DEF Spec
<1> QED
  BY <1>2 DEF A, OnlySecondReleasesRob

-----------------------------------------------------------------------------
\* The way out

HasKey(t) == held[t] = "redis"

\* The phases of a request that has the key, in their order.
OnItsWay == {"locked", "posting", "release_file", "drop", "release_get", "release_del"}
Stage(phase) ==
  CASE phase = "locked" -> 1 [] phase = "posting" -> 2 [] phase = "release_file" -> 3
    [] phase = "drop" -> 4 [] phase = "release_get" -> 5 [] phase = "release_del" -> 6

\* Whoever has taken the key is on its way to give it back, and Redis is down only in an
\* outage.
WayOutInv ==
  /\ \A t \in Thread : HasKey(t) => pc[t] \in OnItsWay
  /\ redis_up \/ "outage" \in Faults

LEMMA WayOutAlways == Spec => []WayOutInv
<1>1. Init => WayOutInv
  BY DEF Init, WayOutInv, HasKey
<1>2. TypeOK /\ WayOutInv /\ [Next]_vars => WayOutInv'
  <2> SUFFICES ASSUME TypeOK, WayOutInv, [Next]_vars PROVE WayOutInv'
    OBVIOUS
  <2> USE DEF TypeOK, WayOutInv, HasKey, OnItsWay, Goto
  <2>1. CASE UNCHANGED vars
    BY <2>1 DEF vars, envVars, threadVars
  <2>2. ASSUME NEW t \in Thread, Acquire(t) PROVE WayOutInv'
    BY <2>2 DEF Acquire, StartAcquire, SetIfAbsent, FindDeadHolder, Steal, RedisFails, Flock,
       Keep, AcquireTimesOut, envVars
  <2>3. ASSUME NEW t \in Thread, Execute(t) PROVE WayOutInv'
    BY <2>3 DEF Execute, RejectOversize, Post, PostReturns, PostRaises, ExternalReturns, envVars
  <2>4. ASSUME NEW t \in Thread, Release(t) PROVE WayOutInv'
    BY <2>4 DEF Release, ReleaseFile, Drop, CompareOwner, DeleteKey, ReleaseFails, Released, envVars
  <2>5. ASSUME NEW p \in Proc, Crash(p) PROVE WayOutInv'
    BY <2>5 DEF Crash
  <2>6. CASE Expire \/ WatchdogClears \/ RedisToggles
    BY <2>6 DEF Expire, WatchdogClears, RedisToggles, threadVars
  <2> QED
    BY <2>1, <2>2, <2>3, <2>4, <2>5, <2>6 DEF Next
<1> QED
  BY <1>1, <1>2, TypeCorrect, PTL DEF Spec

\* Nobody has the key any more, so that Redis may expire it, or a thread of the process
\* can take its next step, with Redis or with the error of a Redis that is down.
CanBeFreed(p) ==
  \/ \A t \in Thread : ProcOf[t] = p => ~HasKey(t)
  \/ \E t \in Thread :
       /\ ProcOf[t] = p /\ HasKey(t)
       /\ \/ pc[t] \in {"locked", "posting", "release_file", "drop"}
          \/ pc[t] \in {"release_get", "release_del"} /\ redis_up
          \/ pc[t] \in {"release_get", "release_del"} /\ "outage" \in Faults

KeyHasWayOut == \A p \in Proc : gpu_lock = p => CanBeFreed(p)

\* A key is never stuck: not that of a dead process, not that of a rejected prompt, and
\* not one that another thread of the same process has taken meanwhile.
THEOREM KeyIsNeverStuck == Spec => []KeyHasWayOut
<1>1. WayOutInv => KeyHasWayOut
  BY DEF WayOutInv, KeyHasWayOut, CanBeFreed, OnItsWay
<1> QED
  BY <1>1, WayOutAlways, PTL

\* A thread that has the key gives it back, waits, or comes nearer to giving it back.
MovesOn(t) ==
  \/ ~HasKey(t)'
  \/ pc'[t] = pc[t]
  \/ pc'[t] \in OnItsWay /\ Stage(pc'[t]) > Stage(pc[t])

\* Under every fault, a request that has the key never goes back to an earlier phase: with
\* KeyIsNeverStuck, what KeyIsFreed needs beside fairness.
THEOREM HoldersMoveOn == Spec => [][\A t \in Thread : HasKey(t) => MovesOn(t)]_vars
<1> DEFINE A == \A t \in Thread : HasKey(t) => MovesOn(t)
<1>1. TypeOK /\ WayOutInv /\ [Next]_vars => [A]_vars
  <2> SUFFICES ASSUME TypeOK, WayOutInv, Next, NEW t \in Thread, HasKey(t)
               PROVE  MovesOn(t)
    OBVIOUS
  <2> USE DEF TypeOK, WayOutInv, HasKey, MovesOn, OnItsWay, Stage, Goto
  <2>1. ASSUME NEW u \in Thread, Acquire(u) PROVE MovesOn(t)
    BY <2>1 DEF Acquire, StartAcquire, SetIfAbsent, FindDeadHolder, Steal, RedisFails, Flock,
       Keep, AcquireTimesOut
  <2>2. ASSUME NEW u \in Thread, Execute(u) PROVE MovesOn(t)
    BY <2>2 DEF Execute, RejectOversize, Post, PostReturns, PostRaises, ExternalReturns
  <2>3. ASSUME NEW u \in Thread, Release(u) PROVE MovesOn(t)
    BY <2>3 DEF Release, ReleaseFile, Drop, CompareOwner, DeleteKey, ReleaseFails, Released
  <2>4. ASSUME NEW p \in Proc, Crash(p) PROVE MovesOn(t)
    BY <2>4 DEF Crash
  <2>5. CASE Expire \/ WatchdogClears \/ RedisToggles
    BY <2>5 DEF Expire, WatchdogClears, RedisToggles, threadVars
  <2> QED
    BY <2>1, <2>2, <2>3, <2>4, <2>5 DEF Next
<1> QED
  BY <1>1, TypeCorrect, WayOutAlways, PTL DEF Spec

=============================================================================
