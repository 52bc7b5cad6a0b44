------------------------------ MODULE GpuLock -------------------------------
(***************************************************************************)
(* The cross-process GPU lock of memory/llm_priority_queue.py, and the     *)
(* part of _execute_llm_request that holds it.  Worker threads of several  *)
(* processes take the lock before they POST to the single Metal server.    *)
(* The lock is the Redis key llm:gpu_lock, whose value is the PID of the   *)
(* process, with a flock on a file when Redis cannot be reached.  A Redis  *)
(* command is one step; what the code does between two commands is         *)
(* interleaved with the other threads.                                     *)
(*                                                                         *)
(* Faults names what may go wrong around the lock; with Faults = {} every  *)
(* request is answered within the TTL, Redis is up and no process dies.    *)
(* The history variable story tells whether the lock can still do what it  *)
(* is for: "robbed" once a thread has deleted the key that another thread  *)
(* relied on, "disturbed" once one of the faults has struck that the lock  *)
(* is not proof against.                                                   *)
(* The threads of a process share its PID and its file descriptor.  That   *)
(* the system may give the number of a closed descriptor to the next file  *)
(* is left out.                                                            *)
(* The llm:gpu_urgent flag only chooses how long a thread sleeps between   *)
(* two polls and is left out.                                              *)
(***************************************************************************)
EXTENDS FiniteSets

CONSTANTS
  Proc,     \* processes, named by their PIDs
  Thread,   \* their worker threads
  ProcOf,   \* the process of each thread
  Faults,   \* the faults that may occur
  None      \* no holder

FaultKinds ==
  {"backend",    \* the POST raises, e.g. the server is down
   "oversize",   \* a prompt that cannot be segmented below MAX_INPUT_CHARS
   "crash",      \* a process dies
   "lapse",      \* the TTL of the key runs out during a request
   "outage",     \* Redis goes away, comes back, or loses a reply
   "watchdog"}   \* the scheduler's CPU watchdog clears the key

ASSUME ProcOfAssumption == ProcOf \in [Thread -> Proc]
ASSUME FaultsAssumption == Faults \subseteq FaultKinds
ASSUME NoneAssumption == None \notin Proc /\ None \notin Thread

VARIABLES
  gpu_lock,      \* the value of llm:gpu_lock in Redis
  file_lock,     \* the thread whose descriptor holds the flock
  handle,        \* _acquire_file_lock._fd of each process: whose descriptor it is
  redis_up,      \* Redis answers
  alive,         \* which processes run
  pc,            \* where each thread is
  held,          \* the lock it took and has not released: "redis", "file" or "none"
  fallback,      \* its early release is followed by the external fallback
  story          \* "calm"; "robbed": a thread has deleted the key while another
                 \* one held it; "disturbed": a crash, a lapse, an outage or the
                 \* watchdog has struck

fileVars == <<file_lock, handle>>
lockVars == <<gpu_lock, fileVars>>
envVars == <<redis_up, alive, story>>
threadVars == <<pc, held, fallback>>
vars == <<lockVars, envVars, threadVars>>

Phase == {"idle", "redis", "stealing", "file", "keep", "locked", "posting",
          "release_file", "drop", "release_get", "release_del", "external", "dead"}

TypeOK ==
  /\ gpu_lock \in Proc \cup {None}
  /\ file_lock \in Thread \cup {None}
  /\ handle \in [Proc -> Thread \cup {None}]
  /\ redis_up \in BOOLEAN
  /\ alive \in [Proc -> BOOLEAN]
  /\ pc \in [Thread -> Phase]
  /\ held \in [Thread -> {"redis", "file", "none"}]
  /\ fallback \in [Thread -> BOOLEAN]
  /\ story \in {"calm", "robbed", "disturbed"}

Init ==
  /\ gpu_lock = None
  /\ file_lock = None
  /\ handle = [p \in Proc |-> None]
  /\ redis_up = TRUE
  /\ alive = [p \in Proc |-> TRUE]
  /\ pc = [t \in Thread |-> "idle"]
  /\ held = [t \in Thread |-> "none"]
  /\ fallback = [t \in Thread |-> FALSE]
  /\ story = "calm"

Goto(t, phase) == pc' = [pc EXCEPT ![t] = phase]

-----------------------------------------------------------------------------
\* Seeded faults: each replaces the operation it is named after to show that a
\* property notices the mistake.  None is part of the specification.

\* SET without NX.
SetAlways(t) ==
  /\ pc[t] = "redis"
  /\ redis_up
  /\ gpu_lock' = ProcOf[t]
  /\ held' = [held EXCEPT ![t] = "redis"]
  /\ Goto(t, "locked")
  /\ UNCHANGED <<fileVars, envVars, fallback>>

\* The key names the thread, not its process: nobody can ask whether it lives.
SetToThread(t) ==
  /\ pc[t] = "redis"
  /\ redis_up
  /\ gpu_lock = None
  /\ gpu_lock' = t
  /\ held' = [held EXCEPT ![t] = "redis"]
  /\ Goto(t, "locked")
  /\ UNCHANGED <<fileVars, envVars, fallback>>

\* Neither EX nor PX.
ExpireNever == FALSE /\ UNCHANGED vars

\* Unlocks the file for whoever has locked it.
UnlockForAll(t) ==
  /\ pc[t] = "release_file"
  /\ held' = [held EXCEPT ![t] = IF @ = "file" THEN "none" ELSE @]
  /\ file_lock' = None
  /\ Goto(t, "drop")
  /\ UNCHANGED <<gpu_lock, handle, envVars, fallback>>

\* The release deletes any key it finds.
CompareNothing(t) ==
  /\ pc[t] = "release_get"
  /\ redis_up
  /\ Goto(t, "release_del")
  /\ UNCHANGED <<lockVars, envVars, held, fallback>>

-----------------------------------------------------------------------------
\* _acquire_gpu_lock

\* _redis_available trusts the process's last PING for five seconds, so that around
\* an outage it says either, right or wrong.
StartAcquire(t) ==
  /\ pc[t] = "idle"
  /\ \/ Goto(t, "redis") /\ UNCHANGED story
     \/ "outage" \in Faults /\ Goto(t, "file") /\ story' = "disturbed"
  /\ UNCHANGED <<lockVars, redis_up, alive, held, fallback>>

\* SET llm:gpu_lock <pid> NX EX ttl
SetIfAbsent(t) ==
  /\ pc[t] = "redis"
  /\ redis_up
  /\ gpu_lock = None
  /\ gpu_lock' = ProcOf[t]
  /\ held' = [held EXCEPT ![t] = "redis"]
  /\ Goto(t, "locked")
  /\ UNCHANGED <<fileVars, envVars, fallback>>

\* GET llm:gpu_lock, then os.kill(pid, 0)
FindDeadHolder(t) ==
  /\ pc[t] = "redis"
  /\ redis_up
  /\ gpu_lock # None
  /\ ~alive[gpu_lock]
  /\ Goto(t, "stealing")
  /\ UNCHANGED <<lockVars, envVars, held, fallback>>

\* DEL llm:gpu_lock, whatever it holds by now; a SET NX follows.
Steal(t) ==
  /\ pc[t] = "stealing"
  /\ redis_up
  /\ gpu_lock' = None
  /\ Goto(t, "redis")
  /\ UNCHANGED <<fileVars, envVars, held, fallback>>

\* A command that fails sends the thread to the file lock; the SET or DEL may
\* have reached Redis although its reply was lost.
RedisFails(t) ==
  /\ "outage" \in Faults
  /\ pc[t] \in {"redis", "stealing"}
  /\ \/ UNCHANGED gpu_lock
     \/ pc[t] = "redis" /\ redis_up /\ gpu_lock = None /\ gpu_lock' = ProcOf[t]
     \/ pc[t] = "stealing" /\ redis_up /\ gpu_lock' = None
  /\ Goto(t, "file")
  /\ story' = "disturbed"
  /\ UNCHANGED <<fileVars, redis_up, alive, held, fallback>>

\* flock(LOCK_EX | LOCK_NB) on a descriptor of the thread's own.
Flock(t) ==
  /\ pc[t] = "file"
  /\ file_lock = None
  /\ file_lock' = t
  /\ held' = [held EXCEPT ![t] = "file"]
  /\ Goto(t, "keep")
  /\ UNCHANGED <<gpu_lock, handle, envVars, fallback>>

\* The descriptor becomes the one of the process.
Keep(t) ==
  /\ pc[t] = "keep"
  /\ handle' = [handle EXCEPT ![ProcOf[t]] = t]
  /\ Goto(t, "locked")
  /\ UNCHANGED <<gpu_lock, file_lock, envVars, held, fallback>>

\* The wait is over without the lock: the request fails, nothing to release.
AcquireTimesOut(t) ==
  /\ pc[t] \in {"redis", "file"}
  /\ Goto(t, "idle")
  /\ UNCHANGED <<lockVars, envVars, held, fallback>>

-----------------------------------------------------------------------------
\* _execute_llm_request

\* The oversize guard returns before the try block that releases the lock.
RejectOversize(t) ==
  /\ "oversize" \in Faults
  /\ pc[t] = "locked"
  /\ held' = [held EXCEPT ![t] = "none"]
  /\ Goto(t, "idle")
  /\ UNCHANGED <<lockVars, envVars, fallback>>

Post(t) ==
  /\ pc[t] = "locked"
  /\ Goto(t, "posting")
  /\ UNCHANGED <<lockVars, envVars, held, fallback>>

PostReturns(t) ==
  /\ pc[t] = "posting"
  /\ Goto(t, "release_file")
  /\ UNCHANGED <<lockVars, envVars, held, fallback>>

\* The except blocks release first and then try the external provider.
PostRaises(t) ==
  /\ "backend" \in Faults
  /\ pc[t] = "posting"
  /\ fallback' = [fallback EXCEPT ![t] = TRUE]
  /\ Goto(t, "release_file")
  /\ UNCHANGED <<lockVars, envVars, held>>

\* The finally block releases once more.
ExternalReturns(t) ==
  /\ pc[t] = "external"
  /\ fallback' = [fallback EXCEPT ![t] = FALSE]
  /\ Goto(t, "release_file")
  /\ UNCHANGED <<lockVars, envVars, held>>

-----------------------------------------------------------------------------
\* _release_gpu_lock

\* Unlocks the descriptor of the process, whichever thread has locked it.
ReleaseFile(t) ==
  LET fd == handle[ProcOf[t]] IN
  /\ pc[t] = "release_file"
  /\ held' = [held EXCEPT ![t] = IF @ = "file" THEN "none" ELSE @]
  /\ file_lock' = IF fd # None /\ file_lock = fd THEN None ELSE file_lock
  /\ Goto(t, IF fd = None THEN "release_get" ELSE "drop")
  /\ UNCHANGED <<gpu_lock, handle, envVars, fallback>>

\* Forgets the descriptor of the process: by now it may be that of a thread that
\* has locked the file in between, which then stays locked.
Drop(t) ==
  /\ pc[t] = "drop"
  /\ handle' = [handle EXCEPT ![ProcOf[t]] = None]
  /\ Goto(t, "release_get")
  /\ UNCHANGED <<gpu_lock, file_lock, envVars, held, fallback>>

Released(t) ==
  /\ held' = [held EXCEPT ![t] = "none"]
  /\ Goto(t, IF fallback[t] THEN "external" ELSE "idle")

CompareOwner(t) ==
  /\ pc[t] = "release_get"
  /\ redis_up
  /\ IF gpu_lock = ProcOf[t]
     THEN Goto(t, "release_del") /\ UNCHANGED held
     ELSE Released(t)
  /\ UNCHANGED <<lockVars, envVars, fallback>>

DeleteKey(t) ==
  /\ pc[t] = "release_del"
  /\ redis_up
  /\ gpu_lock' = None
  /\ story' = IF story = "calm" /\ \E u \in Thread \ {t} : held[u] = "redis"
              THEN "robbed" ELSE story
  /\ Released(t)
  /\ UNCHANGED <<fileVars, redis_up, alive, fallback>>

\* Every Redis error of the release is caught and counted.
ReleaseFails(t) ==
  /\ "outage" \in Faults
  /\ pc[t] \in {"release_get", "release_del"}
  /\ Released(t)
  /\ story' = "disturbed"
  /\ UNCHANGED <<lockVars, redis_up, alive, fallback>>

-----------------------------------------------------------------------------
\* The environment

\* Every SET gives the key a TTL.  Without "lapse" it outlasts every request,
\* so that the key expires only when no thread is using it.
Expire ==
  /\ gpu_lock # None
  /\ \/ "lapse" \in Faults /\ story' = "disturbed"
     \/ /\ \A t \in Thread : ProcOf[t] = gpu_lock => held[t] # "redis"
        /\ UNCHANGED story
  /\ gpu_lock' = None
  /\ UNCHANGED <<fileVars, redis_up, alive, threadVars>>

WatchdogClears ==
  /\ "watchdog" \in Faults
  /\ redis_up
  /\ gpu_lock # None
  /\ gpu_lock' = None
  /\ story' = "disturbed"
  /\ UNCHANGED <<fileVars, redis_up, alive, threadVars>>

\* The kernel drops the flock of a dead process; the key stays.
Crash(p) ==
  /\ "crash" \in Faults
  /\ alive[p]
  /\ alive' = [alive EXCEPT ![p] = FALSE]
  /\ pc' = [t \in Thread |-> IF ProcOf[t] = p THEN "dead" ELSE pc[t]]
  /\ held' = [t \in Thread |-> IF ProcOf[t] = p THEN "none" ELSE held[t]]
  /\ file_lock' = IF file_lock # None /\ ProcOf[file_lock] = p
                  THEN None ELSE file_lock
  /\ handle' = [handle EXCEPT ![p] = None]
  /\ story' = "disturbed"
  /\ fallback' = [t \in Thread |-> ProcOf[t] # p /\ fallback[t]]
  /\ UNCHANGED <<gpu_lock, redis_up>>

\* Redis may come back with or without the key.
RedisToggles ==
  /\ "outage" \in Faults
  /\ redis_up' = ~redis_up
  /\ gpu_lock' \in {gpu_lock, None}
  /\ story' = "disturbed"
  /\ UNCHANGED <<fileVars, alive, threadVars>>

Acquire(t) ==
  \/ StartAcquire(t) \/ SetIfAbsent(t) \/ FindDeadHolder(t) \/ Steal(t)
  \/ RedisFails(t) \/ Flock(t) \/ Keep(t) \/ AcquireTimesOut(t)

Execute(t) ==
  \/ RejectOversize(t) \/ Post(t) \/ PostReturns(t) \/ PostRaises(t)
  \/ ExternalReturns(t)

Release(t) ==
  \/ ReleaseFile(t) \/ Drop(t) \/ CompareOwner(t) \/ DeleteKey(t)
  \/ ReleaseFails(t)

Next ==
  \/ \E t \in Thread : Acquire(t) \/ Execute(t) \/ Release(t)
  \/ \E p \in Proc : Crash(p)
  \/ Expire
  \/ WatchdogClears
  \/ RedisToggles

Spec == Init /\ [][Next]_vars

\* The POST and every Redis command have timeouts, and Redis expires keys.
FairSpec ==
  /\ Spec
  /\ \A t \in Thread : WF_vars(Execute(t) \/ Release(t))
  /\ WF_vars(Expire)

-----------------------------------------------------------------------------
\* Properties

\* However many threads the processes have and however they interleave, also when
\* rejected prompts leak the lock: as long as the processes, Redis and the key
\* live and nobody has been robbed of the key, at most one POST is in flight.
MutualExclusion ==
  \A t, u \in Thread :
    story = "calm" /\ pc[t] = "posting" /\ pc[u] = "posting" => t = u

\* No process keeps the lock for ever: the leak of a rejected prompt and the key
\* of a dead holder are both cleared, with nobody waiting to steal it.
KeyIsFreed == \A p \in Proc : gpu_lock = p ~> gpu_lock # p

\* "No-op if already released in except blocks" is true of a process with one
\* worker only.  What is true of every process: the first release after a POST
\* never deletes a key that another thread holds, nor does any release of a thread
\* without siblings.  The thief is a thread that had released before and whose
\* sibling had the key when it compared the PIDs.
OnlySecondReleasesRob ==
  [][story # "robbed" /\ story' = "robbed" =>
       \E t, v \in Thread :
         t # v /\ ProcOf[t] = ProcOf[v] /\ pc[t] = "release_del" /\ held[t] = "none"]_vars

\* "no-op if not held" is no more true of the file lock, which a release takes from
\* a sibling.  Under every fault, nobody else does: a live holder of the file loses
\* the flock only to a release within its own process.
FileIsLostToSiblingsOnly ==
  [][\A u \in Thread :
       file_lock = u /\ file_lock' # u /\ held[u] = "file" /\ held'[u] = "file" =>
         \E t \in Thread \ {u} : ProcOf[t] = ProcOf[u] /\ pc[t] = "release_file"]_vars

\* "Prevents concurrent Metal operations", also while the lock of a dead process
\* is being stolen.
NoConcurrentMetalOperations ==
  \A t, u \in Thread : pc[t] = "posting" /\ pc[u] = "posting" => t = u

=============================================================================
