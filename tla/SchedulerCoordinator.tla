------------------------ MODULE SchedulerCoordinator ------------------------
(***************************************************************************)
(* The hand-over between the lite scheduler and Celery Beat by             *)
(* memory/scheduler_coordinator.py.  The coordinator is one process; its   *)
(* lite scheduler is a thread of it, Celery Beat a process of its own that *)
(* outlives it.  Every 30 s the monitor asks for the mode, hands over if   *)
(* it has changed, and then restarts what has died.                        *)
(*                                                                         *)
(* A failed start of Celery locks it out for ten minutes: in memory, and   *)
(* by a key in Redis.  The time of the lockout is one clock: locked tells  *)
(* whether the coordinator still compares below it, recent whether it has  *)
(* passed since Celery last failed.                                        *)
(*                                                                         *)
(* The two strikes of the CPU watchdog are one event (hot).  The PID file, *)
(* the state file and the notifications are left out, and so are a second  *)
(* coordinator and a lite scheduler that outlives the 5 s its stop waits.  *)
(***************************************************************************)
EXTENDS MachineMode

CONSTANT Commands   \* the commands that are used

ASSUME CommandsAssumption == Commands \subseteq {"status", "handoff"}

VARIABLES
  pc,           \* the coordinator: in start(), or where its monitor is
  mode,         \* _current_mode
  lite,         \* the thread of the lite scheduler runs
  failures,     \* _celery_consecutive_failures
  locked,       \* monotonic() < _celery_lockout_until
  hot,          \* the watchdog will see too much CPU for the second time
  lockout_key,  \* the lockout in Redis
  celery,       \* Celery Beat runs
  healthy,      \* it stays alive
  intended,     \* what get_mode() answers
  recent,       \* Celery failed less than ten minutes ago
  disturbed     \* the coordinator or Redis was lost, or a command was used

memory == <<mode, lite, failures, locked, hot>>
backend == <<celery, healthy, intended>>
vars == <<pc, memory, lockout_key, redis_up, backend, recent, disturbed, trouble>>

\* In start() and in the monitor: the 3 s after Celery was launched.
Starting == {"boot_start", "start"}

TypeOK ==
  /\ pc \in {"down", "asleep", "verify"} \cup Starting
  /\ mode \in Mode
  /\ lite \in BOOLEAN
  /\ failures \in 0 .. 2
  /\ locked \in BOOLEAN
  /\ hot \in BOOLEAN
  /\ lockout_key \in BOOLEAN
  /\ redis_up \in BOOLEAN
  /\ celery \in BOOLEAN
  /\ healthy \in BOOLEAN
  /\ intended \in Mode
  /\ recent \in BOOLEAN
  /\ disturbed \in BOOLEAN
  /\ trouble \in 0 .. MaxTrouble

Init ==
  /\ pc = "down"
  /\ mode = "lite"
  /\ lite = FALSE
  /\ failures = 0
  /\ locked = FALSE
  /\ hot = FALSE
  /\ lockout_key = FALSE
  /\ redis_up = TRUE
  /\ celery = FALSE
  /\ healthy \in BOOLEAN
  /\ intended \in Mode
  /\ recent = FALSE
  /\ disturbed = FALSE
  /\ trouble = 0

-----------------------------------------------------------------------------
\* Seeded faults: each replaces the operation it is named after to show that a
\* property notices the mistake.  None is part of the specification.

\* The lockout is not persisted.
LockOutInMemory ==
  /\ failures' = failures + 1
  /\ locked' = TRUE
  /\ recent' = TRUE
  /\ UNCHANGED lockout_key

\* The failures are never forgotten.
DetectModeOnly == UNCHANGED <<failures, lockout_key>>

\* The monitor checks only the lite scheduler, or only hands over.
VerifyLite ==
  /\ pc = "verify"
  /\ pc' = "asleep"
  /\ hot' = FALSE
  /\ lite' = (lite \/ hot \/ mode = "lite")
  /\ UNCHANGED <<mode, failures, locked, lockout_key, recent, redis_up, backend,
                 disturbed, trouble>>

VerifyNothing ==
  /\ pc = "verify"
  /\ pc' = "asleep"
  /\ hot' = FALSE
  /\ lite' = (lite \/ hot)
  /\ UNCHANGED <<mode, failures, locked, lockout_key, recent, redis_up, backend,
                 disturbed, trouble>>

-----------------------------------------------------------------------------
\* The lockout

\* _set_redis_lockout and _clear_redis_lockout do nothing without Redis.
KeySet == lockout_key \/ redis_up
KeyCleared == lockout_key /\ ~redis_up

\* "after 2+ consecutive failures", or after one that Redis remembers
SeesLockout == (lockout_key /\ redis_up) \/ failures >= 2

\* _detect_mode, and what it forgets of a lockout that is over
Detected == IF SeesLockout /\ locked THEN "lite" ELSE intended

DetectMode ==
  IF SeesLockout /\ ~locked
  THEN failures' = 0 /\ lockout_key' = KeyCleared
  ELSE UNCHANGED <<failures, lockout_key>>

LockOut ==
  /\ failures' = failures + 1
  /\ locked' = TRUE
  /\ lockout_key' = KeySet
  /\ recent' = TRUE

-----------------------------------------------------------------------------
\* The coordinator

\* A process that is launched may be gone at once if it is not healthy.
Launched == IF healthy THEN {TRUE} ELSE BOOLEAN

\* _is_celery_running takes a pgrep that fails, or that does not end in 5 s, for a no.
\* Where heavy mode begins it is asked twice: Celery is found at once, or by
\* _start_celery_beat, which then forgets the failures.
FindsCelery ==
  /\ celery
  /\ UNCHANGED celery
  /\ \/ DetectMode /\ UNCHANGED trouble
     \/ Trouble /\ failures' = 0 /\ lockout_key' = KeyCleared

MissesCelery == IF celery THEN Trouble ELSE UNCHANGED trouble

\* Celery does not run, or is overlooked twice and gets a second process.
LaunchesCelery ==
  /\ DetectMode
  /\ \/ ~celery /\ celery' \in Launched /\ UNCHANGED trouble
     \/ celery /\ Trouble /\ UNCHANGED celery

\* The start of the process up to its monitor loop.
Start ==
  /\ pc = "down"
  /\ mode' = Detected
  /\ \/ /\ Detected = "lite"
        /\ DetectMode
        /\ lite' = TRUE
        /\ pc' = "asleep"
        /\ UNCHANGED <<celery, trouble>>
     \/ Detected = "heavy" /\ FindsCelery /\ pc' = "asleep" /\ UNCHANGED lite
     \/ Detected = "heavy" /\ LaunchesCelery /\ pc' = "boot_start" /\ UNCHANGED lite
  /\ UNCHANGED <<locked, hot, redis_up, healthy, intended, recent, disturbed>>

\* The monitor detects the mode and hands over.
Keeps ==
  /\ Detected = mode
  /\ DetectMode
  /\ pc' = "verify"
  /\ UNCHANGED <<mode, lite, celery, trouble>>

HandsToLite ==
  /\ Detected = "lite" /\ mode = "heavy"
  /\ DetectMode
  /\ mode' = "lite"
  /\ lite' = TRUE
  /\ pc' = "verify"
  /\ UNCHANGED <<celery, trouble>>

HandsToHeavy ==
  /\ Detected = "heavy" /\ mode = "lite"
  /\ lite' = FALSE
  /\ \/ FindsCelery /\ mode' = "heavy" /\ pc' = "verify"
     \/ LaunchesCelery /\ pc' = "start" /\ UNCHANGED mode

Tick ==
  /\ pc = "asleep"
  /\ Keeps \/ HandsToLite \/ HandsToHeavy
  /\ UNCHANGED <<locked, hot, redis_up, healthy, intended, recent, disturbed>>

\* The end of _start_celery_beat: Celery has survived its 3 s, or the lite
\* scheduler takes over ("never leave mansion unattended").
CeleryChecked ==
  /\ pc \in Starting
  /\ pc' = IF pc = "start" THEN "verify" ELSE "asleep"
  /\ \/ /\ celery
        /\ mode' = "heavy"
        /\ failures' = 0
        /\ lockout_key' = KeyCleared
        /\ UNCHANGED <<lite, locked, recent, trouble>>
     \/ MissesCelery /\ LockOut /\ mode' = "lite" /\ lite' = TRUE
  /\ UNCHANGED <<hot, redis_up, backend, disturbed>>

\* The watchdog restarts the lite scheduler in whatever mode; then the scheduler
\* of the mode is checked.
Verify ==
  /\ pc = "verify"
  /\ pc' = "asleep"
  /\ hot' = FALSE
  /\ \/ mode = "heavy" /\ MissesCelery /\ LockOut /\ mode' = "lite"
     \/ /\ mode = "lite" \/ celery
        /\ UNCHANGED <<failures, locked, lockout_key, recent, mode, trouble>>
  /\ lite' = (lite \/ hot \/ mode' = "lite")
  /\ UNCHANGED <<redis_up, backend, disturbed>>

-----------------------------------------------------------------------------
\* Time, faults and commands

\* A key that is older than the last failure may expire before it is forgotten.
KeyExpires ==
  /\ lockout_key
  /\ ~recent \/ disturbed
  /\ lockout_key' = FALSE
  /\ UNCHANGED <<pc, memory, redis_up, backend, recent, disturbed, trouble>>

LockoutElapses ==
  /\ recent
  /\ recent' = FALSE
  /\ locked' = FALSE
  /\ UNCHANGED <<pc, mode, lite, failures, hot, lockout_key, redis_up, backend,
                 disturbed, trouble>>

CeleryDies ==
  /\ celery /\ ~healthy
  /\ celery' = FALSE
  /\ UNCHANGED <<pc, memory, lockout_key, redis_up, healthy, intended, recent,
                 disturbed, trouble>>

CeleryMended ==
  /\ ~healthy
  /\ healthy' = TRUE
  /\ UNCHANGED <<pc, memory, lockout_key, redis_up, celery, intended, recent,
                 disturbed, trouble>>

CeleryBreaks ==
  /\ Trouble
  /\ healthy
  /\ healthy' = FALSE
  /\ UNCHANGED <<pc, memory, lockout_key, redis_up, celery, intended, recent, disturbed>>

\* mode_switch or an operator changes the mode.
IntendedChanges ==
  /\ Trouble
  /\ intended' \in Mode \ {intended}
  /\ UNCHANGED <<pc, memory, lockout_key, redis_up, celery, healthy, recent, disturbed>>

LiteDies ==
  /\ Trouble
  /\ lite
  /\ lite' = FALSE
  /\ UNCHANGED <<pc, mode, failures, locked, hot, lockout_key, redis_up, backend,
                 recent, disturbed>>

\* The interval that is watched may be one in which the thread was stopped.
LiteSpins ==
  /\ Trouble
  /\ lite /\ ~hot
  /\ hot' = TRUE
  /\ UNCHANGED <<pc, mode, lite, failures, locked, lockout_key, redis_up, backend,
                 recent, disturbed>>

\* Redis keeps its data while it is away, or loses them.
RedisToggles ==
  /\ Trouble
  /\ redis_up' = ~redis_up
  /\ lockout_key' \in {lockout_key, FALSE}
  /\ disturbed' = TRUE
  /\ UNCHANGED <<pc, memory, backend, recent>>

\* stop(), a signal or a crash: the lockout in memory and the thread are gone.
Stops ==
  /\ Trouble
  /\ pc # "down"
  /\ pc' = "down"
  /\ mode' = "lite"
  /\ lite' = FALSE
  /\ failures' = 0
  /\ locked' = FALSE
  /\ hot' = FALSE
  /\ disturbed' = TRUE
  /\ UNCHANGED <<lockout_key, redis_up, backend, recent>>

\* The commands make a coordinator of their own, without failures and without a
\* lockout in memory, and call its _detect_mode: a key in Redis looks outdated.
KeySeenByCommand == KeyCleared

Status ==
  /\ "status" \in Commands
  /\ Trouble
  /\ lockout_key' = KeySeenByCommand
  /\ disturbed' = TRUE
  /\ UNCHANGED <<pc, memory, redis_up, backend, recent>>

\* "handoff" starts Celery beside whatever the coordinator is running, and overlooks
\* a Celery that runs as the coordinator does.
Handoff ==
  /\ "handoff" \in Commands
  /\ Trouble
  /\ intended = "heavy"
  /\ celery' \in IF celery THEN {TRUE} ELSE Launched
  /\ \/ celery' /\ lockout_key' = KeySeenByCommand /\ UNCHANGED recent
     \/ lockout_key' = (KeySeenByCommand \/ KeySet) /\ recent' = TRUE
  /\ disturbed' = TRUE
  /\ UNCHANGED <<pc, memory, redis_up, healthy, intended>>

-----------------------------------------------------------------------------

Monitor == Tick \/ CeleryChecked \/ Verify

Environment ==
  \/ KeyExpires \/ LockoutElapses \/ CeleryDies \/ CeleryMended \/ CeleryBreaks
  \/ IntendedChanges \/ LiteDies \/ LiteSpins \/ RedisToggles

Next == Start \/ Monitor \/ Environment \/ Stops \/ Status \/ Handoff

Spec == Init /\ [][Next]_vars

\* The monitor wakes up, every call in it has a timeout, and time passes.
FairSpec ==
  /\ Spec
  /\ WF_vars(Monitor)
  /\ WF_vars(LockoutElapses)

-----------------------------------------------------------------------------
\* Properties

\* "prevents crash-loop": after Celery failed, to start or later, the coordinator
\* does not launch it again for ten minutes, as long as Redis and the coordinator
\* live and nobody uses its commands.
LockoutIsKept ==
  [][pc \notin Starting /\ pc' \in Starting /\ ~disturbed => ~recent]_vars

\* "never leave mansion unattended": while the coordinator runs, some scheduler
\* always comes back.
NeverUnattended == pc # "down" ~> lite \/ celery \/ pc = "down"

\* A heavy mode that stays possible is reached and kept, whatever lockouts and
\* failures came before.
HeavyIsReached ==
  <>[](intended = "heavy" /\ healthy /\ pc # "down") => <>[](mode = "heavy" /\ celery)

\* "Lockout state will survive coordinator restarts": a coordinator that starts
\* while the lockout is in Redis does not launch Celery.
LockoutSurvivesRestart ==
  [][pc = "down" /\ pc' = "boot_start" => ~(lockout_key /\ redis_up /\ recent)]_vars

=============================================================================
