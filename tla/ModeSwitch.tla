----------------------------- MODULE ModeSwitch -----------------------------
(***************************************************************************)
(* The mode switch of memory/mode_switch.py with the write freeze of       *)
(* memory/write_freeze.py: a pipeline of stages, each of which may fail,   *)
(* and a rollback.  An operator is one run of the command line, and every  *)
(* one is a process of its own; a writer is whoever commits through        *)
(* db_utils, which asks for the freeze once, at some time before it        *)
(* commits: safe_conn asks just before, ThreadSafeConnection when a        *)
(* statement is executed, and either may then wait for SQLite's locks for  *)
(* longer than the second that LOCK sleeps.                                *)
(*                                                                         *)
(* FLIP ends by its timeout, always: it waits for the key                  *)
(* contextdna:scheduler:current_mode, which nothing writes, or for the     *)
(* field current_mode of the coordinator's state file, which the           *)
(* coordinator calls mode.  So every run ends in the rollback, and WARMUP  *)
(* and UNLOCK, which come after FLIP, are not in the model.                *)
(*                                                                         *)
(* Left out: workspaces, which the command line does not use, the posture  *)
(* and the history, which are only displayed, the switch of the event log, *)
(* which belongs to the process of the operator and ends with it, and the  *)
(* heartbeat, which writes the configuration file as well.                 *)
(***************************************************************************)
EXTENDS MachineMode

CONSTANTS
  Operators,   \* runs of the command line that may coexist
  Writers      \* users of db_utils

VARIABLES
  stage,     \* where each run is
  plan,      \* from_mode and to_mode of each run
  unchanged, \* the event log is the one of the run's snapshot
  lock,      \* contextdna:mode:migration_in_progress exists
  frozen,    \* contextdna:write_freeze exists
  fresh,     \* and has not lived for its time since it was last set
  truth,     \* contextdna:mode:truth_pointer
  config,    \* .heartbeat_config.json
  checked,   \* the writer has found no freeze and will commit
  origins,   \* from_modes of the runs since the last time nobody ran
  exposed,   \* since then the freeze was lost, or two runs coexisted
  faulted    \* since then a run or Redis was lost, or a rollback failed

run == <<stage, plan, unchanged>>
freezeKey == <<frozen, fresh>>
store == <<lock, freezeKey, truth, redis_up>>
history == <<origins, exposed, faulted, trouble>>
switchVars == <<run, store, config, checked, history>>

Plans == {p \in [from : Mode, to : Mode] : p.from # p.to}
NoPlan == [from |-> "none", to |-> "none"]

Pointers == {t \in [mode : Mode, from_mode : Mode] : t.mode # t.from_mode}
NoTruth == [mode |-> "none", from_mode |-> "none"]

\* The stages of a run that has frozen the writes: from DRAIN on nobody else is to
\* write.
Frozen == {"broadcast", "settle", "drain", "snapshot", "replay",
           "flip", "cache", "cache_write", "poll"}

Stages == {"preflight", "lock", "freeze"} \cup Frozen

Rollback == {"restore", "restore_write", "revert", "set_back", "thaw", "unlock"}

SwitchTypeOK ==
  /\ stage \in [Operators -> {"idle"} \cup Stages \cup Rollback]
  /\ plan \in [Operators -> Plans \cup {NoPlan}]
  /\ unchanged \in [Operators -> BOOLEAN]
  /\ \A o \in Operators : (stage[o] = "idle") <=> (plan[o] = NoPlan)
  /\ lock \in BOOLEAN
  /\ frozen \in BOOLEAN
  /\ fresh \in BOOLEAN
  /\ fresh => frozen
  /\ truth \in Pointers \cup {NoTruth}
  /\ redis_up \in BOOLEAN
  /\ config \in {"absent", "whole", "torn"}
  /\ checked \subseteq Writers
  /\ origins \subseteq Mode
  /\ exposed \in BOOLEAN
  /\ faulted \in BOOLEAN
  /\ trouble \in 0 .. MaxTrouble

SwitchInit ==
  /\ stage = [o \in Operators |-> "idle"]
  /\ plan = [o \in Operators |-> NoPlan]
  /\ unchanged = [o \in Operators |-> TRUE]
  /\ lock = FALSE
  /\ frozen = FALSE
  /\ fresh = FALSE
  /\ truth \in Pointers \cup {NoTruth}
  /\ redis_up = TRUE
  /\ config \in {"absent", "whole"}
  /\ checked = {}
  /\ origins = {truth.mode} \cap Mode
  /\ exposed = FALSE
  /\ faulted = FALSE
  /\ trouble = 0

-----------------------------------------------------------------------------
\* A run begins, goes from one step to the next, and ends.

Goes(o, step) == stage[o] # step /\ stage' = [stage EXCEPT ![o] = step]

Ends(o) ==
  /\ stage' = [stage EXCEPT ![o] = "idle"]
  /\ plan' = [plan EXCEPT ![o] = NoPlan]
  /\ unchanged' = [unchanged EXCEPT ![o] = TRUE]

NobodyRuns == \A o \in Operators : stage[o] = "idle"

-----------------------------------------------------------------------------
\* Seeded faults: each replaces the operation it is named after to show that a
\* property notices the mistake.  None is part of the specification.

\* main() does not compare its two arguments.
TransitionsUnchecked == [from : Mode, to : Mode]

\* LOCK freezes the key of a workspace, for which no writer asks.
FreezeElsewhere(o) ==
  /\ stage[o] = "freeze"
  /\ Goes(o, "broadcast")
  /\ UNCHANGED <<plan, unchanged, store, config, checked, history>>

\* The rollback trusts that FLIP was not reached.
MentionsNothing(o) == FALSE

\* The rollback leaves the freeze to its time to live.
ThawNothing(o) ==
  /\ stage[o] = "thaw"
  /\ Goes(o, "unlock")
  /\ UNCHANGED <<plan, unchanged, store, config, checked, history>>

-----------------------------------------------------------------------------
\* The stages

\* The arguments that main() accepts.
Transitions == Plans

\* main() does not ask which mode is the present one.
Begin(o) ==
  /\ stage[o] = "idle"
  /\ stage' = [stage EXCEPT ![o] = "preflight"]
  /\ \E p \in Transitions :
       /\ plan' = [plan EXCEPT ![o] = p]
       /\ origins' = (IF NobodyRuns THEN {} ELSE origins) \cup {p.from}
  /\ exposed' = (~NobodyRuns \/ ~redis_up)
  /\ faulted' = (~redis_up \/ (faulted /\ ~NobodyRuns))
  /\ UNCHANGED <<unchanged, store, config, checked, trouble>>

\* A lock that exists, and whatever else may fail the tests.
Preflight(o) ==
  /\ stage[o] = "preflight"
  /\ \/ redis_up /\ ~lock /\ Goes(o, "lock")
     \/ Goes(o, "restore")
  /\ UNCHANGED <<plan, unchanged, store, config, checked, history>>

\* setex, whether or not somebody has set the lock since.
Lock(o) ==
  /\ stage[o] = "lock"
  /\ Goes(o, IF redis_up THEN "freeze" ELSE "restore")
  /\ lock' = (lock \/ redis_up)
  /\ UNCHANGED <<plan, unchanged, freezeKey, truth, redis_up, config, checked, history>>

\* setex, which gives a freeze that exists its full time again.  freeze() fails open.
Freeze(o) ==
  /\ stage[o] = "freeze"
  /\ Goes(o, "broadcast")
  /\ frozen' = (frozen \/ redis_up)
  /\ fresh' = (fresh \/ redis_up)
  /\ UNCHANGED <<plan, unchanged, lock, truth, redis_up, config, checked, history>>

Broadcast(o) ==
  /\ stage[o] = "broadcast"
  /\ Goes(o, IF redis_up THEN "settle" ELSE "restore")
  /\ UNCHANGED <<plan, unchanged, store, config, checked, history>>

\* sleep(1.0) waits for nobody.
Settle(o) ==
  /\ stage[o] = "settle"
  /\ Goes(o, "drain")
  /\ UNCHANGED <<plan, unchanged, store, config, checked, history>>

Drain(o) ==
  /\ stage[o] = "drain"
  /\ Goes(o, "snapshot") \/ Goes(o, "restore")
  /\ UNCHANGED <<plan, unchanged, store, config, checked, history>>

Snapshot(o) ==
  /\ stage[o] = "snapshot"
  /\ Goes(o, "replay") \/ Goes(o, "restore")
  /\ UNCHANGED <<plan, unchanged, store, config, checked, history>>

\* The event log is compared with the snapshot.
Replay(o) ==
  /\ stage[o] = "replay"
  /\ Goes(o, IF unchanged[o] THEN "flip" ELSE "restore")
  /\ unchanged' = [unchanged EXCEPT ![o] = TRUE]
  /\ UNCHANGED <<plan, store, config, checked, history>>

Flip(o) ==
  /\ stage[o] = "flip"
  /\ IF redis_up
     THEN /\ truth' = [mode |-> plan[o].to, from_mode |-> plan[o].from]
          /\ Goes(o, "cache")
     ELSE Goes(o, "restore") /\ UNCHANGED truth
  /\ UNCHANGED <<plan, unchanged, lock, freezeKey, redis_up, config, checked, history>>

\* open(..., "w") empties the file, dump fills it.  A file that cannot be parsed
\* is left as it is.
Cache(o) ==
  /\ stage[o] = "cache"
  /\ IF config = "torn"
     THEN Goes(o, "poll") /\ UNCHANGED config
     ELSE Goes(o, "cache_write") /\ config' = "torn"
  /\ UNCHANGED <<plan, unchanged, store, checked, history>>

CacheWrite(o) ==
  /\ stage[o] = "cache_write"
  /\ Goes(o, "poll")
  /\ config' = "whole"
  /\ UNCHANGED <<plan, unchanged, store, checked, history>>

\* Nothing reports the new mode where FLIP looks for it.
Poll(o) ==
  /\ stage[o] = "poll"
  /\ Goes(o, "restore")
  /\ UNCHANGED <<plan, unchanged, store, config, checked, history>>

-----------------------------------------------------------------------------
\* The rollback

\* A file that cannot be parsed ends the rollback before it has begun.
Restore(o) ==
  /\ stage[o] = "restore"
  /\ CASE config = "absent" -> /\ Goes(o, "revert")
                               /\ UNCHANGED <<plan, unchanged, config, faulted>>
       [] config = "whole" -> /\ Goes(o, "restore_write")
                              /\ config' = "torn"
                              /\ UNCHANGED <<plan, unchanged, faulted>>
       [] config = "torn" -> /\ Ends(o)
                             /\ faulted' = TRUE
                             /\ UNCHANGED config
  /\ UNCHANGED <<store, checked, origins, exposed, trouble>>

RestoreWrite(o) ==
  /\ stage[o] = "restore_write"
  /\ Goes(o, "revert")
  /\ config' = "whole"
  /\ UNCHANGED <<plan, unchanged, store, checked, history>>

\* to_mode is looked for in the text, which names both modes.
Mentions(o) == plan[o].to \in {truth.mode, truth.from_mode}

Revert(o) ==
  /\ stage[o] = "revert"
  /\ Goes(o, IF redis_up /\ Mentions(o) THEN "set_back" ELSE "thaw")
  /\ UNCHANGED <<plan, unchanged, store, config, checked, history>>

\* A failure is logged, and the rollback goes on.
SetBack(o) ==
  /\ stage[o] = "set_back"
  /\ Goes(o, "thaw")
  /\ truth' = IF redis_up
              THEN [mode |-> plan[o].from, from_mode |-> plan[o].to]
              ELSE truth
  /\ UNCHANGED <<plan, unchanged, lock, freezeKey, redis_up, config, checked, history>>

Thaw(o) ==
  /\ stage[o] = "thaw"
  /\ Goes(o, "unlock")
  /\ frozen' = (frozen /\ ~redis_up)
  /\ fresh' = (fresh /\ ~redis_up)
  /\ UNCHANGED <<plan, unchanged, lock, truth, redis_up, config, checked, history>>

\* The lock is deleted whoever has set it.
Unlock(o) ==
  /\ stage[o] = "unlock"
  /\ Ends(o)
  /\ lock' = (lock /\ ~redis_up)
  /\ faulted' = (faulted \/ ~redis_up)
  /\ UNCHANGED <<freezeKey, truth, redis_up, config, checked, origins, exposed, trouble>>

-----------------------------------------------------------------------------
\* Writers

\* _check_write_freeze fails open.
Check(w) ==
  /\ w \notin checked
  /\ ~frozen \/ ~redis_up
  /\ checked' = checked \cup {w}
  /\ UNCHANGED <<run, store, config, history>>

Commit(w) ==
  /\ w \in checked
  /\ checked' = checked \ {w}
  /\ UNCHANGED <<run, store, config, history>>

\* The event log of other processes is not frozen.
Emit ==
  /\ \E o \in Operators : stage[o] = "replay" /\ unchanged[o]
  /\ unchanged' = [o \in Operators |-> unchanged[o] /\ stage[o] # "replay"]
  /\ UNCHANGED <<stage, plan, store, config, checked, history>>

-----------------------------------------------------------------------------
\* Time and faults

LockExpires ==
  /\ lock
  /\ lock' = FALSE
  /\ UNCHANGED <<run, freezeKey, truth, redis_up, config, checked, history>>

\* Both keys live for 300 s after they were last set.
FreezeAges ==
  /\ fresh
  /\ fresh' = FALSE
  /\ UNCHANGED <<run, lock, frozen, truth, redis_up, config, checked, history>>

FreezeExpires ==
  /\ frozen /\ ~fresh
  /\ frozen' = FALSE
  /\ exposed' = (exposed \/ ~NobodyRuns)
  /\ UNCHANGED <<run, lock, fresh, truth, redis_up, config, checked, origins, faulted,
                 trouble>>

\* The process ends: the file that it was writing stays empty.
Crash(o) ==
  /\ Trouble
  /\ stage[o] # "idle"
  /\ Ends(o)
  /\ faulted' = TRUE
  /\ UNCHANGED <<store, config, checked, origins, exposed>>

\* Redis keeps its keys while it is away.
RedisLost ==
  /\ Trouble
  /\ redis_up
  /\ redis_up' = FALSE
  /\ exposed' = TRUE
  /\ faulted' = TRUE
  /\ UNCHANGED <<run, lock, freezeKey, truth, config, checked, origins>>

RedisBack ==
  /\ ~redis_up
  /\ redis_up' = TRUE
  /\ UNCHANGED <<run, lock, freezeKey, truth, config, checked, history>>

-----------------------------------------------------------------------------

Stage(o) ==
  \/ Preflight(o) \/ Lock(o) \/ Freeze(o) \/ Broadcast(o) \/ Settle(o)
  \/ Drain(o) \/ Snapshot(o) \/ Replay(o)
  \/ Flip(o) \/ Cache(o) \/ CacheWrite(o) \/ Poll(o)

RollsBack(o) ==
  \/ Restore(o) \/ RestoreWrite(o) \/ Revert(o) \/ SetBack(o) \/ Thaw(o) \/ Unlock(o)

SwitchNext ==
  \/ \E o \in Operators : Begin(o) \/ Stage(o) \/ RollsBack(o) \/ Crash(o)
  \/ \E w \in Writers : Check(w) \/ Commit(w)
  \/ Emit \/ LockExpires \/ FreezeAges \/ FreezeExpires \/ RedisLost \/ RedisBack

SwitchSpec == SwitchInit /\ [][SwitchNext]_switchVars

\* Every wait of a run has a timeout, and time passes.  Runs are begun at will.
FairSwitchSpec ==
  /\ SwitchSpec
  /\ \A o \in Operators : WF_switchVars(Stage(o) \/ RollsBack(o))
  /\ WF_switchVars(FreezeAges) /\ WF_switchVars(FreezeExpires)

-----------------------------------------------------------------------------
\* Properties

\* From the broadcast of the freeze to the end of FLIP no further write passes the
\* check, as long as runs do not overlap, the freeze outlives the run, and Redis
\* answers.  More cannot be said: a write that asked before the freeze may commit at
\* any time, in DRAIN, between SNAPSHOT and FLIP, or later, because the second that
\* LOCK sleeps "for in-flight writes to complete" waits for none of them.
NoFurtherWrites ==
  [][~exposed /\ (\E o \in Operators : stage[o] \in Frozen)
       => checked' \subseteq checked]_switchVars

\* When nobody runs any more and no run, no rollback and no Redis was lost on the
\* way, nothing is frozen or locked, and the truth pointer names a mode that one
\* of the runs started from: however many runs overlap, refuse each other or undo
\* each other's steps, none of them is left half done ("either complete or fully
\* rolled back").
NothingHalfDone ==
  NobodyRuns /\ ~faulted =>
    /\ ~frozen
    /\ ~lock
    /\ truth = NoTruth \/ truth.mode \in origins

\* A rollback ends at a configuration file that cannot be parsed.
RollbackDies ==
  \E o \in Operators : stage[o] = "restore" /\ config = "torn" /\ stage'[o] = "idle"

\* Writes resume again and again, even if runs are begun for ever, each of them
\* renews the freeze, and some crash, are refused or find Redis away when they thaw
\* ("prevents permanent lockout").  The one way to keep writes frozen is to begin
\* runs for ever whose rollbacks end, again and again, at a torn file.
WritesResume == []<>~frozen \/ []<><<RollbackDies>>_switchVars

=============================================================================
