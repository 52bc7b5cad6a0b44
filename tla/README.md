# A verification of ContextDNA's shared services

ContextDNA runs many processes on one machine, and a fleet of machines beside
each other. This project models the places where they meet:

* the way to the language model. One local server can execute a single Metal
  operation at a time; every process reaches it through

      callers -> anticipation backpressure -> circuit breaker -> priority queue
              -> worker threads -> cross-process GPU lock -> model server

* the fleet: daemons that deliver messages to each other's sessions and repair a
  peer that struggles;
* the machine: two schedulers that take turns, the pipeline that switches the
  machine between its light and its heavy mode, and the stores that are kept in
  step in both modes.

TLA+ modules describe these parts. TLC checks them on small instances; TLAPS
proves every safety property that the runs check, and the safety part of both
refinements and of four liveness properties, for every size.

## Inventory

| Component | Source | State it keeps | Operations | Hard behaviour | In |
|---|---|---|---|---|---|
| Circuit breaker | `services/queue/circuit_breaker.py` | three-valued state, timeout counter, latency window, time of opening, last-good cache and its FIFO order | `call` (pre-flight, generator, recording, fallback), `reset` | the lock is not held during the generator call, so results come back in any state | `CircuitBreaker` |
| Priority queue | `memory/llm_priority_queue.py` | heap, pending list, events of requests, one semaphore and one counter per priority | `llm_generate`, `llm_generate_with_thinking`, `_worker_loop` | preemption by flags, permits awaited after the dequeue, callers that give up | `LLMQueue` |
| GPU lock | `memory/llm_priority_queue.py` | Redis key `llm:gpu_lock`, flock on a file, cached belief that Redis is up | `_acquire_gpu_lock`, `_execute_llm_request`, `_release_gpu_lock` | 11 workers that share one PID and one descriptor, TTLs, stealing, Redis outages, crashes | `GpuLock` |
| Anticipation backpressure | `services/backpressure/` | one semaphore per event loop, window of waits, cooldown | submit (async, sync), resize | a semaphore replaced while it is held | `Backpressure` |
| Fleet peer assist | `tools/fleet_nerve_nats.py` 8900-9260 | struggle counters, claims, back-off, rate limits, running repairs | struggle signal, claim, duel, repair, result | claims cross on the bus; messages get lost; claimers die | `PeerAssist` |
| Fleet message delivery | `tools/fleet_nerve_nats.py`, `fleet_nerve_store.py` | stored rows, tracker entries and their awaiter tasks | `send_with_fallback`, tracking, ack, retry loop, watchdog | two retry mechanisms on both sides, a cancelled task that removes its successor's registration | `FleetDelivery` |
| Bidirectional sync | `engine/.../bidirectional_sync.py`, `profile_store.py` | two databases, a queue of changes, mode, health | save, queue, replay in three places | failover in the middle of a replay, the end of a process between a save and the mark of its row, several processes | `StoreSync` |
| Scheduler coordinator | `memory/scheduler_coordinator.py` | mode, lite thread, Celery process, lockout in memory and in Redis | start, monitor, hand-over, CPU watchdog, commands | a lockout that lives in two places, schedulers that die during a hand-over | `SchedulerCoordinator` |
| Mode switch | `memory/mode_switch.py`, `write_freeze.py`, `db_utils.py` | migration lock, write freeze, truth pointer, configuration file | eight stages and a rollback | runs that overlap and undo each other, TTLs, writers past their check | `ModeSwitch` |
| Fleet task chains | `tools/fleet_nerve_nats.py` 3900-4760 | chains in memory | start, step, complete | messages repeated or lost, restarts | plan |
| Evented writes | `memory/evented_write.py` | append-only log, tip of its hash chain | emit, verify | one tip per process, one file for all | plan |
| Advisory and recovery locks | `memory/sync_lock.py`, `recovery_lock.py` | a PostgreSQL advisory lock, a Redis key | acquire, release | release without a test of ownership | plan |
| Unified sync and recovery | `memory/unified_sync.py`, recovery daemons | database copies, container state | sync, start, stop | long sequences of which any step fails | no |
| Fleet chief | `contextdna/fleet/`, `tools/multifleet_*.py` | packets, decisions, adjudications | ingest, synthesise, adjudicate, send | packets marked read before they are acted upon | plan |
| Memory stores, session history | `memory/` | SQLite stores | insert, query, extract | mostly one process each | no |
| Agent service, webhooks, proxy, MCP servers | `memory/agent_service.py`, `tools/`, `mcp-servers/` | none of their own beyond requests | HTTP handlers, adapters | the concurrency is that of the queue | no |
| Scripts, containers, docs, data | `scripts/`, `infra/`, `docs/` ... | none | shell and configuration | none that can be checked here | no |

What makes each modelled part correct, in a line: the breaker never gets
stuck, never closes on the word of a late call, and recovers; the queue loses no
request and no permit and does not execute what it reports as preempted; the lock
lets one request at a time reach the server until a fault or a second release defeats
it, and its key is never kept for ever; the backpressure loses no slot and forgets no waiter when it resizes; one node repairs a
target and somebody always does; a message arrives and its repetitions end; a
saved profile is in PostgreSQL or has a row in the queue (which is less than being on
its way there: no replay reads a row that has failed or that is queued for SQLite);
Celery is not launched into a crash loop and some scheduler always comes back; a mode
switch lets no new write in before its end, leaves nothing half done, and writes resume.

The parts interact by plain calls (backpressure calls the breaker, which calls
`llm_generate`), by shared memory under different locks (the queue's heap, pending
list, counters and semaphores each have their own), through Redis (GPU lock,
lockout, freeze, mode keys), through files (flock, configuration, event log), and
over NATS and HTTP between daemons. The coordinator's CPU watchdog reaches into the
GPU lock and deletes it; the mode switch waits for a report of the coordinator.

## Modules

* `AdmissionControl` is the abstract specification of a circuit breaker: who may
  enter the backend in which state, and which finished call may change the state.
  It knows nothing of timeouts, latencies or caches.
* `CircuitBreaker` is the code. A call is the sequence the code makes of it: read
  the clock, `_pre_call` under the lock, the generator outside it, `_record_success`
  or `_record_failure` under the lock, `_serve_fallback` under the lock again.
  `ImplementsAdmissionControl` is the refinement: the callers inside the backend are
  those whose `pc` is `"inflight"`.
* `PriorityPool` is the abstract specification of a queue with priorities: each request
  is answered once, by an execution beside fewer than `Cap` others of its priority, or
  by a rejection before any of it was executed, for the sake of somebody more urgent.
  It knows nothing of heaps, workers, semaphores and events.
* `LLMQueue` is the priority queue. One action per critical section of a caller
  (`Submit`, `Preempt`, `Track`, `Put`, `Return`) and per step of a worker (`Get`,
  `AcquirePermit`, `BumpInflight`, `Finish`, `DropInflight`, `ReleasePermit`).
  `llm_generate_with_thinking` is the second disjunct of `Submit`: it goes straight
  to `Put`. `ImplementsPriorityPool` is the refinement: a request waits while it is in
  the heap or its worker has no permit and counter yet, and is rejected when it is
  answered as `preempted_in_queue`.
* `GpuLock` is the lock and the request that holds it, in the worker threads of several
  processes. Every Redis command is a step; `held` is what the thread believes,
  `gpu_lock` what Redis says. `file_lock` is the flock, `handle` the one descriptor that
  each process keeps in `_acquire_file_lock._fd`: threads replace it (`Keep`), unlock it
  and forget it (`ReleaseFile`, `Drop`) whoever of them took the lock. The constant
  `Faults` names what may go wrong; the history variable `story` tells whether a thread
  has deleted the key of another one (`"robbed"`), or one of the faults has struck that the
  lock is not proof against (`"disturbed"`).
* `Backpressure` is the semaphore in front of the breaker. `Fetch` gets or makes the
  semaphore, `Acquire` includes the first critical section of `_maybe_resize`,
  `Resize` is `_resize_to`, `Stamp` the last critical section, `Release` goes to the
  semaphore the submission acquired. Submissions of one loop interleave only at an
  `await` (`HasLoop`), those of two loops everywhere.
* `PeerAssist` is the repair by quorum. `HealFails` counts and publishes the
  struggle, `HandleStruggleSignal` claims, `HandleAssistClaim` decides a duel on each
  side by itself (`Beats`), `ExecuteAssist` is the end of the wait, `RepairEnds` and
  `HandleRepairResult` close the round. `PeerAnswers` is a fresh heartbeat or ping, which
  resets the counter, `RepairElsewhere` another path that takes the cooldown. One action
  per NATS callback.
* `FleetDelivery` is one message between two daemons: the sends in progress by who
  asked for them, the row in each store, the tracker's entry with its awaiter and
  its registration, the copies and acknowledgements on NATS. `strays` are awaiters
  whose registration was removed by the `finally` block of a predecessor.
* `StoreSync` is saves, failover and replay by several processes over PostgreSQL and
  one SQLite file with the queue and the mode. A replay takes two steps for a row: it
  saves the profile (`Replay`), and then marks the row (`MarkRow`); `marks` is what it has
  in hand between the two, where another process may replay the same row or the process
  may end.
* `MachineMode` is what the next two have in common: the two modes, and the Redis both
  write to, with the bound on what may go wrong.
* `SchedulerCoordinator` is one coordinator, its lite thread and Celery Beat. The
  monitor is three steps (detect and hand over, wait after a launch, verify). What `pgrep`
  says of Celery may be an error, which the code takes for "not running"
  (`MissesCelery`).
* `ModeSwitch` is the pipeline as the command line runs it, one action per step that
  touches shared state, with writers that ask for the freeze once and commit at any time
  after that. `fresh` is the time of the freeze's key, which every freeze renews. Its
  definitions are called `SwitchInit`, `SwitchNext`, `SwitchSpec`, `SwitchTypeOK`, because
  `MachineModeProofs` extends it together with the coordinator. The mode that the
  coordinator calls `intended` is the one that the pipeline's truth pointer names.

`...Proofs` modules hold the theorems, `MC...` modules the values of constants
for TLC. A section of seeded faults in each detailed module, or a definition marked so
in `StoreSync` and `FleetDelivery`, holds plausible mistakes (a dropped guard, a
forgotten release, a missing reset). They are not part of any specification. Putting
one in the place of the operation it is named after must make a named property fail;
this shows that the property would notice the mistake.

### What the models abstract

* Breaker: the timeout counter saturates at its limit; a latency is fast or slow,
  a cache entry fresh or expired; a call's cache key is chosen when it is first
  used; counters are left out. `probing` and `healthy` are history and environment
  variables. The clock is kept as the comparisons the code makes with it.
* Queue: a timestamp is the rank of the submission; results are not told from
  errors except for `preempted_in_queue`; statistics and the active-request globals
  are left out, since nothing but a sleep depends on them. The pool runs from the
  start, as `_ensure_worker` guarantees before any request is queued. The fallback for a
  priority without a semaphore (lines 1417 to 1419 and 1486 to 1488) is left out: every
  member of the enumeration has one, so that no request reaches it.
* Lock: `llm:gpu_urgent` only lengthens a sleep and is left out. The test of a dead
  holder and the GET before it are one step, the DEL after it another. Whether a thread
  asks Redis or goes straight to the file because of an older belief that Redis is down
  is left open during an outage. A process that dies does not come back under the same
  PID, and the number of a closed descriptor is not given to another file. A run has two
  workers in one process and one in the other where the code starts eleven; the theorems
  hold for any number.
* Backpressure: waits are numbers that are compared with the thresholds, and the
  medians are computed as the code computes them. A semaphore is a number that is
  used again once nobody refers to it. The order of the waiters of one semaphore is
  left open. The run has windows of 2 and 3 samples for the code's 5 and 10, with medians
  of one and of several loops' samples. A caller of the synchronous wrapper that gives up changes nothing: its
  coroutine goes on.
* Peer assist: NATS is one set of undelivered messages per node, from which anything
  may be taken in any order or, as a fault, lost. What the lengths of timers guarantee
  is in the guards `Prompt` (messages arrive within the wait), `BackoffIsOver` and
  `RoundIsOver`; a delivery slower than the wait is a fault too. Which target a node
  can reach and how healthy it seems is a choice of `Score`. The counter of failed heals
  saturates at the threshold, the only number it is compared with. Repair results go to
  reporters only, since other nodes have no counter that they could reset. A heal's
  cooldown is kept by peer and action, but the action is always `restart_nats` here: P1 has
  been recorded as broken (lines 2521 to 2529, and `record_failure` at 587) before the
  action is chosen (2557), with no `await` between them. A claim that cannot be published
  is dropped (9047) or left over from before (9028); the fault in `PublishAssistClaim` is
  either.
* Delivery: a channel's send and the tracking behind it are one step, since the event
  loop does not get to an acknowledgement between them. Acknowledgements may be lost at
  any time. The retry loop awaits its own send and looks at the age of its row only;
  that the earlier sends of the message are over by then (a send has a budget of 30 s, the
  row is 60 s old) is not assumed. In exchange a crash counts as as many faults as it
  ends copies that a client or the store asked for.
* Stores: a save is one step, and the mark that a replay puts on its row another; a
  process is in one replay at a time; the active version of a profile, the snapshots of
  PostgreSQL in SQLite and failures of SQLite other than its missing tables are left out.
* Scheduler: one clock for the lockout; the two strikes of the CPU watchdog are one
  event; PID file, state file, a second coordinator, and a lite thread that
  outlives the 5 s its stop waits for it are left out.
* Mode switch: runs are processes of their own, as with the command line. FLIP always
  ends by its timeout (see below), so that WARMUP and UNLOCK, which come after it,
  cannot be reached and are not in the model. Left out: workspaces, which the command
  line does not use; the posture and the history, which are displayed only; the
  switch of the event log, which belongs to the process that runs; the
  heartbeat, which writes the configuration file as well. A write past its check
  may commit at any time. `exposed`, `faulted` and `origins` are history since the last
  time nobody ran.

## Runs

| Run | Shows | Bounds |
|---|---|---|
| `breaker` | HALF_OPEN always has a call that can end it; CLOSED is below the timeout limit; a late result never closes; cache and eviction order agree; refinement of `AdmissionControl`; after healing, CLOSED for good | 2 callers (one late, one probing), window 5 (the smallest the code allows), limit 2, 2 keys for 1 cache entry |
| `queue_service` | permits and counters exact, no request is lost, every queued request is answered; refinement of `PriorityPool`, so that no rejected request was executed and none is executed twice | ATLAS, which preempts at exactly the required distance, and 2 BACKGROUND requests; 2 workers, one permit per priority |
| `gpu_lock` | one POST at a time until a fault disturbs the lock or a thread is robbed of the key; only the second release of a thread with a sibling robs, and only a sibling takes the flock away; a leaked or orphaned key is cleared, under every fault | 2 processes, one of them with 2 workers, all faults |
| `backpressure` | no slot lost or invented, no waiter forgotten by a resize, and the slots come back for good | 2 loops, 3 submissions of which 2 share a loop, 1 or 2 slots, windows of 2 samples (down) and 3 (up) |
| `peer_assist` | one assister per target; with a single reporter the election has a winner and a struggle is answered | 2 rivals with equal or different scores and stamps, 1 reporter, 1 target, 1 fault |
| `fleet_delivery` | repetition ends, the message arrives, the watchdog has nothing to do while no send fails | 1 retry of each mechanism, 1 fault, 1 run of the watchdog, 1 acknowledgement at a time |
| `store_sync` | what was saved is in PostgreSQL or in the queue, although a process may end between a save and its mark | 2 processes, 2 profiles, 3 rows |
| `scheduler` | no launch within the lockout, never unattended, heavy mode is reached and kept | 6 faults or commands: enough to lose the lockout twice |
| `mode_switch` | no further write passes the check from the freeze to the end of FLIP, nothing is left half done, writes resume | 2 runs, 1 writer, 2 crashes or outages |

The bounds are enough for the interesting cases: two parties for a race and, where it
matters, a third one that suffers from it. The breaker's, the queue's and the lock's
counters are bounded by the code itself. The windows of `Backpressure` are smaller than the
code's 5 and 10, but hold samples from before and after a resize, of both loops and of
submissions that were parked meanwhile, so that decisions rest on mixed medians. In
`fleet_delivery` a crash ends one copy at most, since it counts for each of them;
`MessageGoesOn` is proved for any number. The artificial bounds are `MaxTrouble` (faults), `MaxWatchdog` (the
watchdog runs hourly, a series of retries takes minutes), `MaxAcks` (the others count
as lost) and the size of `RowId`. In `LLMQueue` each request is submitted once and in
`StoreSync` each profile is saved once.

Deadlock checking is off where the system really stops: all requests are answered
(`queue_service`), all processes are dead (`gpu_lock`, `gpu_lock_steal`), or the
message is done with (`fleet_delivery`).

### Where the code and its documentation disagree

| Run | Statement | What happens instead |
|---|---|---|
| `gpu_lock_steal` | "if lock holder PID is dead, steal immediately", "Prevents concurrent Metal operations" | the slower of two stealers deletes the faster one's lock |
| `store_sync_waits` | "write to SQLite + queue for sync" | a save that falls back while the recorded mode is heavy (a transition may declare it without PostgreSQL) is queued for SQLite, and every replay reads only rows for PostgreSQL |
| `scheduler_lockout` | "Lockout state will survive coordinator restarts" | a restarted coordinator takes the lockout it finds for an expired one, deletes it and launches Celery |

The code shows more, for which no run is kept.

Language model:

* "Only one caller becomes the HALF_OPEN probe" (breaker, line 425): a late result
  ends HALF_OPEN while the probe runs, and a second probe joins it.
* The failure path of the breaker reads the latency percentile of a window that is
  not full (line 499), where the success path asks for a full one (line 463): one
  slow failure opens it, in spite of the documented three timeouts.
* A late failure in OPEN counts as a CLOSED -> OPEN trip and restarts the recovery
  time (line 496).
* "Priority callers don't wait behind background butler tasks" (queue, line 6):
  workers blocked on the BACKGROUND permit leave AARON in the queue.
* `cancelled` is looked at once, after the dequeue (line 1397); a request cancelled
  while it waits for its permit is executed.
* The TTL of the GPU key is at most 65 s, the POST it protects may take 120 s (lines
  549 and 1308): under the fault `"lapse"` two processes post.
* The release in the `finally` block is "No-op if already released in except
  blocks" (line 1361) only where each process has one worker, but each has eleven: the
  owner is a PID, and during the external fallback another thread of the process may have
  taken the key that the second release deletes. `OnlySecondReleasesRob` says that nothing
  else deletes the key of another thread, and two requests are in flight after it.
* Releasing the file lock is no "no-op if not held" (line 633) either: the descriptor is
  one per process, so that a release unlocks what a sibling has locked. A descriptor that a
  thread stores (line 485) while a sibling is between unlocking and forgetting its own (503
  to 507) is forgotten while it is locked, and the file stays so until the process ends.
* The key and the file are two locks that do not know of each other: under the fault
  `"outage"` one process holds each.
* "The queue never sees more than ``slots_now`` outstanding predictive submissions"
  (backpressure, line 18): shedding load from two slots to one lets a third submission
  in beside the two. `_maybe_resize` stamps the cooldown after the resize, so that a
  second loop may resize again on samples that are about to be dropped.

Fleet:

* Acknowledgements never update the stored row (docstring at line 10193 of
  `fleet_nerve_nats.py`), so that the retry loop repeats messages that have arrived. "After
  ACK_MAX_RETRIES, marked as failed" (line 10196) never happens: the query returns
  only rows below that number of retries.
* "Deterministic on all observers" (line 9055) holds for two claims; with two
  reporters a claim can be replaced after rivals have judged it. Two nodes still never
  repair one target at once (`OneAssister` is proved for any number of reporters), but
  the election can eliminate every claimer: with node 2 added to `Reporter` and
  `MaxTrouble = 0`, TLC finds that node 1's better claim is replaced by its answer to
  the second reporter after node 2 judged it, that node 1 gives way to node 2, and that
  node 2 gives way to node 1's first claim. This can repeat in every round, so that
  `ElectionHasWinner` is stated, and `StruggleIsAnswered` checked, for a single reporter
  (`LoneReporter`).
* ASSIST_MAX_CONCURRENT counts the node's own assists only.
* A step of a task chain that runs on another node loses its `_chain_id` on the way
  (line 4703), and `chain_complete` carries the id inside its body (4749) where the
  handler does not look (3934): a chain with a remote step never advances. Chains are
  therefore not modelled yet.

Scheduler and mode switch:

* "Ensures only ONE scheduler runs at a time": the change from heavy to lite does not
  stop Celery, and the CPU watchdog starts the lite scheduler in heavy mode.
* "In-memory fallback still works": without Redis the time in memory is what counts, but
  `_detect_mode` looks at it only after two failures or a key.
* FLIP waits for `current_mode` (`mode_switch.py`, lines 828 to 851), in a key that
  nothing writes or in the state file, whose field `_record_state` calls `mode`: every
  transition is rolled back.
* "Thread-safe: Uses Redis lock to prevent concurrent transitions", "Atomic: Either
  completes or rolls back": a run that is refused because of the lock rolls back as
  well (line 292), and its rollback thaws the writes, deletes the lock and reverts the
  pointer of the run that holds it.
* The rollback looks for `to_mode` in the text of the pointer (line 1066), which names
  both modes, so that the test is always true; a failure of the revert is logged and
  `rolled_back` is still reported.
* A configuration file that a crash left empty ends the next rollback before it thaws
  (line 1044). The truth pointer has no TTL: a crash after FLIP leaves it flipped.
* LOCK sleeps a second "for in-flight writes to complete" (line 536) and waits for none: a
  writer that has asked for the freeze may wait 5 s for SQLite's locks (`db_utils.py`, lines
  93 and 99), and `ThreadSafeConnection` asks long before it commits. REPLAY's check that
  no writes occurred during the drain compares the event log only. What holds is
  `NoFurtherWrites`: nobody new passes the check.
* "prevents permanent lockout" (of the freeze's TTL): each run renews it, so that runs
  that are begun again and again, and whose rollbacks die at a torn file, keep the writes
  frozen.
* `main` never asks which mode is the present one. With a workspace, one key is set and
  another deleted.

## Fairness

* Breaker, `FairSpec`: a call admitted to the generator returns, because
  `llm_generate` waits at most `timeout_s`; the rest of `call` is straight-line
  code under a lock that is never held across a wait. `BusySpec` adds for `OutageEnds`
  that the anticipation cycle keeps calling and time passes: without calls no probe
  would ever be made. It also needs the backend to stay healthy.
* Queue: weak fairness of each worker's next step. Workers are endless loops and
  everything `_execute_llm_request` waits for has a timeout. Weak fairness is
  enough for the semaphores because finitely many requests compete for them.
  Nothing is assumed of callers.
* Lock: a thread that holds it goes on (POST and Redis have timeouts), and Redis
  expires keys.
* Backpressure: engines keep submitting, waits and calls end (both have timeouts), what
  follows an acquisition runs to the next `await`, and the cooldown passes. That waits are
  short from some time on is a premise of `RestoredWhenCalm`; it says nothing of the
  samples taken before, nor of when they are recorded.
* Peer assist: callbacks run, timers fire, scripts time out; the target stays broken
  for its reporters, who try to heal it once per cooldown. The failing heal is strongly fair, because
  other repairs may take its cooldown, and so is the end of a back-off, because a new
  rival's claim may renew it again and again. `LoneReporter`
  in the run for liveness: one node reports.
* Delivery: some step of the daemons (`Progress`) is taken as long as there is one;
  faults are never obliged to happen.
* Scheduler: the monitor wakes up and everything it calls has a timeout; the lockout
  elapses.
* Mode switch: runs go on, since all they wait for has a timeout, but may crash; time
  passes, so that a freeze that nobody renews grows old and expires. Nothing makes
  anybody stop beginning runs.

## Proofs

All theorems hold for every value of the constants that meets the named
assumptions of the modules. Each `...Proofs` module has `TypeCorrect`,
and `MachineModeProofs` also `SwitchTypeCorrect`.

* `CircuitBreakerProofs`. `TypeCorrect` contains the bounds of window and counter.
  `HalfOpenIsProbed` is inductive as it stands, relative to the types: HALF_OPEN is
  entered only together with a new probe, and every call that leaves the generator
  leaves HALF_OPEN too. `ClosedIsBelowLimit` follows since each way into CLOSED resets
  the counter, and each way up passes the test. `OpenNeedsProbe` is an action property
  and needs no invariant. `CacheOrderIsExact`: the order has no duplicates and its range
  is the set of cached keys. `AdmissionSafety` maps each step to a step of
  `AdmissionControl` or a stutter.
* `LLMQueueProofs`. `PermitsAreAccounted` and `InflightIsWithinCap` rest on
  `SlotInv`: free permits plus holders make the cap, and the counter is the number of
  workers between increment and decrement. The equalities also show that the code's
  guards against underflow and over-release never act. `PreemptedNeverRuns` needs
  `FreshInv`: what is in the queue was neither run nor discarded and is in no
  worker's hands. `NothingLost` needs `AnsweredInv`: a worker that only has
  its permit or counter left to give back has answered its request.
  `ExecutionIsUnique` needs `SoleInv` too: no two workers hold one request.
  `PoolIsNeverStuck` (for at least one worker): the queue has a head, because a
  non-empty set of arrival numbers has a least one (`HeadExists`), and a worker that
  waits for a permit waits for another one that has it and can move
  (`BlockedWaitsForHolder`). `EveryStepAdvances`: each request passes
  eleven stages of its caller and its service, no step takes one back and every
  step reaches a new one (`Milestones`), so that finitely many requests allow
  finitely many steps. Together these two are the safety part of
  `EveryRequestAnswered`. `PoolSafety` maps each step to a step of `PriorityPool` or a
  stutter; beside the invariants above it needs `CancelInv`, by which the cancel event is set
  only for a request that was taken for preemption, and `RoomForHolder`, by
  which a worker about to count itself finds the counter below the cap.
* `GpuLockProofs`, for any number of processes with any number of threads.
  `LockIsExclusive` and `RobbersHaveSiblings` rest on `Undisturbed`: while the story is
  calm, nobody uses the file (`Quiet`), the one thread that holds the key finds its process
  in it (`HolderInv`), whoever posts holds it (`PhaseInv`), and the only worker of a process
  that releases without holding the key finds another process in it, or none
  (`AloneInv`). The last is what makes the second release harmless for such a worker, and
  what two threads with one PID destroy. `FileIsLostWithin` needs that a process keeps no
  descriptor but its own (`HandleInv`), and holds under every fault.
  `KeyIsNeverStuck`: under every fault, a key either belongs to nobody who still
  counts on it, and may expire, or to a thread that can take its next step; by
  `WayOutInv` whoever has taken it is on the way to its release. `HoldersMoveOn`: no
  step takes such a thread back to an earlier phase. They are the safety part of
  `KeyIsFreed`.
* `BackpressureProofs`. `SlotInv` adds to `SlotsAccounted` that every semaphore that is
  current or still referred to has a slot somewhere, free or held. It is kept by a
  resize because a new semaphore takes a number nobody refers to, and by a release
  because it goes where the slot came from. `ParkedFindSlot` follows from it.
* `PeerAssistProofs`. `OneAssister` rests on `ElectionInv`, of three parts: the
  claim a node holds is one whose wait goes on (`Held`), whoever was told of a claim
  that still stands has backed off and keeps only a claim that beats it (`Known`),
  and while a node repairs a target everyone else has backed off (`Alone`).
  `BeatsIsAsymmetric` is the fact about duels that makes it inductive.
  `ElectionIsWon` needs that every claim on NATS that can still eliminate a rival is
  held by someone, or beaten by a claim that someone holds (`Vouched`), so that a rival
  that gives way leaves a better claim behind (`LoserIsBeaten`). This in turn needs
  that claims bear their claimer's name (`Signed`) and that a round is over before its
  reporter begins the next one (`Paced`). The last fails with two reporters.
* `FleetDeliveryProofs`. `WatchdogHasNothingToDo` rests on `Watched`: an
  unacknowledged entry has an awaiter, registered or not, or is being sent again. A
  channel that claims delivery leaves an awaiter behind, and a deadline that passes
  gives the message up or sends it again. `EveryStepRunsDown`: every
  step goes down in a lexicographic order of natural numbers: what may still start a
  series of sends (faults, watchdog runs, retries from the stores), what is left to
  do at the origin, at the destination, and on NATS. It is the safety part of
  `RepetitionEnds`.
  `MessageGoesOn`, where there are no more faults than the stores have retries: until
  the message is injected someone sends it, a copy is on NATS, or a retry from the store
  is due and possible (`GoesOn`). By `CopiesInv` the first send and every retry left a
  copy or a send, or were undone by faults of their own; it does not need that earlier
  sends are over when the store repeats one. With the measure it is the
  safety part of `MessageArrives`.
* `StoreSyncProofs`. `NothingForgotten` rests on `Kept`: beside the property itself, an item
  that a replay still lists or is about to mark is about the profile of its row, as long
  as the row lives (`Held`), since completing the row could otherwise complete another
  profile's; and a row that some process is about to complete (`Leaving`) does not count:
  its profile is in PostgreSQL or has another row, which nobody is about to complete
  (`Stored`). So the order of save and mark is what the proof depends on.
* `MachineModeProofs`. `LockoutKept` rests on `Bounded`, which bounds the failures when
  Celery is launched, and on `Remembered`: a recent failure is known in memory and in
  Redis while nothing was lost. For the switch, `FreezeHolds` rests on `Guarded`:
  while nothing exposes it there is one run at most, Redis answers, and the freeze is on
  from its broadcast until it thaws. `NothingIsHalfDone` rests on `Pending`: what
  is locked, frozen or points at a mode no run came from (`Astray`) has a run
  that has not passed the step of its rollback that undoes it, though not always the
  run that did it. It goes through because a pointer names both modes
  (`EveryRunIsMentioned`): a run that has still to revert reverts whatever it finds
  (`RunBeforeRevert`). The proof depends on the test that is always true.

Only model-checked: the liveness properties and the fairness part of both refinements,
because fairness and ENABLED are out of the prover's reach. For four of the
liveness properties the theorems above give the part that is safety: something can
always move, and every move brings the end nearer. That nothing comes nearer its end
for ever would be an induction over data, and is not proved either. Of the other
liveness properties (`OutageEnds`, `RestoredWhenCalm`, `StruggleIsAnswered`,
`NeverUnattended`, `HeavyIsReached`, `WritesResume`) nothing of the kind is proved.

## Plan

In this order; the abstract specifications and theorems in brackets.

1. `LLMAccess`: composition of the queue's workers with the lock's threads, and of a
   preempted request with the breaker's timeout counter [a semaphore as the abstract
   specification of the GPU lock].
2. `TaskChains`: chains over several daemons, as far as they advance.
3. `EventedWrite`: the hash chain that several processes append to, and its
   verification, with the advisory and recovery locks.
4. `FleetChief`: packets, decisions and adjudication [each packet is decided once].
5. Composition of `SchedulerCoordinator` with `ModeSwitch`, once FLIP finds what the
   coordinator reports.

## Not modelled

Prompt construction, text extraction, HTTP handlers, MCP adapters, shell scripts and
dashboards, which are most of the repository's lines. They are input and output or
sequential text processing, where tests are the better tool. The unified sync and the
recovery daemons are long sequences of SQL and shell commands whose effect lies
outside the repository. Within the modelled parts, what is left out is listed under
"What the models abstract".
