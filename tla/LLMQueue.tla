------------------------------ MODULE LLMQueue ------------------------------
(***************************************************************************)
(* The in-process priority queue of memory/llm_priority_queue.py.  Callers *)
(* submit requests with llm_generate (or llm_generate_with_thinking, which *)
(* neither preempts nor can be preempted); generic worker threads take the *)
(* most urgent one, wait for a permit of its priority and execute it.  An  *)
(* urgent submission cancels the pending requests that are at least        *)
(* PreemptDelta levels below it.                                           *)
(*                                                                         *)
(* A request's timestamp is its rank among all submissions.  What happens  *)
(* inside _execute_llm_request is the subject of GpuLock; here a request   *)
(* is executed and then done, with a result or with an error.  Statistics  *)
(* and logging are left out, and so is the fallback for a priority without *)
(* a semaphore, which no member of the enumeration lacks.                  *)
(***************************************************************************)
EXTENDS Integers, FiniteSets

CONSTANTS
  Requests,
  Workers,       \* the _WORKER_COUNT threads of the pool
  Priority,      \* the priorities in use, 1 (AARON) being the most urgent
  prio,          \* the priority of each request
  Cap,           \* _PRIORITY_CAPS
  None           \* no request

Aaron == 1
Atlas == 2
Background == 4
PreemptDelta == 2

ASSUME FiniteAssumption == IsFiniteSet(Requests) /\ IsFiniteSet(Workers)
ASSUME PriorityAssumption == Priority \subseteq Aaron..Background
ASSUME CapAssumption == Cap \in [Priority -> Nat \ {0}]
ASSUME PrioAssumption == prio \in [Requests -> Priority]
ASSUME NoneAssumption == None \notin Requests

VARIABLES
  timestamp,   \* the rank of a request, 0 before it is submitted
  caller,      \* where the thread that submits it is
  queue,       \* _queue
  pending,     \* _pending_requests
  cancelled,   \* requests whose cancelled event is set
  done,        \* requests whose done event is set
  preempted,   \* requests whose error is "preempted_in_queue"
  worker,      \* where each worker is in _worker_loop
  job,         \* the request it works on
  permits,     \* the value of each priority's semaphore
  inflight,    \* _inflight_by_priority
  ran          \* requests that were given to _execute_llm_request

callerVars == <<timestamp, caller, pending>>
requestVars == <<queue, cancelled, done, preempted>>
workerVars == <<worker, job>>
slotVars == <<permits, inflight>>
vars == <<callerVars, requestVars, workerVars, slotVars, ran>>

TypeOK ==
  /\ timestamp \in [Requests -> Nat]
  /\ caller \in [Requests -> {"new", "scan", "track", "put", "waiting", "returned"}]
  /\ queue \subseteq Requests
  /\ pending \subseteq Requests
  /\ cancelled \subseteq Requests
  /\ done \subseteq Requests
  /\ preempted \subseteq Requests
  /\ worker \in [Workers -> {"idle", "acquire", "bump", "execute", "drop",
                             "release"}]
  /\ job \in [Workers -> Requests \cup {None}]
  /\ \A w \in Workers : job[w] = None <=> worker[w] = "idle"
  /\ permits \in [Priority -> Nat]
  /\ inflight \in [Priority -> Nat]
  /\ ran \subseteq Requests

Init ==
  /\ timestamp = [r \in Requests |-> 0]
  /\ caller = [r \in Requests |-> "new"]
  /\ queue = {}
  /\ pending = {}
  /\ cancelled = {}
  /\ done = {}
  /\ preempted = {}
  /\ worker = [w \in Workers |-> "idle"]
  /\ job = [w \in Workers |-> None]
  /\ permits = Cap
  /\ inflight = [p \in Priority |-> 0]
  /\ ran = {}

Move(r, phase) == caller' = [caller EXCEPT ![r] = phase]
Goto(w, phase) == worker' = [worker EXCEPT ![w] = phase] /\ UNCHANGED job
Begin(w, r, phase) ==
  /\ worker' = [worker EXCEPT ![w] = phase]
  /\ job' = [job EXCEPT ![w] = r]
NextIteration(w) ==
  /\ worker' = [worker EXCEPT ![w] = "idle"]
  /\ job' = [job EXCEPT ![w] = None]
PriorityAt(w) == prio[job[w]]

-----------------------------------------------------------------------------
\* Seeded faults: each replaces the operation it is named after to show that a
\* property notices the mistake.  None is part of the specification.

\* acquire(blocking=False), its result ignored.
AcquireWithoutWaiting(w) ==
  LET p == PriorityAt(w) IN
  /\ worker[w] = "acquire"
  /\ permits' = [permits EXCEPT ![p] = IF @ > 0 THEN @ - 1 ELSE 0]
  /\ Goto(w, "bump")
  /\ UNCHANGED <<callerVars, requestVars, inflight, ran>>

\* The cancelled path gives back a permit it never took.
DiscardReleasing(w, r) ==
  /\ preempted' = preempted \cup {r}
  /\ done' = done \cup {r}
  /\ Begin(w, r, "release")

\* The cancelled path keeps the request as its job.
DiscardTaken(w, r) ==
  /\ preempted' = preempted \cup {r}
  /\ done' = done \cup {r}
  /\ Begin(w, r, "idle")

\* The cancelled path forgets to wake the caller.
DiscardSilently(w, r) ==
  /\ preempted' = preempted \cup {r}
  /\ UNCHANGED <<done, workerVars>>

\* A request cancelled while it ran is reported as preempted.
FinishAsPreempted(w) ==
  /\ worker[w] = "execute"
  /\ preempted' = preempted \cup ({job[w]} \cap cancelled)
  /\ done' = done \cup {job[w]}
  /\ Goto(w, "drop")
  /\ UNCHANGED <<callerVars, queue, cancelled, slotVars, ran>>

\* The finally block forgets the permit.
ReleaseNothing(w) ==
  /\ worker[w] = "release"
  /\ NextIteration(w)
  /\ UNCHANGED <<callerVars, requestVars, slotVars, ran>>

-----------------------------------------------------------------------------
\* llm_generate

\* The request is created and stamped; only P1 and P2 look for requests to
\* preempt.  llm_generate_with_thinking goes on to put it into the queue.
Submit(r) ==
  /\ caller[r] = "new"
  /\ timestamp' = [timestamp EXCEPT ![r] =
                     Cardinality({q \in Requests : caller[q] # "new"}) + 1]
  /\ \/ Move(r, IF prio[r] <= Atlas THEN "scan" ELSE "track")
     \/ Move(r, "put")
  /\ UNCHANGED <<pending, requestVars, workerVars, slotVars, ran>>

Preempt(r) ==
  /\ caller[r] = "scan"
  /\ cancelled' = cancelled \cup
       {q \in pending \ done : prio[q] - prio[r] >= PreemptDelta}
  /\ Move(r, "track")
  /\ UNCHANGED <<timestamp, pending, queue, done, preempted, workerVars,
                 slotVars, ran>>

Track(r) ==
  /\ caller[r] = "track"
  /\ pending' = pending \cup {r}
  /\ Move(r, "put")
  /\ UNCHANGED <<timestamp, requestVars, workerVars, slotVars, ran>>

Put(r) ==
  /\ caller[r] = "put"
  /\ queue' = queue \cup {r}
  /\ Move(r, "waiting")
  /\ UNCHANGED <<timestamp, pending, cancelled, done, preempted, workerVars,
                 slotVars, ran>>

\* done.wait(timeout_s) returns, set or not; a request that is not done stays
\* where it is.
Return(r) ==
  /\ caller[r] = "waiting"
  /\ pending' = pending \ {r}
  /\ Move(r, "returned")
  /\ UNCHANGED <<timestamp, requestVars, workerVars, slotVars, ran>>

-----------------------------------------------------------------------------
\* _worker_loop

MoreUrgent(q, r) ==
  \/ prio[q] < prio[r]
  \/ prio[q] = prio[r] /\ timestamp[q] < timestamp[r]

\* preempted_in_queue: answered without a permit, the loop continues.
Discard(w, r) ==
  /\ preempted' = preempted \cup {r}
  /\ done' = done \cup {r}
  /\ UNCHANGED workerVars

\* The only place where the cancelled event is looked at.
Get(w) ==
  /\ worker[w] = "idle"
  /\ \E r \in queue :
       /\ \A q \in queue : ~MoreUrgent(q, r)
       /\ queue' = queue \ {r}
       /\ \/ r \in cancelled /\ Discard(w, r)
          \/ /\ r \notin cancelled
             /\ Begin(w, r, "acquire")
             /\ UNCHANGED <<done, preempted>>
  /\ UNCHANGED <<callerVars, cancelled, slotVars, ran>>

AcquirePermit(w) ==
  LET p == PriorityAt(w) IN
  /\ worker[w] = "acquire"
  /\ permits[p] > 0
  /\ permits' = [permits EXCEPT ![p] = @ - 1]
  /\ Goto(w, "bump")
  /\ UNCHANGED <<callerVars, requestVars, inflight, ran>>

\* The counter goes up and _execute_llm_request is called.
BumpInflight(w) ==
  LET p == PriorityAt(w) IN
  /\ worker[w] = "bump"
  /\ inflight' = [inflight EXCEPT ![p] = @ + 1]
  /\ ran' = ran \cup {job[w]}
  /\ Goto(w, "execute")
  /\ UNCHANGED <<callerVars, requestVars, permits>>

\* Every path through _execute_llm_request sets done, or raises and leaves it
\* to the except block of the loop.
Finish(w) ==
  /\ worker[w] = "execute"
  /\ done' = done \cup {job[w]}
  /\ Goto(w, "drop")
  /\ UNCHANGED <<callerVars, queue, cancelled, preempted, slotVars, ran>>

\* The finally block: "counter first, then sem".
DropInflight(w) ==
  LET p == PriorityAt(w) IN
  /\ worker[w] = "drop"
  /\ inflight' = [inflight EXCEPT ![p] = IF @ > 0 THEN @ - 1 ELSE 0]
  /\ Goto(w, "release")
  /\ UNCHANGED <<callerVars, requestVars, permits, ran>>

\* A BoundedSemaphore refuses to exceed its initial value; the ValueError is
\* swallowed.
ReleasePermit(w) ==
  LET p == PriorityAt(w) IN
  /\ worker[w] = "release"
  /\ permits' = [permits EXCEPT ![p] = IF @ < Cap[p] THEN @ + 1 ELSE @]
  /\ NextIteration(w)
  /\ UNCHANGED <<callerVars, requestVars, inflight, ran>>

Call(r) == Submit(r) \/ Preempt(r) \/ Track(r) \/ Put(r) \/ Return(r)

Work(w) ==
  \/ Get(w) \/ AcquirePermit(w) \/ BumpInflight(w)
  \/ Finish(w) \/ DropInflight(w) \/ ReleasePermit(w)

Next ==
  \/ \E r \in Requests : Call(r)
  \/ \E w \in Workers : Work(w)

Spec == Init /\ [][Next]_vars

\* Workers are daemon threads that loop for ever, and everything that
\* _execute_llm_request waits for has a timeout.  Callers need not be fair.
FairSpec == Spec /\ \A w \in Workers : WF_vars(Work(w))

-----------------------------------------------------------------------------
\* Properties

Holders(p) ==
  {w \in Workers : /\ worker[w] \in {"bump", "execute", "drop", "release"}
                   /\ PriorityAt(w) = p}

Counted(p) ==
  {w \in Workers : worker[w] \in {"execute", "drop"} /\ PriorityAt(w) = p}

\* No permit is lost and none is forged, whichever way a worker leaves an
\* iteration: a lost one would block its priority for ever.
PermitsAccounted ==
  \A p \in Priority : permits[p] + Cardinality(Holders(p)) = Cap[p]

\* "Order matters: counter first (so next worker sees accurate inflight), then
\* sem": the counters that cap tuning relies on are exact and within the caps.
InflightWithinCap ==
  \A p \in Priority :
    inflight[p] = Cardinality(Counted(p)) /\ inflight[p] <= Cap[p]

\* A caller that learns that its request was preempted may submit it again: no
\* part of it was executed.
PreemptedNeverRan == preempted \cap ran = {}

\* A submitted request is in the queue, with a worker, or answered, also when its
\* caller has given up waiting: nothing else would ever answer it.
NeverLost ==
  \A r \in Requests :
    caller[r] \in {"waiting", "returned"} =>
      \/ r \in queue \/ r \in done
      \/ \E w \in Workers : job[w] = r

\* Every request put into the queue is answered in the end, also the ones whose
\* callers gave up, and no worker waits for a permit for ever.
EveryRequestAnswered == \A r \in Requests : r \in queue ~> r \in done

\* The requests that workers at one of these steps have in hand.
InHand(phases) == {job[w] : w \in {v \in Workers : worker[v] \in phases}}

Pool == INSTANCE PriorityPool WITH
  Delta <- PreemptDelta,
  asked <- {r \in Requests : caller[r] # "new"},
  waiting <- queue \cup InHand({"acquire", "bump"}),
  running <- InHand({"execute"}),
  executed <- done \ preempted,
  rejected <- preempted

\* The heap, the workers and the semaphores together are a pool that answers every
\* request once, executes no more of a priority than its cap at a time and nothing
\* that it rejects, and rejects only what an urgent caller supersedes.
ImplementsPriorityPool == Pool!Spec

=============================================================================
