--------------------------- MODULE CircuitBreaker ---------------------------
(***************************************************************************)
(* services/queue/circuit_breaker.py: the three-state breaker that         *)
(* wraps llm_generate.  Caller threads share one breaker; its state is     *)
(* guarded by a re-entrant lock that is not held while the wrapped call    *)
(* runs, so each call is a sequence of steps: read the clock, _pre_call,   *)
(* the wrapped call, _record_success or _record_failure, _serve_fallback.  *)
(*                                                                         *)
(* Time is kept as what the code compares: `recovered` is                  *)
(* now - _opened_at >= recovery_s, a latency is "slow" when it exceeds     *)
(* latency_threshold_ms, a cache entry is "expired" when its age exceeds   *)
(* cache_ttl_s.  consecutive_timeouts saturates at MaxTimeouts, since the  *)
(* code only asks whether it has reached that limit.  Counters are left    *)
(* out: no code reads them to decide.  The key of a call is chosen where   *)
(* it is used: a call either writes the cache once or reads it once.       *)
(***************************************************************************)
EXTENDS Integers, FiniteSets, Sequences, SequencesExt

CONSTANTS
  Callers,            \* threads sharing the breaker
  Keys,               \* cache keys (profile, system prompt, user prompt)
  MaxTimeouts,        \* max_timeouts
  LatencyWindow,      \* latency_window
  LatencyPercentile,  \* latency_percentile
  CacheMax            \* cache_max_entries

ASSUME MaxTimeoutsAssumption == MaxTimeouts \in Nat \ {0}
ASSUME WindowAssumption == LatencyWindow \in Nat /\ LatencyWindow >= 5
ASSUME PercentileAssumption == LatencyPercentile \in 50..100
ASSUME CacheAssumption == CacheMax \in Nat \ {0}

VARIABLES
  state,                 \* _state
  consecutive_timeouts,  \* _consecutive_timeouts
  recovered,             \* recovery_s has elapsed since _opened_at
  latencies,             \* _latencies, each sample "fast" or "slow"
  cache,                 \* _cache
  cache_order,           \* _cache_order
  pc,                    \* where each caller is in call()
  saw_recovered,         \* recovery_s had elapsed at the `now` its call read
  probing,               \* calls admitted by the OPEN -> HALF_OPEN transition
  healthy                \* the wrapped generator answers fast from now on

breakerVars == <<state, consecutive_timeouts, recovered, latencies>>
cacheVars == <<cache, cache_order>>
callVars == <<pc, saw_recovered, probing>>
vars == <<breakerVars, cacheVars, callVars, healthy>>

-----------------------------------------------------------------------------

TypeOK ==
  /\ state \in {"CLOSED", "HALF_OPEN", "OPEN"}
  /\ consecutive_timeouts \in 0..MaxTimeouts
  /\ recovered \in BOOLEAN
  /\ latencies \in Seq({"fast", "slow"})
  /\ Len(latencies) <= LatencyWindow
  /\ cache \in [Keys -> {"absent", "fresh", "expired"}]
  /\ cache_order \in Seq(Keys)
  /\ pc \in [Callers -> {"idle", "entered", "inflight", "fallback"}]
  /\ saw_recovered \in [Callers -> BOOLEAN]
  /\ probing \subseteq Callers
  /\ healthy \in BOOLEAN

Init ==
  /\ state = "CLOSED"
  /\ consecutive_timeouts = 0
  /\ recovered = FALSE
  /\ latencies = <<>>
  /\ cache = [k \in Keys |-> "absent"]
  /\ cache_order = <<>>
  /\ pc = [c \in Callers |-> "idle"]
  /\ saw_recovered = [c \in Callers |-> FALSE]
  /\ probing = {}
  /\ healthy = FALSE

-----------------------------------------------------------------------------
\* Seeded faults: each replaces the operation it is named after to show that a
\* property notices the mistake.  None is part of the specification.

\* No maxlen.
ObserveUnbounded(lat, sample) == Append(lat, sample)

\* A full window keeps its old samples.
ObserveKeepingOldest(lat, sample) ==
  IF Len(lat) < LatencyWindow THEN Append(lat, sample) ELSE lat

\* An expired entry is removed from the cache and not from the queue.
DropFromCacheOnly(k) == UNCHANGED cache_order

\* Only a CLOSED breaker opens, as the comment on the trip counter has it.
OpenNowFromClosed ==
  /\ state' = IF state = "CLOSED" THEN "OPEN" ELSE state
  /\ recovered' = FALSE
  /\ saw_recovered' = [c \in Callers |-> FALSE]

\* Any success in OPEN or HALF_OPEN is a recovery.
RecoversFromOpen == state # "CLOSED"

\* HALF_OPEN lets calls in.
AdmitUnlessOpen(c) ==
  /\ pc[c] = "entered"
  /\ state # "OPEN"
  /\ pc' = [pc EXCEPT ![c] = "inflight"]
  /\ UNCHANGED <<breakerVars, cacheVars, saw_recovered, probing, healthy>>

\* Reset() forgets the timeout counter.
ResetKeepingTimeouts ==
  /\ state' = "CLOSED"
  /\ recovered' = FALSE
  /\ latencies' = <<>>
  /\ UNCHANGED <<consecutive_timeouts, cacheVars, callVars, healthy>>

-----------------------------------------------------------------------------
\* The latency window and the cache

\* deque(maxlen=latency_window): appending to a full window drops the oldest.
Observe(lat, sample) ==
  IF Len(lat) < LatencyWindow THEN Append(lat, sample)
                              ELSE Append(Tail(lat), sample)

\* The index int(n * percentile / 100), clamped to the last element.
TailIndex(n) ==
  LET i == (n * LatencyPercentile) \div 100
  IN IF i < n THEN i ELSE n - 1

\* In ascending order the fast samples come first, so the sample at the index
\* exceeds the threshold exactly when at most that many samples are fast.
TailIsSlow(lat) ==
  /\ lat # <<>>
  /\ Cardinality({i \in DOMAIN lat : lat[i] = "fast"}) <= TailIndex(Len(lat))

\* An overwritten key keeps its slot; the oldest keys are evicted.
OrderAfterWrite(k) ==
  LET order == IF Contains(cache_order, k) THEN cache_order
                                           ELSE Append(cache_order, k)
      excess == IF Len(order) > CacheMax THEN Len(order) - CacheMax ELSE 0
  IN SubSeq(order, excess + 1, Len(order))

WriteCache(k) ==
  LET evicted == ToSet(Append(cache_order, k)) \ ToSet(OrderAfterWrite(k))
  IN /\ cache_order' = OrderAfterWrite(k)
     /\ cache' = [q \in Keys |-> IF q \in evicted THEN "absent"
                                 ELSE IF q = k THEN "fresh" ELSE cache[q]]

-----------------------------------------------------------------------------
\* The state machine, run under the lock

\* _open_now stamps _opened_at: every clock reading taken before it is too old
\* to show that recovery_s has elapsed.
OpenNow ==
  /\ state' = "OPEN"
  /\ recovered' = FALSE
  /\ saw_recovered' = [c \in Callers |-> FALSE]

StayInState == UNCHANGED <<state, recovered, saw_recovered>>

\* call() reads the clock before it asks for the lock.
Enter(c) ==
  /\ pc[c] = "idle"
  /\ pc' = [pc EXCEPT ![c] = "entered"]
  /\ saw_recovered' = [saw_recovered EXCEPT ![c] = recovered]
  /\ UNCHANGED <<breakerVars, cacheVars, probing, healthy>>

Admit(c) ==
  /\ pc[c] = "entered"
  /\ state = "CLOSED"
  /\ pc' = [pc EXCEPT ![c] = "inflight"]
  /\ UNCHANGED <<breakerVars, cacheVars, saw_recovered, probing, healthy>>

BecomeProbe(c) ==
  /\ pc[c] = "entered"
  /\ state = "OPEN"
  /\ saw_recovered[c]
  /\ state' = "HALF_OPEN"
  /\ pc' = [pc EXCEPT ![c] = "inflight"]
  /\ probing' = probing \cup {c}
  /\ UNCHANGED <<consecutive_timeouts, recovered, latencies, cacheVars,
                 saw_recovered, healthy>>

ShortCircuit(c) ==
  /\ pc[c] = "entered"
  /\ \/ state = "HALF_OPEN"
     \/ state = "OPEN" /\ ~saw_recovered[c]
  /\ pc' = [pc EXCEPT ![c] = "fallback"]
  /\ UNCHANGED <<breakerVars, cacheVars, saw_recovered, probing, healthy>>

PreCall(c) == Admit(c) \/ BecomeProbe(c) \/ ShortCircuit(c)

\* Only a success seen while HALF_OPEN counts as a recovery.
Recovers == state = "HALF_OPEN"

\* The generator answered.
RecordSuccess(c, sample) ==
  LET window == Observe(latencies, sample)
      trips == /\ state = "CLOSED"
               /\ Len(window) >= LatencyWindow
               /\ TailIsSlow(window)
  IN /\ pc[c] = "inflight"
     /\ healthy => sample = "fast"
     /\ consecutive_timeouts' = 0
     /\ latencies' = window
     /\ \E k \in Keys : WriteCache(k)
     /\ \/ /\ Recovers
           /\ state' = "CLOSED"
           /\ UNCHANGED <<recovered, saw_recovered>>
        \/ /\ ~Recovers
           /\ trips
           /\ OpenNow
        \/ /\ ~Recovers
           /\ ~trips
           /\ StayInState
     /\ pc' = [pc EXCEPT ![c] = "idle"]
     /\ probing' = probing \ {c}
     /\ UNCHANGED healthy

\* The generator returned None (a timeout or a preemption) or raised.
RecordFailure(c, is_timeout, sample) ==
  LET timeouts == IF is_timeout /\ consecutive_timeouts < MaxTimeouts
                  THEN consecutive_timeouts + 1 ELSE consecutive_timeouts
      window == Observe(latencies, sample)
      trips == timeouts >= MaxTimeouts \/ TailIsSlow(window)
  IN /\ pc[c] = "inflight"
     /\ ~healthy
     /\ consecutive_timeouts' = timeouts
     /\ latencies' = window
     /\ \/ /\ state = "HALF_OPEN"
           /\ OpenNow
        \/ /\ state # "HALF_OPEN"
           /\ trips
           /\ OpenNow
        \/ /\ state # "HALF_OPEN"
           /\ ~trips
           /\ StayInState
     /\ pc' = [pc EXCEPT ![c] = "fallback"]
     /\ probing' = probing \ {c}
     /\ UNCHANGED <<cacheVars, healthy>>

\* deque.remove drops the first occurrence; its ValueError is swallowed.
DropFromOrder(k) ==
  \/ \E i \in DOMAIN cache_order :
       /\ cache_order[i] = k
       /\ \A j \in 1..(i - 1) : cache_order[j] # k
       /\ cache_order' = RemoveAt(cache_order, i)
  \/ ~Contains(cache_order, k) /\ UNCHANGED cache_order

\* _read_cache drops an entry it finds expired.  A fresh entry, the heuristic
\* or nothing is then returned: none of them changes the breaker.
ServeFallback(c) ==
  /\ pc[c] = "fallback"
  /\ pc' = [pc EXCEPT ![c] = "idle"]
  /\ \E k \in Keys :
       IF cache[k] = "expired"
       THEN /\ cache' = [cache EXCEPT ![k] = "absent"]
            /\ DropFromOrder(k)
       ELSE UNCHANGED cacheVars
  /\ UNCHANGED <<breakerVars, saw_recovered, probing, healthy>>

\* reset() leaves the cache alone.
Reset ==
  /\ state' = "CLOSED"
  /\ consecutive_timeouts' = 0
  /\ recovered' = FALSE
  /\ latencies' = <<>>
  /\ UNCHANGED <<cacheVars, callVars, healthy>>

-----------------------------------------------------------------------------
\* Time and the backend

RecoveryElapses ==
  /\ state = "OPEN"
  /\ ~recovered
  /\ recovered' = TRUE
  /\ UNCHANGED <<state, consecutive_timeouts, latencies, cacheVars, callVars,
                 healthy>>

EntryExpires(k) ==
  /\ cache[k] = "fresh"
  /\ cache' = [cache EXCEPT ![k] = "expired"]
  /\ UNCHANGED <<breakerVars, cache_order, callVars, healthy>>

\* The backend comes back for good.
BackendHeals ==
  /\ ~healthy
  /\ healthy' = TRUE
  /\ UNCHANGED <<breakerVars, cacheVars, callVars>>

GeneratorReturns(c) ==
  \E sample \in {"fast", "slow"} :
    \/ RecordSuccess(c, sample)
    \/ \E is_timeout \in BOOLEAN : RecordFailure(c, is_timeout, sample)

Next ==
  \/ \E c \in Callers : \/ Enter(c) \/ PreCall(c)
                        \/ GeneratorReturns(c) \/ ServeFallback(c)
  \/ Reset
  \/ RecoveryElapses
  \/ \E k \in Keys : EntryExpires(k)
  \/ BackendHeals

Spec == Init /\ [][Next]_vars

\* llm_generate waits at most timeout_s, so every admitted call returns, and
\* the rest of call() is straight-line code; nobody is obliged to call.
FairSpec ==
  /\ Spec
  /\ \A c \in Callers : WF_vars(GeneratorReturns(c))
  /\ \A c \in Callers : WF_vars(PreCall(c) \/ ServeFallback(c))

\* The anticipation cycle keeps calling and time goes on.
BusySpec ==
  /\ FairSpec
  /\ \A c \in Callers : WF_vars(Enter(c))
  /\ WF_vars(RecoveryElapses)

-----------------------------------------------------------------------------
\* Properties

\* While the breaker is HALF_OPEN every caller is turned away, so only a call
\* already inside the generator can end that state: there is always one, the
\* probe that _pre_call let in.
HalfOpenHasProbe ==
  state = "HALF_OPEN" => \E c \in probing : pc[c] = "inflight"

\* A CLOSED breaker is never one that _record_failure should already have
\* tripped, however late results, probes and operator resets interleave.
ClosedBelowTimeoutLimit ==
  state = "CLOSED" => consecutive_timeouts < MaxTimeouts

\* The FIFO eviction order lists each cached key exactly once and nothing else,
\* through overwrites, evictions and the TTL removal of _read_cache; otherwise
\* an eviction would drop a key that was written again, or never drop one.
CacheOrderAgrees ==
  /\ ToSet(cache_order) = {k \in Keys : cache[k] # "absent"}
  /\ IsInjective(cache_order)
  /\ Len(cache_order) <= CacheMax

\* A result that arrives while the breaker is OPEN belongs to a call admitted
\* before the outage was noticed; _record_success must not take it for a
\* recovery.  Only an operator's reset() leaves OPEN without a probe.
LateResultNeverCloses ==
  [][state = "OPEN" /\ state' = "CLOSED" => Reset]_vars

\* The breaker keeps the promise of AdmissionControl: the calls inside the
\* generator are the admitted ones, and each of them ends.
Admission == INSTANCE AdmissionControl
  WITH inflight <- {c \in Callers : pc[c] = "inflight"}
ImplementsAdmissionControl == Admission!Spec

\* Once the backend is healthy again and callers keep calling, the breaker ends
\* up CLOSED for good: slow samples left in the latency window may trip it
\* again after a recovery, but not forever.
OutageEnds == healthy ~> [](state = "CLOSED")

=============================================================================
