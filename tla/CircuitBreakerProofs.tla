------------------------ MODULE CircuitBreakerProofs ------------------------
(***************************************************************************)
(* Theorems about CircuitBreaker, for any set of threads, any window and   *)
(* any limits.  Type correctness is inductive by itself; each safety       *)
(* property is inductive relative to it.                                   *)
(***************************************************************************)
EXTENDS CircuitBreaker, TLAPS, SequenceTheorems

\* Appending to the window keeps it a window.
LEMMA ObserveType ==
  ASSUME NEW lat \in Seq({"fast", "slow"}), Len(lat) <= LatencyWindow,
         NEW sample \in {"fast", "slow"}
  PROVE  /\ Observe(lat, sample) \in Seq({"fast", "slow"})
         /\ Len(Observe(lat, sample)) <= LatencyWindow
<1>1. CASE Len(lat) < LatencyWindow
  BY <1>1, WindowAssumption DEF Observe
<1>2. CASE ~(Len(lat) < LatencyWindow)
  <2>1. Len(lat) = LatencyWindow /\ lat # <<>>
    BY <1>2, WindowAssumption
  <2>2. Tail(lat) \in Seq({"fast", "slow"}) /\ Len(Tail(lat)) = Len(lat) - 1
    BY <2>1
  <2> QED
    BY <1>2, <2>1, <2>2, WindowAssumption DEF Observe
<1> QED
  BY <1>1, <1>2

\* The eviction order stays a sequence of keys when a key is written.
LEMMA OrderAfterWriteType ==
  ASSUME cache_order \in Seq(Keys), NEW k \in Keys
  PROVE  OrderAfterWrite(k) \in Seq(Keys)
<1> DEFINE order == IF Contains(cache_order, k) THEN cache_order
                                                ELSE Append(cache_order, k)
           excess == IF Len(order) > CacheMax THEN Len(order) - CacheMax ELSE 0
<1>1. order \in Seq(Keys)
  OBVIOUS
<1>2. excess \in Nat /\ excess + 1 \in Nat
  BY <1>1, CacheAssumption, LenProperties
<1>3. \A i \in (excess + 1)..Len(order) : order[i] \in Keys
  <2> HIDE DEF order
  <2> QED BY <1>1, <1>2, ElementOfSeq, LenProperties
<1>4. SubSeq(order, excess + 1, Len(order)) \in Seq(Keys)
  <2> HIDE DEF order, excess
  <2> QED BY <1>1, <1>2, <1>3, SubSeqProperties, LenProperties
<1> QED
  BY <1>4 DEF OrderAfterWrite

LEMMA WriteCacheType ==
  ASSUME TypeOK, NEW k \in Keys, WriteCache(k)
  PROVE  /\ cache' \in [Keys -> {"absent", "fresh", "expired"}]
         /\ cache_order' \in Seq(Keys)
<1>1. cache_order' \in Seq(Keys)
  BY OrderAfterWriteType DEF TypeOK, WriteCache
<1>2. cache' \in [Keys -> {"absent", "fresh", "expired"}]
  <2> DEFINE evicted == ToSet(Append(cache_order, k)) \ ToSet(OrderAfterWrite(k))
  <2>1. cache' = [q \in Keys |-> IF q \in evicted THEN "absent"
                                 ELSE IF q = k THEN "fresh" ELSE cache[q]]
    BY DEF WriteCache
  <2> HIDE DEF evicted
  <2> QED BY <2>1 DEF TypeOK
<1> QED
  BY <1>1, <1>2

LEMMA DropFromOrderType ==
  ASSUME TypeOK, NEW k \in Keys, DropFromOrder(k)
  PROVE  cache_order' \in Seq(Keys)
<1>1. CASE \E i \in DOMAIN cache_order : cache_order' = RemoveAt(cache_order, i)
  <2>1. PICK i \in DOMAIN cache_order : cache_order' = RemoveAt(cache_order, i)
    BY <1>1
  <2>2. cache_order \in Seq(Keys) /\ i \in 1..Len(cache_order)
    BY <2>1 DEF TypeOK
  <2>3. SubSeq(cache_order, 1, i - 1) \in Seq(Keys)
    BY <2>2, SubSeqProperties, ElementOfSeq
  <2>4. SubSeq(cache_order, i + 1, Len(cache_order)) \in Seq(Keys)
    BY <2>2, SubSeqProperties, ElementOfSeq
  <2> QED
    BY <2>1, <2>3, <2>4, ConcatProperties DEF RemoveAt
<1>2. CASE UNCHANGED cache_order
  BY <1>2 DEF TypeOK
<1> QED
  BY <1>1, <1>2 DEF DropFromOrder

-----------------------------------------------------------------------------

\* TypeOK is an invariant.
THEOREM TypeCorrect == Spec => []TypeOK
<1>1. Init => TypeOK
  <2> SUFFICES ASSUME Init PROVE TypeOK
    OBVIOUS
  <2>1. /\ latencies \in Seq({"fast", "slow"}) /\ Len(latencies) <= LatencyWindow
        /\ cache_order \in Seq(Keys)
    BY EmptySeq, WindowAssumption DEF Init
  <2>2. /\ state = "CLOSED" /\ recovered = FALSE
        /\ healthy = FALSE /\ probing = {}
        /\ cache = [k \in Keys |-> "absent"]
        /\ pc = [c \in Callers |-> "idle"]
        /\ saw_recovered = [c \in Callers |-> FALSE]
    BY DEF Init
  <2>3. consecutive_timeouts \in 0..MaxTimeouts
    BY MaxTimeoutsAssumption DEF Init
  <2> QED
    BY <2>1, <2>2, <2>3 DEF TypeOK
<1>2. TypeOK /\ [Next]_vars => TypeOK'
  <2> SUFFICES ASSUME TypeOK, [Next]_vars PROVE TypeOK'
    OBVIOUS
  <2> USE DEF breakerVars, cacheVars, callVars, vars
  <2>1. ASSUME NEW c \in Callers, Enter(c) PROVE TypeOK'
    BY <2>1 DEF TypeOK, Enter
  <2>2. ASSUME NEW c \in Callers, PreCall(c) PROVE TypeOK'
    BY <2>2 DEF TypeOK, PreCall, Admit, BecomeProbe, ShortCircuit
  <2>3. ASSUME NEW c \in Callers, NEW sample \in {"fast", "slow"},
               RecordSuccess(c, sample)
        PROVE TypeOK'
    <3>1. latencies' \in Seq({"fast", "slow"}) /\ Len(latencies') <= LatencyWindow
      BY <2>3, ObserveType DEF TypeOK, RecordSuccess
    <3>2. /\ cache' \in [Keys -> {"absent", "fresh", "expired"}]
          /\ cache_order' \in Seq(Keys)
      BY <2>3, WriteCacheType DEF TypeOK, RecordSuccess
    <3>3. /\ state' \in {"CLOSED", "HALF_OPEN", "OPEN"}
          /\ recovered' \in BOOLEAN
          /\ saw_recovered' \in [Callers -> BOOLEAN]
      BY <2>3 DEF TypeOK, RecordSuccess, OpenNow, StayInState
    <3>4. consecutive_timeouts' \in 0..MaxTimeouts
      BY <2>3, MaxTimeoutsAssumption DEF RecordSuccess
    <3> QED
      BY <2>3, <3>1, <3>2, <3>3, <3>4 DEF TypeOK, RecordSuccess
  <2>4. ASSUME NEW c \in Callers, NEW sample \in {"fast", "slow"},
               NEW is_timeout \in BOOLEAN,
               RecordFailure(c, is_timeout, sample)
        PROVE TypeOK'
    <3>1. latencies' \in Seq({"fast", "slow"}) /\ Len(latencies') <= LatencyWindow
      BY <2>4, ObserveType DEF TypeOK, RecordFailure
    <3>2. consecutive_timeouts' \in 0..MaxTimeouts
      BY <2>4, MaxTimeoutsAssumption DEF TypeOK, RecordFailure
    <3> QED
      BY <2>4, <3>1, <3>2 DEF TypeOK, RecordFailure, OpenNow, StayInState
  <2>5. ASSUME NEW c \in Callers, ServeFallback(c) PROVE TypeOK'
    <3>1. cache_order' \in Seq(Keys)
      BY <2>5, DropFromOrderType DEF TypeOK, ServeFallback
    <3> QED
      BY <2>5, <3>1 DEF TypeOK, ServeFallback
  <2>6. ASSUME Reset PROVE TypeOK'
    <3>1. latencies' \in Seq({"fast", "slow"}) /\ Len(latencies') <= LatencyWindow
      BY <2>6, EmptySeq, WindowAssumption DEF Reset
    <3>2. UNCHANGED <<cacheVars, callVars, healthy>>
      BY <2>6 DEF Reset
    <3>3. /\ state' = "CLOSED"
          /\ consecutive_timeouts' \in 0..MaxTimeouts
          /\ recovered' = FALSE
      BY <2>6, MaxTimeoutsAssumption DEF Reset
    <3> QED
      BY <3>1, <3>2, <3>3 DEF TypeOK
  <2>7. ASSUME RecoveryElapses \/ BackendHeals \/ \E k \in Keys : EntryExpires(k)
        PROVE TypeOK'
    BY <2>7 DEF TypeOK, RecoveryElapses, BackendHeals, EntryExpires
  <2>8. CASE UNCHANGED vars
    BY <2>8 DEF TypeOK
  <2> QED
    BY <2>1, <2>2, <2>3, <2>4, <2>5, <2>6, <2>7, <2>8 DEF Next, GeneratorReturns
<1> QED
  BY <1>1, <1>2, PTL DEF Spec

\* A HALF_OPEN breaker always has a probe inside the generator.
THEOREM HalfOpenIsProbed == Spec => []HalfOpenHasProbe
<1>1. Init => HalfOpenHasProbe
  BY DEF Init, HalfOpenHasProbe
<1>2. TypeOK /\ HalfOpenHasProbe /\ [Next]_vars => HalfOpenHasProbe'
  <2> SUFFICES ASSUME TypeOK, HalfOpenHasProbe, [Next]_vars, state' = "HALF_OPEN"
               PROVE  \E p \in probing' : pc'[p] = "inflight"
    BY DEF HalfOpenHasProbe
  <2> USE DEF breakerVars, cacheVars, callVars, vars
  <2>1. ASSUME NEW c \in Callers, Enter(c) \/ Admit(c) \/ ShortCircuit(c) \/ ServeFallback(c)
        PROVE  \E p \in probing' : pc'[p] = "inflight"
    <3>1. PICK p \in probing : pc[p] = "inflight"
      BY <2>1 DEF HalfOpenHasProbe, Enter, Admit, ShortCircuit, ServeFallback
    <3>2. p \in probing' /\ pc'[p] = "inflight"
      BY <2>1, <3>1 DEF TypeOK, Enter, Admit, ShortCircuit, ServeFallback
    <3> QED
      BY <3>2
  <2>2. ASSUME NEW c \in Callers, BecomeProbe(c)
        PROVE  \E p \in probing' : pc'[p] = "inflight"
    BY <2>2 DEF TypeOK, BecomeProbe
  <2>3. ASSUME NEW c \in Callers, GeneratorReturns(c)
        PROVE  FALSE
    BY <2>3 DEF GeneratorReturns, RecordSuccess, RecordFailure, OpenNow,
                StayInState, Recovers
  <2>4. CASE Reset \/ RecoveryElapses
    BY <2>4 DEF Reset, RecoveryElapses
  <2>5. CASE BackendHeals \/ (\E k \in Keys : EntryExpires(k)) \/ UNCHANGED vars
    BY <2>5 DEF HalfOpenHasProbe, BackendHeals, EntryExpires
  <2> QED
    BY <2>1, <2>2, <2>3, <2>4, <2>5 DEF Next, PreCall
<1> QED
  BY <1>1, <1>2, TypeCorrect, PTL DEF Spec

\* A CLOSED breaker is below its timeout limit.
THEOREM ClosedIsBelowLimit == Spec => []ClosedBelowTimeoutLimit
<1>1. Init => ClosedBelowTimeoutLimit
  BY MaxTimeoutsAssumption DEF Init, ClosedBelowTimeoutLimit
<1>2. TypeOK /\ ClosedBelowTimeoutLimit /\ [Next]_vars => ClosedBelowTimeoutLimit'
  <2> SUFFICES ASSUME TypeOK, ClosedBelowTimeoutLimit, [Next]_vars, state' = "CLOSED"
               PROVE  consecutive_timeouts' < MaxTimeouts
    BY DEF ClosedBelowTimeoutLimit
  <2> USE MaxTimeoutsAssumption
      DEF breakerVars, cacheVars, callVars, vars, ClosedBelowTimeoutLimit, TypeOK
  <2>1. ASSUME NEW c \in Callers, Enter(c) \/ PreCall(c) \/ ServeFallback(c)
        PROVE  consecutive_timeouts' < MaxTimeouts
    BY <2>1 DEF Enter, PreCall, Admit, BecomeProbe, ShortCircuit, ServeFallback
  <2>2. ASSUME NEW c \in Callers, GeneratorReturns(c)
        PROVE  consecutive_timeouts' < MaxTimeouts
    BY <2>2 DEF GeneratorReturns, RecordSuccess, RecordFailure, OpenNow, StayInState
  <2>3. CASE Reset
    BY <2>3 DEF Reset
  <2>4. CASE \/ RecoveryElapses \/ BackendHeals
             \/ (\E k \in Keys : EntryExpires(k)) \/ UNCHANGED vars
    BY <2>4 DEF RecoveryElapses, BackendHeals, EntryExpires
  <2> QED
    BY <2>1, <2>2, <2>3, <2>4 DEF Next
<1> QED
  BY <1>1, <1>2, TypeCorrect, PTL DEF Spec

\* Only reset() takes the breaker straight from OPEN to CLOSED.
THEOREM OpenNeedsProbe == Spec => LateResultNeverCloses
<1>1. [Next]_vars => [state = "OPEN" /\ state' = "CLOSED" => Reset]_vars
  BY DEF Next, vars, breakerVars, cacheVars, callVars, Enter, PreCall, Admit,
         BecomeProbe, ShortCircuit, GeneratorReturns, RecordSuccess,
         RecordFailure, OpenNow, StayInState, Recovers, ServeFallback,
         RecoveryElapses, EntryExpires, BackendHeals
<1> QED
  BY <1>1, PTL DEF Spec, LateResultNeverCloses

-----------------------------------------------------------------------------

\* Every step of the breaker is a step of AdmissionControl or leaves it alone.
THEOREM AdmissionSafety ==
  Spec => Admission!Init /\ [][Admission!Next]_Admission!vars
<1> DEFINE inside == {c \in Callers : pc[c] = "inflight"}
<1>1. Init => Admission!Init
  BY DEF Init, Admission!Init
<1>2. TypeOK /\ [Next]_vars => [Admission!Next]_Admission!vars
  <2> SUFFICES ASSUME TypeOK, [Next]_vars PROVE [Admission!Next]_Admission!vars
    OBVIOUS
  <2> USE DEF breakerVars, cacheVars, callVars, vars, TypeOK
  <2>1. ASSUME NEW c \in Callers, Enter(c) \/ ShortCircuit(c) \/ ServeFallback(c)
        PROVE  UNCHANGED Admission!vars
    BY <2>1 DEF Enter, ShortCircuit, ServeFallback, Admission!vars
  <2>2. ASSUME NEW c \in Callers, Admit(c)
        PROVE  Admission!Admit(c)
    BY <2>2 DEF Admit, Admission!Admit
  <2>3. ASSUME NEW c \in Callers, BecomeProbe(c)
        PROVE  Admission!Probe(c)
    BY <2>3 DEF BecomeProbe, Admission!Probe
  <2>4. ASSUME NEW c \in Callers, GeneratorReturns(c)
        PROVE  Admission!Finish(c)
    <3>1. c \in inside /\ inside' = inside \ {c}
      BY <2>4 DEF GeneratorReturns, RecordSuccess, RecordFailure
    <3>2. state' \in IF state = "OPEN" THEN {"OPEN"} ELSE {"CLOSED", "OPEN"}
      BY <2>4 DEF GeneratorReturns, RecordSuccess, RecordFailure, OpenNow,
                  StayInState, Recovers
    <3> QED
      BY <3>1, <3>2 DEF Admission!Finish
  <2>5. ASSUME Reset
        PROVE  Admission!Reset
    BY <2>5 DEF Reset, Admission!Reset
  <2>6. CASE \/ RecoveryElapses \/ BackendHeals
             \/ (\E k \in Keys : EntryExpires(k)) \/ UNCHANGED vars
    BY <2>6 DEF RecoveryElapses, BackendHeals, EntryExpires, Admission!vars
  <2> QED
    BY <2>1, <2>2, <2>3, <2>4, <2>5, <2>6
    DEF Next, PreCall, Admission!Next
<1> QED
  BY <1>1, <1>2, TypeCorrect, PTL DEF Spec

-----------------------------------------------------------------------------

\* What is left of an injective sequence when its first elements go is injective,
\* and so is what is left when one element goes.
LEMMA SuffixOfInjective ==
  ASSUME NEW S, NEW s \in Seq(S), IsInjective(s), NEW m \in Nat
  PROVE  /\ IsInjective(SubSeq(s, m + 1, Len(s)))
         /\ ToSet(SubSeq(s, m + 1, Len(s))) \subseteq ToSet(s)
<1> DEFINE t == SubSeq(s, m + 1, Len(s))
<1>1. Len(s) \in Nat /\ DOMAIN s = 1..Len(s)
  BY LenProperties
<1>2. \A i \in (m + 1)..Len(s) : s[i] \in S
  BY <1>1, ElementOfSeq
<1>3. /\ t \in Seq(S)
      /\ Len(t) = IF m + 1 <= Len(s) THEN Len(s) - (m + 1) + 1 ELSE 0
      /\ \A i \in 1..(Len(s) - (m + 1) + 1) : t[i] = s[(m + 1) + i - 1]
  BY <1>1, <1>2, SubSeqProperties
<1> HIDE DEF t
<1>4. DOMAIN t = 1..Len(t)
  BY <1>3, LenProperties
<1>5. \A i \in DOMAIN t : (m + i) \in DOMAIN s /\ t[i] = s[m + i]
  <2> SUFFICES ASSUME NEW i \in DOMAIN t
               PROVE  (m + i) \in DOMAIN s /\ t[i] = s[m + i]
    OBVIOUS
  <2>1. i \in 1..(Len(s) - (m + 1) + 1)
    <3>1. Len(t) = IF m + 1 <= Len(s) THEN Len(s) - (m + 1) + 1 ELSE 0
      BY <1>3
    <3>2. i \in 1..Len(t)
      BY <1>4
    <3>3. CASE m + 1 <= Len(s)
      <4>1. Len(t) = Len(s) - (m + 1) + 1
        BY <3>1, <3>3
      <4> QED
        BY <3>2, <4>1
    <3>4. CASE ~(m + 1 <= Len(s))
      <4>1. i \in 1..0
        BY <3>1, <3>2, <3>4
      <4> QED
        BY <4>1
    <3> QED
      BY <3>3, <3>4
  <2>2. t[i] = s[(m + 1) + i - 1]
    BY <1>3, <2>1
  <2>3. (m + 1) + i - 1 = m + i /\ (m + i) \in 1..Len(s)
    BY <1>1, <2>1
  <2> QED
    BY <1>1, <2>2, <2>3
<1>6. IsInjective(t)
  BY <1>1, <1>3, <1>4, <1>5 DEF IsInjective
<1>7. ToSet(t) \subseteq ToSet(s)
  BY <1>5 DEF ToSet
<1> QED
  BY <1>6, <1>7 DEF t

LEMMA RemoveFromInjective ==
  ASSUME NEW S, NEW s \in Seq(S), IsInjective(s), NEW i \in DOMAIN s
  PROVE  /\ IsInjective(RemoveAt(s, i))
         /\ ToSet(RemoveAt(s, i)) = ToSet(s) \ {s[i]}
         /\ Len(RemoveAt(s, i)) = Len(s) - 1
<1> DEFINE a == SubSeq(s, 1, i - 1)
           b == SubSeq(s, i + 1, Len(s))
           t == a \o b
<1>1. Len(s) \in Nat /\ DOMAIN s = 1..Len(s) /\ i \in 1..Len(s)
  BY LenProperties
<1>2. \A j \in 1..Len(s) : s[j] \in S
  BY <1>1, ElementOfSeq
<1>3. /\ a \in Seq(S) /\ Len(a) = i - 1
      /\ \A j \in 1..(i - 1) : a[j] = s[j]
  BY <1>1, <1>2, SubSeqProperties
<1>4. /\ b \in Seq(S) /\ Len(b) = Len(s) - i
      /\ \A j \in 1..(Len(s) - i) : b[j] = s[i + j]
  BY <1>1, <1>2, SubSeqProperties
<1> HIDE DEF a, b
<1>5. /\ t \in Seq(S) /\ Len(t) = Len(s) - 1
      /\ \A j \in 1..(Len(s) - 1) : t[j] = IF j <= i - 1 THEN a[j] ELSE b[j - (i - 1)]
  <2>1. /\ t \in Seq(S) /\ Len(t) = Len(a) + Len(b)
        /\ \A j \in 1..(Len(a) + Len(b)) : t[j] = IF j <= Len(a) THEN a[j] ELSE b[j - Len(a)]
    BY <1>3, <1>4, ConcatProperties
  <2>2. Len(a) + Len(b) = Len(s) - 1
    BY <1>1, <1>3, <1>4
  <2> QED
    BY <1>3, <2>1, <2>2
<1> HIDE DEF t
<1>6. DOMAIN t = 1..(Len(s) - 1)
  BY <1>5, LenProperties
<1>7. \A j \in 1..(Len(s) - 1) : t[j] = IF j < i THEN s[j] ELSE s[j + 1]
  <2> SUFFICES ASSUME NEW j \in 1..(Len(s) - 1)
               PROVE  t[j] = IF j < i THEN s[j] ELSE s[j + 1]
    OBVIOUS
  <2>1. CASE j < i
    BY <2>1, <1>1, <1>3, <1>5
  <2>2. CASE ~(j < i)
    <3>1. j - (i - 1) \in 1..(Len(s) - i) /\ i + (j - (i - 1)) = j + 1
      BY <2>2, <1>1
    <3>2. b[j - (i - 1)] = s[i + (j - (i - 1))]
      BY <3>1, <1>4
    <3> QED
      BY <2>2, <3>1, <3>2, <1>1, <1>5
  <2> QED
    BY <2>1, <2>2
<1>8. IsInjective(t)
  BY <1>1, <1>6, <1>7 DEF IsInjective
<1>9. ToSet(t) = ToSet(s) \ {s[i]}
  <2>1. ToSet(t) \subseteq ToSet(s) \ {s[i]}
    BY <1>1, <1>6, <1>7 DEF ToSet, IsInjective
  <2>2. ASSUME NEW j \in DOMAIN s, s[j] # s[i]
        PROVE  s[j] \in ToSet(t)
    <3>1. CASE j < i
      BY <2>2, <3>1, <1>1, <1>6, <1>7 DEF ToSet
    <3>2. CASE j > i
      <4>1. j - 1 \in 1..(Len(s) - 1) /\ t[j - 1] = s[j]
        BY <3>2, <1>1, <1>7
      <4> QED
        BY <4>1, <1>6 DEF ToSet
    <3> QED
      BY <2>2, <3>1, <3>2, <1>1
  <2> QED
    BY <2>1, <2>2 DEF ToSet
<1> QED
  BY <1>5, <1>8, <1>9 DEF t, a, b, RemoveAt

\* _write_cache keeps the eviction order in step with the cache.
LEMMA WriteCacheAgrees ==
  ASSUME TypeOK, CacheOrderAgrees, NEW k \in Keys, WriteCache(k)
  PROVE  CacheOrderAgrees'
<1> DEFINE order == IF Contains(cache_order, k) THEN cache_order
                                                ELSE Append(cache_order, k)
           excess == IF Len(order) > CacheMax THEN Len(order) - CacheMax ELSE 0
           evicted == ToSet(Append(cache_order, k)) \ ToSet(OrderAfterWrite(k))
<1>1. /\ cache_order \in Seq(Keys) /\ Len(cache_order) \in Nat
      /\ DOMAIN cache_order = 1..Len(cache_order)
  BY LenProperties DEF TypeOK
<1>2. /\ Append(cache_order, k) \in Seq(Keys)
      /\ Len(Append(cache_order, k)) = Len(cache_order) + 1
      /\ \A i \in 1..Len(cache_order) : Append(cache_order, k)[i] = cache_order[i]
      /\ Append(cache_order, k)[Len(cache_order) + 1] = k
  BY <1>1, AppendProperties
<1>3. DOMAIN Append(cache_order, k) = 1..(Len(cache_order) + 1)
  BY <1>2, LenProperties
<1>4. ToSet(Append(cache_order, k)) = ToSet(cache_order) \cup {k}
  BY <1>1, <1>2, <1>3 DEF ToSet
<1>5. /\ order \in Seq(Keys) /\ IsInjective(order)
      /\ ToSet(order) = ToSet(cache_order) \cup {k}
  <2>1. CASE Contains(cache_order, k)
    BY <2>1, <1>1 DEF Contains, ToSet, CacheOrderAgrees
  <2>2. CASE ~Contains(cache_order, k)
    <3>1. IsInjective(Append(cache_order, k))
      BY <2>2, <1>1, <1>2, <1>3 DEF Contains, IsInjective, CacheOrderAgrees
    <3> QED
      BY <2>2, <3>1, <1>2, <1>4
  <2> QED
    BY <2>1, <2>2
<1>6. Len(order) \in Nat
  BY <1>5, LenProperties
<1> HIDE DEF order
<1>7. excess \in Nat
  BY <1>6, CacheAssumption
<1>8. cache_order' = SubSeq(order, excess + 1, Len(order))
  BY DEF WriteCache, OrderAfterWrite, order
<1>9. /\ IsInjective(cache_order')
      /\ ToSet(cache_order') \subseteq ToSet(cache_order) \cup {k}
  BY <1>5, <1>7, <1>8, SuffixOfInjective
<1>10. Len(cache_order') <= CacheMax
  <2>1. \A i \in (excess + 1)..Len(order) : order[i] \in Keys
    BY <1>5, <1>6, <1>7, ElementOfSeq
  <2>2. Len(cache_order') = IF excess + 1 <= Len(order)
                            THEN Len(order) - (excess + 1) + 1 ELSE 0
    <3> HIDE DEF excess
    <3> QED BY <2>1, <1>6, <1>7, <1>8, SubSeqProperties
  <2> QED
    BY <2>2, <1>6, CacheAssumption
<1>11. ToSet(cache_order') = {q \in Keys : cache'[q] # "absent"}
  <2>1. /\ cache' = [q \in Keys |-> IF q \in evicted THEN "absent"
                                    ELSE IF q = k THEN "fresh" ELSE cache[q]]
        /\ evicted = (ToSet(cache_order) \cup {k}) \ ToSet(cache_order')
    BY <1>4 DEF WriteCache
  <2>2. ToSet(cache_order) = {q \in Keys : cache[q] # "absent"}
    BY DEF CacheOrderAgrees
  <2> HIDE DEF evicted
  <2> QED
    BY <2>1, <2>2, <1>9
<1> QED
  BY <1>9, <1>10, <1>11 DEF CacheOrderAgrees

\* The removal of an expired entry does, too.
LEMMA DropAgrees ==
  ASSUME TypeOK, CacheOrderAgrees, NEW k \in Keys,
         cache[k] = "expired", cache' = [cache EXCEPT ![k] = "absent"],
         DropFromOrder(k)
  PROVE  CacheOrderAgrees'
<1>1. /\ cache_order \in Seq(Keys) /\ Len(cache_order) \in Nat
      /\ DOMAIN cache_order = 1..Len(cache_order)
      /\ cache \in [Keys -> {"absent", "fresh", "expired"}]
  BY LenProperties DEF TypeOK
<1>2. k \in ToSet(cache_order)
  BY DEF CacheOrderAgrees
<1>3. Contains(cache_order, k)
  BY <1>1, <1>2 DEF ToSet, Contains
<1>4. PICK i \in DOMAIN cache_order :
        cache_order[i] = k /\ cache_order' = RemoveAt(cache_order, i)
  BY <1>3 DEF DropFromOrder
<1>5. /\ IsInjective(cache_order')
      /\ ToSet(cache_order') = ToSet(cache_order) \ {k}
      /\ Len(cache_order') = Len(cache_order) - 1
  BY <1>1, <1>4, RemoveFromInjective DEF CacheOrderAgrees
<1>6. {q \in Keys : cache'[q] # "absent"} = {q \in Keys : cache[q] # "absent"} \ {k}
  BY <1>1
<1> QED
  BY <1>1, <1>5, <1>6, CacheAssumption DEF CacheOrderAgrees

\* The eviction order lists exactly the cached keys, whatever is written, evicted
\* or found expired.
THEOREM CacheOrderIsExact == Spec => []CacheOrderAgrees
<1>1. Init => CacheOrderAgrees
  <2> SUFFICES ASSUME Init PROVE CacheOrderAgrees
    OBVIOUS
  <2>1. cache_order = <<>> /\ \A q \in Keys : cache[q] = "absent"
    BY DEF Init
  <2>2. Len(cache_order) = 0 /\ DOMAIN cache_order = {}
    BY <2>1, EmptySeq
  <2> QED
    BY <2>1, <2>2, CacheAssumption DEF CacheOrderAgrees, ToSet, IsInjective
<1>2. TypeOK /\ CacheOrderAgrees /\ [Next]_vars => CacheOrderAgrees'
  <2> SUFFICES ASSUME TypeOK, CacheOrderAgrees, [Next]_vars PROVE CacheOrderAgrees'
    OBVIOUS
  <2>1. ASSUME UNCHANGED cacheVars PROVE CacheOrderAgrees'
    BY <2>1 DEF cacheVars, CacheOrderAgrees
  <2>2. ASSUME NEW c \in Callers, Enter(c) \/ PreCall(c)
        PROVE  CacheOrderAgrees'
    BY <2>1, <2>2 DEF Enter, PreCall, Admit, BecomeProbe, ShortCircuit, cacheVars
  <2>3. ASSUME NEW c \in Callers, NEW sample \in {"fast", "slow"},
               RecordSuccess(c, sample)
        PROVE  CacheOrderAgrees'
    <3>1. PICK k \in Keys : WriteCache(k)
      BY <2>3 DEF RecordSuccess
    <3> QED
      BY <3>1, WriteCacheAgrees
  <2>4. ASSUME NEW c \in Callers, NEW sample \in {"fast", "slow"},
               NEW is_timeout \in BOOLEAN, RecordFailure(c, is_timeout, sample)
        PROVE  CacheOrderAgrees'
    BY <2>1, <2>4 DEF RecordFailure, cacheVars
  <2>5. ASSUME NEW c \in Callers, ServeFallback(c)
        PROVE  CacheOrderAgrees'
    <3>1. PICK k \in Keys :
            IF cache[k] = "expired"
            THEN cache' = [cache EXCEPT ![k] = "absent"] /\ DropFromOrder(k)
            ELSE UNCHANGED cacheVars
      BY <2>5 DEF ServeFallback
    <3> QED
      BY <3>1, <2>1, DropAgrees
  <2>6. ASSUME NEW k \in Keys, EntryExpires(k)
        PROVE  CacheOrderAgrees'
    <3>1. {q \in Keys : cache'[q] # "absent"} = {q \in Keys : cache[q] # "absent"}
      BY <2>6 DEF EntryExpires, TypeOK
    <3>2. cache_order' = cache_order
      BY <2>6 DEF EntryExpires
    <3> QED
      BY <3>1, <3>2 DEF CacheOrderAgrees
  <2>7. CASE Reset \/ RecoveryElapses \/ BackendHeals \/ UNCHANGED vars
    BY <2>1, <2>7 DEF Reset, RecoveryElapses, BackendHeals, vars, cacheVars
  <2> QED
    BY <2>2, <2>3, <2>4, <2>5, <2>6, <2>7 DEF Next, GeneratorReturns
<1> QED
  BY <1>1, <1>2, TypeCorrect, PTL DEF Spec

=============================================================================
