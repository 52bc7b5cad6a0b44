--------------------------- MODULE LLMQueueProofs ---------------------------
(***************************************************************************)
(* Proofs about LLMQueue, for any finite sets of requests and workers, any *)
(* caps and any assignment of priorities.                                  *)
(***************************************************************************)
EXTENDS LLMQueue, FiniteSetTheorems, TLAPS

-----------------------------------------------------------------------------
\* Types

LEMMA TypeInit == Init => TypeOK
BY CapAssumption DEF Init, TypeOK

LEMMA CallType ==
  ASSUME TypeOK, NEW r \in Requests, Call(r)
  PROVE  TypeOK'
<1> USE DEF TypeOK, Move, requestVars, workerVars, slotVars
<1>1. CASE Submit(r)
  <2> DEFINE submitted == {q \in Requests : caller[q] # "new"}
  <2>1. Cardinality(submitted) \in Nat
    BY FS_Subset, FS_CardinalityType, FiniteAssumption
  <2>2. timestamp' \in [Requests -> Nat]
    BY <1>1, <2>1 DEF Submit
  <2> QED
    BY <1>1, <2>2 DEF Submit
<1>2. CASE Preempt(r)
  BY <1>2 DEF Preempt
<1>3. CASE Track(r)
  BY <1>3 DEF Track
<1>4. CASE Put(r)
  BY <1>4 DEF Put
<1>5. CASE Return(r)
  BY <1>5 DEF Return
<1> QED
  BY <1>1, <1>2, <1>3, <1>4, <1>5 DEF Call

\* A busy worker has a request, and the request a priority.
LEMMA BusyWorker ==
  ASSUME TypeOK, NEW w \in Workers, worker[w] # "idle"
  PROVE  job[w] \in Requests /\ PriorityAt(w) \in Priority
BY PrioAssumption DEF TypeOK, PriorityAt

LEMMA WorkType ==
  ASSUME TypeOK, NEW w \in Workers, Work(w)
  PROVE  TypeOK'
<1> USE NoneAssumption DEF TypeOK, Goto, callerVars, requestVars, workerVars, slotVars
<1>1. CASE Get(w)
  <2> PICK r \in queue : \/ Discard(w, r)
                         \/ Begin(w, r, "acquire") /\ UNCHANGED <<done, preempted>>
    BY <1>1 DEF Get
  <2> QED
    BY <1>1 DEF Get, Discard, Begin
<1>2. CASE AcquirePermit(w)
  BY <1>2, BusyWorker DEF AcquirePermit
<1>3. CASE BumpInflight(w)
  BY <1>3, BusyWorker DEF BumpInflight
<1>4. CASE Finish(w)
  BY <1>4, BusyWorker DEF Finish
<1>5. CASE DropInflight(w)
  BY <1>5, BusyWorker DEF DropInflight
<1>6. CASE ReleasePermit(w)
  BY <1>6, BusyWorker DEF ReleasePermit, NextIteration
<1> QED
  BY <1>1, <1>2, <1>3, <1>4, <1>5, <1>6 DEF Work

\* Every step keeps every variable within its type.
THEOREM TypeCorrect == Spec => []TypeOK
<1>1. TypeOK /\ [Next]_vars => TypeOK'
  <2> SUFFICES ASSUME TypeOK, [Next]_vars PROVE TypeOK'
    OBVIOUS
  <2>1. CASE UNCHANGED vars
    BY <2>1 DEF TypeOK, vars, callerVars, requestVars, workerVars, slotVars
  <2> QED
    BY <2>1, CallType, WorkType DEF Next
<1> QED
  BY <1>1, TypeInit, PTL DEF Spec

-----------------------------------------------------------------------------
\* Permits and counters

SlotInv ==
  \A p \in Priority :
    /\ permits[p] + Cardinality(Holders(p)) = Cap[p]
    /\ inflight[p] = Cardinality(Counted(p))

LEMMA SlotSetsFinite ==
  ASSUME NEW p
  PROVE  /\ IsFiniteSet(Holders(p)) /\ Cardinality(Holders(p)) \in Nat
         /\ IsFiniteSet(Counted(p)) /\ Cardinality(Counted(p)) \in Nat
         /\ Cardinality(Counted(p)) <= Cardinality(Holders(p))
<1>1. /\ Holders(p) \in SUBSET Workers
      /\ Counted(p) \in SUBSET Workers
      /\ Counted(p) \in SUBSET Holders(p)
  BY DEF Holders, Counted
<1> QED
  BY <1>1, FS_Subset, FS_CardinalityType, FiniteAssumption

\* A caller touches neither the workers nor their slots.
LEMMA CallKeepsSlots ==
  ASSUME SlotInv, UNCHANGED <<workerVars, slotVars>>
  PROVE  SlotInv'
BY DEF SlotInv, Holders, Counted, PriorityAt, workerVars, slotVars

\* Each step of a worker moves it, and only it, into or out of at most one of
\* the two sets of its priority, and the matching number moves along.
LEMMA WorkKeepsSlots ==
  ASSUME TypeOK, SlotInv, NEW w \in Workers, Work(w)
  PROVE  SlotInv'
<1> SUFFICES ASSUME NEW p \in Priority
             PROVE  /\ permits'[p] + Cardinality(Holders(p)') = Cap[p]
                    /\ inflight'[p] = Cardinality(Counted(p)')
  BY DEF SlotInv
<1> USE SlotSetsFinite, CapAssumption
<1>a. /\ permits[p] + Cardinality(Holders(p)) = Cap[p]
      /\ inflight[p] = Cardinality(Counted(p))
      /\ permits[p] \in Nat /\ inflight[p] \in Nat /\ Cap[p] \in Nat
  BY DEF SlotInv, TypeOK
<1> DEFINE mine == PriorityAt(w) = p
<1>1. CASE Get(w)
  <2>1. Holders(p)' = Holders(p) /\ Counted(p)' = Counted(p)
    BY <1>1 DEF Get, Discard, Begin, Holders, Counted, PriorityAt, TypeOK, workerVars
  <2> QED
    BY <1>1, <1>a, <2>1 DEF Get, slotVars
<1>2. CASE AcquirePermit(w)
  <2>1. Counted(p)' = Counted(p)
    BY <1>2 DEF AcquirePermit, Goto, Counted, PriorityAt, TypeOK
  <2>2. Holders(p)' = IF mine THEN Holders(p) \cup {w} ELSE Holders(p)
    BY <1>2 DEF AcquirePermit, Goto, Holders, PriorityAt, TypeOK
  <2>3. w \notin Holders(p)
    BY <1>2 DEF AcquirePermit, Holders
  <2>4. permits'[p] = IF mine THEN permits[p] - 1 ELSE permits[p]
    BY <1>2, BusyWorker DEF AcquirePermit, TypeOK
  <2>5. Cardinality(Holders(p)') =
          IF mine THEN Cardinality(Holders(p)) + 1 ELSE Cardinality(Holders(p))
    BY <2>2, <2>3, FS_AddElement
  <2> QED
    BY <1>2, <1>a, <2>1, <2>4, <2>5 DEF AcquirePermit
<1>3. CASE BumpInflight(w)
  <2>1. Holders(p)' = Holders(p)
    BY <1>3 DEF BumpInflight, Goto, Holders, PriorityAt, TypeOK
  <2>2. Counted(p)' = IF mine THEN Counted(p) \cup {w} ELSE Counted(p)
    BY <1>3 DEF BumpInflight, Goto, Counted, PriorityAt, TypeOK
  <2>3. w \notin Counted(p)
    BY <1>3 DEF BumpInflight, Counted
  <2>4. inflight'[p] = IF mine THEN inflight[p] + 1 ELSE inflight[p]
    BY <1>3, BusyWorker DEF BumpInflight, TypeOK
  <2>5. Cardinality(Counted(p)') =
          IF mine THEN Cardinality(Counted(p)) + 1 ELSE Cardinality(Counted(p))
    BY <2>2, <2>3, FS_AddElement
  <2> QED
    BY <1>3, <1>a, <2>1, <2>4, <2>5 DEF BumpInflight
<1>4. CASE Finish(w)
  <2>1. Holders(p)' = Holders(p) /\ Counted(p)' = Counted(p)
    BY <1>4 DEF Finish, Goto, Holders, Counted, PriorityAt, TypeOK
  <2> QED
    BY <1>4, <1>a, <2>1 DEF Finish, slotVars
<1>5. CASE DropInflight(w)
  <2>1. Holders(p)' = Holders(p)
    BY <1>5 DEF DropInflight, Goto, Holders, PriorityAt, TypeOK
  <2>2. Counted(p)' = IF mine THEN Counted(p) \ {w} ELSE Counted(p)
    BY <1>5 DEF DropInflight, Goto, Counted, PriorityAt, TypeOK
  <2>3. mine => w \in Counted(p)
    BY <1>5 DEF DropInflight, Counted
  <2>4. Cardinality(Counted(p)') =
          IF mine THEN Cardinality(Counted(p)) - 1 ELSE Cardinality(Counted(p))
    BY <2>2, <2>3, FS_RemoveElement
  <2>5. Cardinality(Counted(p)') \in Nat
    BY <2>2, FS_RemoveElement, FS_CardinalityType
  <2>6. mine => inflight[p] > 0
    BY <1>a, <2>4, <2>5
  <2>7. inflight'[p] = IF mine THEN inflight[p] - 1 ELSE inflight[p]
    BY <1>5, <2>6, BusyWorker DEF DropInflight, TypeOK
  <2> QED
    BY <1>5, <1>a, <2>1, <2>4, <2>7 DEF DropInflight
<1>6. CASE ReleasePermit(w)
  <2>1. Counted(p)' = Counted(p)
    BY <1>6, NoneAssumption DEF ReleasePermit, NextIteration, Counted, PriorityAt, TypeOK
  <2>2. Holders(p)' = IF mine THEN Holders(p) \ {w} ELSE Holders(p)
    BY <1>6, NoneAssumption DEF ReleasePermit, NextIteration, Holders, PriorityAt, TypeOK
  <2>3. mine => w \in Holders(p)
    BY <1>6 DEF ReleasePermit, Holders
  <2>4. Cardinality(Holders(p)') =
          IF mine THEN Cardinality(Holders(p)) - 1 ELSE Cardinality(Holders(p))
    BY <2>2, <2>3, FS_RemoveElement
  <2>5. Cardinality(Holders(p)') \in Nat
    BY <2>2, FS_RemoveElement, FS_CardinalityType
  <2>6. mine => permits[p] < Cap[p]
    BY <1>a, <2>4, <2>5
  <2>7. permits'[p] = IF mine THEN permits[p] + 1 ELSE permits[p]
    BY <1>6, <2>6, BusyWorker DEF ReleasePermit, TypeOK
  <2> QED
    BY <1>6, <1>a, <2>1, <2>4, <2>7 DEF ReleasePermit
<1> QED
  BY <1>1, <1>2, <1>3, <1>4, <1>5, <1>6 DEF Work

LEMMA SlotInvAlways == Spec => []SlotInv
<1>1. Init => SlotInv
  <2> SUFFICES ASSUME Init, NEW p \in Priority
               PROVE  /\ permits[p] + Cardinality(Holders(p)) = Cap[p]
                      /\ inflight[p] = Cardinality(Counted(p))
    BY DEF SlotInv
  <2>1. Holders(p) = {} /\ Counted(p) = {}
    BY DEF Init, Holders, Counted
  <2> QED
    BY <2>1, FS_EmptySet, CapAssumption DEF Init
<1>2. TypeOK /\ SlotInv /\ [Next]_vars => SlotInv'
  <2> SUFFICES ASSUME TypeOK, SlotInv, [Next]_vars PROVE SlotInv'
    OBVIOUS
  <2>1. CASE UNCHANGED vars
    BY <2>1, CallKeepsSlots DEF vars
  <2>2. ASSUME NEW r \in Requests, Call(r) PROVE SlotInv'
    BY <2>2, CallKeepsSlots DEF Call, Submit, Preempt, Track, Put, Return
  <2> QED
    BY <2>1, <2>2, WorkKeepsSlots DEF Next
<1> QED
  BY <1>1, <1>2, TypeCorrect, PTL DEF Spec

\* However requests are cancelled, fail or are abandoned, each priority's permits
\* and the workers that hold one add up to its cap.
THEOREM PermitsAreAccounted == Spec => []PermitsAccounted
<1>1. SlotInv => PermitsAccounted
  BY DEF SlotInv, PermitsAccounted
<1> QED
  BY <1>1, SlotInvAlways, PTL

\* The in-flight counters are exact and never exceed the caps, although they are
\* changed neither under the queue's lock nor together with the semaphores.
THEOREM InflightIsWithinCap == Spec => []InflightWithinCap
<1>1. TypeOK /\ SlotInv => InflightWithinCap
  <2> SUFFICES ASSUME TypeOK, SlotInv, NEW p \in Priority
               PROVE  inflight[p] = Cardinality(Counted(p)) /\ inflight[p] <= Cap[p]
    BY DEF InflightWithinCap
  <2>1. permits[p] \in Nat /\ Cap[p] \in Nat
    BY CapAssumption DEF TypeOK
  <2> QED
    BY <2>1, SlotSetsFinite DEF SlotInv
<1> QED
  BY <1>1, TypeCorrect, SlotInvAlways, PTL

-----------------------------------------------------------------------------
\* Preemption

\* A request that was not put yet, or is still in the queue, was neither run nor
\* discarded, and one that a worker took was not discarded.
FreshInv ==
  /\ \A r \in Requests :
       caller[r] \in {"new", "scan", "track", "put"} \/ r \in queue
         => /\ r \notin ran /\ r \notin preempted
            /\ \A w \in Workers : job[w] # r
  /\ \A r \in Requests :
       caller[r] \in {"new", "scan", "track", "put"} => r \notin queue
  /\ \A w \in Workers : job[w] \notin preempted
  /\ preempted \cap ran = {}

LEMMA FreshAlways == Spec => []FreshInv
<1>1. Init => FreshInv
  BY NoneAssumption DEF Init, FreshInv
<1>2. TypeOK /\ FreshInv /\ [Next]_vars => FreshInv'
  <2> SUFFICES ASSUME TypeOK, FreshInv, [Next]_vars PROVE FreshInv'
    OBVIOUS
  <2> USE NoneAssumption
      DEF TypeOK, FreshInv, callerVars, requestVars, workerVars, slotVars
  <2>1. CASE UNCHANGED vars
    BY <2>1 DEF vars
  <2>2. ASSUME NEW r \in Requests, Call(r) PROVE FreshInv'
    <3> USE DEF Move
    <3>1. CASE Submit(r)
      BY <3>1 DEF Submit
    <3>2. CASE Preempt(r)
      BY <3>2 DEF Preempt
    <3>3. CASE Track(r)
      BY <3>3 DEF Track
    <3>4. CASE Put(r)
      BY <3>4 DEF Put
    <3>5. CASE Return(r)
      BY <3>5 DEF Return
    <3> QED
      BY <2>2, <3>1, <3>2, <3>3, <3>4, <3>5 DEF Call
  <2>3. ASSUME NEW w \in Workers, Work(w) PROVE FreshInv'
    <3>1. CASE Get(w)
      <4> PICK r \in queue :
            /\ queue' = queue \ {r}
            /\ \/ Discard(w, r)
               \/ Begin(w, r, "acquire") /\ UNCHANGED <<done, preempted>>
        BY <3>1 DEF Get
      <4>1. CASE Discard(w, r)
        BY <3>1, <4>1 DEF Get, Discard
      <4>2. CASE Begin(w, r, "acquire") /\ UNCHANGED <<done, preempted>>
        BY <3>1, <4>2 DEF Get, Begin
      <4> QED
        BY <4>1, <4>2
    <3>2. CASE BumpInflight(w)
      BY <3>2, BusyWorker DEF BumpInflight, Goto
    <3>3. CASE AcquirePermit(w) \/ Finish(w) \/ DropInflight(w)
      BY <3>3 DEF AcquirePermit, Finish, DropInflight, Goto
    <3>4. CASE ReleasePermit(w)
      BY <3>4 DEF ReleasePermit, NextIteration
    <3> QED
      BY <2>3, <3>1, <3>2, <3>3, <3>4 DEF Work
  <2> QED
    BY <2>1, <2>2, <2>3 DEF Next
<1> QED
  BY <1>1, <1>2, TypeCorrect, PTL DEF Spec

\* A caller that is told that its request was preempted can safely submit it
\* again.
THEOREM PreemptedNeverRuns == Spec => []PreemptedNeverRan
<1>1. FreshInv => PreemptedNeverRan
  BY DEF FreshInv, PreemptedNeverRan
<1> QED
  BY <1>1, FreshAlways, PTL

-----------------------------------------------------------------------------
\* Requests

\* What a worker works on after the execution is answered.
AnsweredInv ==
  \A w \in Workers : worker[w] \in {"drop", "release"} => job[w] \in done

\* Put is the only way into the queue, and a worker that takes a request answers
\* it or keeps it as its job.
LEMMA WorkLosesNothing ==
  ASSUME TypeOK, AnsweredInv, NeverLost, NEW w \in Workers, Work(w)
  PROVE  AnsweredInv' /\ NeverLost'
<1> USE NoneAssumption
    DEF TypeOK, AnsweredInv, NeverLost, Goto, callerVars, requestVars, workerVars, slotVars
<1>1. CASE Get(w)
  <2> PICK r \in queue :
        /\ queue' = queue \ {r}
        /\ \/ Discard(w, r)
           \/ Begin(w, r, "acquire") /\ UNCHANGED <<done, preempted>>
    BY <1>1 DEF Get
  <2>1. CASE Discard(w, r)
    BY <1>1, <2>1 DEF Get, Discard
  <2>2. CASE Begin(w, r, "acquire") /\ UNCHANGED <<done, preempted>>
    <3>1. /\ job' = [job EXCEPT ![w] = r]
          /\ worker' = [worker EXCEPT ![w] = "acquire"]
          /\ job[w] = None
      BY <1>1, <2>2 DEF Get, Begin
    <3> QED
      BY <1>1, <2>2, <3>1 DEF Get
  <2> QED
    BY <2>1, <2>2
<1>2. CASE AcquirePermit(w) \/ BumpInflight(w) \/ DropInflight(w)
  BY <1>2 DEF AcquirePermit, BumpInflight, DropInflight
<1>3. CASE Finish(w)
  BY <1>3 DEF Finish
<1>4. CASE ReleasePermit(w)
  <2>1. /\ job' = [job EXCEPT ![w] = None]
        /\ worker' = [worker EXCEPT ![w] = "idle"]
        /\ job[w] \in done
    BY <1>4 DEF ReleasePermit, NextIteration
  <2> QED
    BY <1>4, <2>1 DEF ReleasePermit
<1> QED
  BY <1>1, <1>2, <1>3, <1>4 DEF Work

LEMMA AnsweredAlways == Spec => [](AnsweredInv /\ NeverLost)
<1>1. Init => AnsweredInv /\ NeverLost
  BY DEF Init, AnsweredInv, NeverLost
<1>2. TypeOK /\ AnsweredInv /\ NeverLost /\ [Next]_vars => AnsweredInv' /\ NeverLost'
  <2> SUFFICES ASSUME TypeOK, AnsweredInv, NeverLost, [Next]_vars
               PROVE  AnsweredInv' /\ NeverLost'
    OBVIOUS
  <2>1. CASE UNCHANGED vars
    BY <2>1 DEF vars, AnsweredInv, NeverLost, callerVars, requestVars, workerVars
  <2>2. ASSUME NEW r \in Requests, Call(r) PROVE AnsweredInv' /\ NeverLost'
    <3> USE DEF TypeOK, AnsweredInv, NeverLost, Move, requestVars, workerVars
    <3>1. CASE Submit(r) \/ Preempt(r) \/ Track(r)
      BY <3>1 DEF Submit, Preempt, Track
    <3>2. CASE Put(r) \/ Return(r)
      BY <3>2 DEF Put, Return
    <3> QED
      BY <2>2, <3>1, <3>2 DEF Call
  <2> QED
    BY <2>1, <2>2, WorkLosesNothing DEF Next
<1> QED
  BY <1>1, <1>2, TypeCorrect, PTL DEF Spec

\* A request that was put is in the queue, with a worker, or answered, also if it
\* was cancelled or its caller has stopped waiting.
THEOREM NothingLost == Spec => []NeverLost
BY AnsweredAlways, PTL

-----------------------------------------------------------------------------
\* Execution

Unput == {"new", "scan", "track", "put"}

\* Two workers never have the same request, and the request of a worker that has
\* not executed it was neither executed nor answered by anybody else.
SoleInv ==
  /\ \A v, w \in Workers : job[v] = job[w] /\ job[v] # None => v = w
  /\ \A w \in Workers :
       /\ worker[w] \in {"acquire", "bump"} => job[w] \notin ran
       /\ worker[w] \in {"acquire", "bump", "execute"} => job[w] \notin done
  /\ \A r \in Requests : caller[r] \in Unput \/ r \in queue => r \notin done

\* Get is the only step that hands out a request, and it takes it from the queue.
LEMMA WorkKeepsSole ==
  ASSUME TypeOK, FreshInv, SoleInv, NEW w \in Workers, Work(w)
  PROVE  SoleInv'
<1> USE NoneAssumption
    DEF TypeOK, SoleInv, Unput, callerVars, requestVars, workerVars, slotVars
<1>1. CASE Get(w)
  <2> PICK r \in queue :
        /\ queue' = queue \ {r}
        /\ \/ Discard(w, r)
           \/ Begin(w, r, "acquire") /\ UNCHANGED <<done, preempted>>
    BY <1>1 DEF Get
  <2>1. /\ r \notin ran /\ r \notin done /\ caller[r] \notin Unput
        /\ \A v \in Workers : job[v] # r
    BY DEF FreshInv
  <2>2. CASE Discard(w, r)
    BY <1>1, <2>1, <2>2 DEF Get, Discard
  <2>3. CASE Begin(w, r, "acquire") /\ UNCHANGED <<done, preempted>>
    BY <1>1, <2>1, <2>3 DEF Get, Begin
  <2> QED
    BY <2>2, <2>3
<1>2. CASE AcquirePermit(w) \/ DropInflight(w)
  BY <1>2 DEF AcquirePermit, DropInflight, Goto
<1>3. CASE BumpInflight(w)
  BY <1>3, BusyWorker DEF BumpInflight, Goto
<1>4. CASE Finish(w)
  BY <1>4, BusyWorker DEF Finish, Goto, FreshInv
<1>5. CASE ReleasePermit(w)
  BY <1>5 DEF ReleasePermit, NextIteration
<1> QED
  BY <1>1, <1>2, <1>3, <1>4, <1>5 DEF Work

LEMMA SoleAlways == Spec => []SoleInv
<1>1. Init => SoleInv
  BY NoneAssumption DEF Init, SoleInv
<1>2. TypeOK /\ FreshInv /\ SoleInv /\ [Next]_vars => SoleInv'
  <2> SUFFICES ASSUME TypeOK, FreshInv, SoleInv, [Next]_vars PROVE SoleInv'
    OBVIOUS
  <2> USE DEF SoleInv, callerVars, requestVars, workerVars, slotVars
  <2>1. CASE UNCHANGED vars
    BY <2>1 DEF vars
  <2>2. ASSUME NEW r \in Requests, Call(r) PROVE SoleInv'
    <3> USE <2>2 DEF TypeOK, Unput, Move, FreshInv
    <3>1. CASE Submit(r) \/ Preempt(r) \/ Track(r)
      BY <3>1 DEF Submit, Preempt, Track
    <3>2. CASE Put(r) \/ Return(r)
      BY <3>2 DEF Put, Return
    <3> QED
      BY <3>1, <3>2 DEF Call
  <2> QED
    BY <2>1, <2>2, WorkKeepsSole DEF Next
<1> QED
  BY <1>1, <1>2, TypeCorrect, FreshAlways, PTL DEF Spec

\* Nothing is given to _execute_llm_request that was given to it before.
ExecutedOnce == [][\A w \in Workers : BumpInflight(w) => job[w] \notin ran]_vars

\* A request is executed once at most, however many workers look at the queue and
\* whatever became of its caller.
THEOREM ExecutionIsUnique == Spec => ExecutedOnce
<1>1. SoleInv /\ [Next]_vars => [\A w \in Workers : BumpInflight(w) => job[w] \notin ran]_vars
  BY DEF SoleInv, BumpInflight
<1> QED
  BY <1>1, SoleAlways, PTL DEF Spec, ExecutedOnce

-----------------------------------------------------------------------------
\* Progress

LEMMA SmallestOf ==
  ASSUME NEW S, S \subseteq Nat, S # {}
  PROVE  \E m \in S : \A n \in S : m <= n
<1>1. PICK m \in S : \A n \in S : <<n, m>> \notin OpToRel(<, Nat)
  BY WFMin, NatLessThanWellFounded, Zenon
<1>2. \A n \in S : ~(n < m)
  BY <1>1 DEF OpToRel
<1> QED
  BY <1>2

\* The heap always has a head.
LEMMA HeadExists ==
  ASSUME TypeOK, queue # {}
  PROVE  \E r \in queue : \A q \in queue : ~MoreUrgent(q, r)
<1>1. \A q \in queue : prio[q] \in Nat /\ timestamp[q] \in Nat
  <2>1. Priority \subseteq Nat
    BY PriorityAssumption DEF Aaron, Background
  <2> QED
    BY <2>1, PrioAssumption DEF TypeOK
<1>2. PICK p \in {prio[q] : q \in queue} : \A n \in {prio[q] : q \in queue} : p <= n
  <2>1. {prio[q] : q \in queue} \subseteq Nat /\ {prio[q] : q \in queue} # {}
    BY <1>1
  <2> QED
    BY <2>1, SmallestOf, Zenon
<1> DEFINE top == {q \in queue : prio[q] = p}
<1>3. PICK t \in {timestamp[q] : q \in top} : \A n \in {timestamp[q] : q \in top} : t <= n
  <2>1. {timestamp[q] : q \in top} \subseteq Nat /\ {timestamp[q] : q \in top} # {}
    BY <1>1, <1>2
  <2> HIDE DEF top
  <2> QED
    BY <2>1, SmallestOf, Zenon
<1>4. PICK r \in queue : prio[r] = p /\ timestamp[r] = t
  BY <1>3
<1>5. \A q \in queue : ~MoreUrgent(q, r)
  <2> SUFFICES ASSUME NEW q \in queue PROVE ~MoreUrgent(q, r)
    OBVIOUS
  <2>1. p <= prio[q] /\ (prio[q] = p => t <= timestamp[q])
    BY <1>2, <1>3
  <2> QED
    BY <1>1, <1>4, <2>1 DEF MoreUrgent
<1> QED
  BY <1>5

\* What the step that a worker is at asks for.
CanWork(w) ==
  \/ worker[w] = "idle" /\ \E r \in queue : \A q \in queue : ~MoreUrgent(q, r)
  \/ worker[w] = "acquire" /\ permits[PriorityAt(w)] > 0
  \/ worker[w] \in {"bump", "execute", "drop", "release"}

\* Whoever waits for a permit waits for a worker that holds one.
LEMMA BlockedWaitsForHolder ==
  ASSUME TypeOK, SlotInv, NEW w \in Workers, worker[w] = "acquire", ~CanWork(w)
  PROVE  \E v \in Holders(PriorityAt(w)) : CanWork(v)
<1> DEFINE p == PriorityAt(w)
<1>1. p \in Priority
  BY BusyWorker
<1>2. permits[p] = 0 /\ Cap[p] \in Nat \ {0}
  BY <1>1, CapAssumption DEF CanWork, TypeOK
<1>3. Cardinality(Holders(p)) # 0
  BY <1>1, <1>2, SlotSetsFinite DEF SlotInv
<1>4. Holders(p) # {}
  BY <1>3, FS_EmptySet
<1> QED
  BY <1>4 DEF Holders, CanWork

\* As long as a request that was put has no answer, some worker can take its next
\* step.
PoolIsAlive ==
  (\E r \in Requests : caller[r] \in {"waiting", "returned"} /\ r \notin done)
    => \E w \in Workers : CanWork(w)

\* The pool is never stuck, however many workers wait for permits and whatever was
\* cancelled: with EveryStepAdvances, the safety part of EveryRequestAnswered.
THEOREM PoolIsNeverStuck ==
  ASSUME Workers # {} PROVE Spec => []PoolIsAlive
<1>1. TypeOK /\ SlotInv /\ NeverLost => PoolIsAlive
  <2> SUFFICES ASSUME TypeOK, SlotInv, NeverLost,
                      NEW r \in Requests, caller[r] \in {"waiting", "returned"}, r \notin done
               PROVE  \E w \in Workers : CanWork(w)
    BY DEF PoolIsAlive
  <2>1. CASE \A w \in Workers : worker[w] = "idle"
    <3>1. r \in queue
      BY <2>1, NoneAssumption DEF NeverLost, TypeOK
    <3> QED
      BY <2>1, <3>1, HeadExists DEF CanWork
  <2>2. ASSUME NEW w \in Workers, worker[w] # "idle", ~CanWork(w)
        PROVE  \E v \in Workers : CanWork(v)
    <3>1. worker[w] = "acquire"
      BY <2>2 DEF CanWork, TypeOK
    <3> QED
      BY <2>2, <3>1, BlockedWaitsForHolder DEF Holders
  <2> QED
    BY <2>1, <2>2
<1> QED
  BY <1>1, TypeCorrect, SlotInvAlways, NothingLost, PTL

With(r, phases) == \E w \in Workers : job[w] = r /\ worker[w] \in phases

\* How far the caller of a request has come, and how far its service.
Called(r, stage) ==
  \/ stage = "scan" /\ caller[r] # "new"
  \/ stage = "track" /\ caller[r] \notin {"new", "scan"}
  \/ stage = "put" /\ caller[r] \notin {"new", "scan", "track"}
  \/ stage = "waiting" /\ caller[r] \notin Unput
  \/ stage = "returned" /\ caller[r] = "returned"

Served(r, stage) ==
  \/ stage = "acquire" /\ (r \in done \/ With(r, {"acquire", "bump", "execute"}))
  \/ stage = "bump" /\ (r \in done \/ With(r, {"bump", "execute"}))
  \/ stage = "execute" /\ (r \in done \/ With(r, {"execute"}))
  \/ stage = "done" /\ r \in done
  \/ stage = "dropped" /\ r \in done /\ ~With(r, {"drop"})
  \/ stage = "released" /\ r \in done /\ ~With(r, {"drop", "release"})

Stages == {"scan", "track", "put", "waiting", "returned",
           "acquire", "bump", "execute", "done", "dropped", "released"}

Milestones ==
  {m \in Requests \X Stages : Called(m[1], m[2]) \/ Served(m[1], m[2])}

\* Some request has come further and none has gone back.
Advances == Milestones \subseteq Milestones' /\ Milestones # Milestones'

LEMMA AdvancesByStages ==
  ASSUME \A r \in Requests, s \in Stages :
           /\ Called(r, s) => Called(r, s)'
           /\ Served(r, s) => Served(r, s)',
         \E r \in Requests, s \in Stages :
           /\ ~Called(r, s) /\ ~Served(r, s)
           /\ Called(r, s)' \/ Served(r, s)'
  PROVE  Advances
<1>1. PICK r \in Requests, s \in Stages :
        /\ ~Called(r, s) /\ ~Served(r, s)
        /\ Called(r, s)' \/ Served(r, s)'
  OBVIOUS
<1>2. <<r, s>> \notin Milestones /\ <<r, s>> \in Milestones'
  BY <1>1 DEF Milestones
<1>3. Milestones \subseteq Milestones'
  BY DEF Milestones
<1> QED
  BY <1>2, <1>3 DEF Advances

LEMMA CallAdvances ==
  ASSUME TypeOK, NEW r \in Requests, Call(r)
  PROVE  Advances
<1> DEFINE phases == {"scan", "track", "put", "waiting", "returned"}
<1>1. UNCHANGED <<job, worker, done>>
  BY DEF Call, Submit, Preempt, Track, Put, Return, requestVars, workerVars
<1>2. \A q \in Requests, s \in Stages : Served(q, s) => Served(q, s)'
  BY <1>1 DEF Served, With
<1>3. PICK old, new :
        /\ caller[r] = old
        /\ caller' = [caller EXCEPT ![r] = new]
        /\ <<old, new>> \in {<<"new", "scan">>, <<"new", "track">>, <<"new", "put">>,
                             <<"scan", "track">>, <<"track", "put">>,
                             <<"put", "waiting">>, <<"waiting", "returned">>}
  BY DEF Call, Submit, Preempt, Track, Put, Return, Move
<1>4. \A q \in Requests, s \in Stages : Called(q, s) => Called(q, s)'
  BY <1>3 DEF Called, Unput, TypeOK
<1>5. PICK s \in phases : ~Called(r, s) /\ Called(r, s)'
  <2>1. ~Called(r, new) /\ Called(r, new)' /\ new \in phases
    BY <1>3 DEF Called, Unput, TypeOK
  <2> QED
    BY <2>1
<1>6. s \in Stages /\ ~Served(r, s)
  BY DEF Stages, Served
<1> QED
  BY <1>2, <1>4, <1>5, <1>6, AdvancesByStages

LEMMA WorkAdvances ==
  ASSUME TypeOK, FreshInv, AnsweredInv, SoleInv, NEW w \in Workers, Work(w)
  PROVE  Advances
<1> USE NoneAssumption DEF requestVars, workerVars
<1>1. caller' = caller
  BY DEF Work, Get, AcquirePermit, BumpInflight, Finish, DropInflight, ReleasePermit, callerVars
<1>2. \A q \in Requests, s \in Stages : Called(q, s) => Called(q, s)'
  BY <1>1 DEF Called
<1> DEFINE GoesOn(q, s) == s \in Stages /\ ~Called(q, s) /\ ~Served(q, s) /\ Served(q, s)'
<1> DEFINE Keeps == \A q \in Requests, s \in Stages : Served(q, s) => Served(q, s)'
<1> SUFFICES Keeps /\ \E r \in Requests, s \in Stages : GoesOn(r, s)
  BY <1>2, AdvancesByStages
<1>3. CASE Get(w)
  <2> PICK r \in queue :
        /\ queue' = queue \ {r}
        /\ \/ Discard(w, r)
           \/ Begin(w, r, "acquire") /\ UNCHANGED <<done, preempted>>
    BY <1>3 DEF Get
  <2>1. r \in Requests /\ r \notin done /\ \A v \in Workers : job[v] # r
    BY DEF FreshInv, SoleInv, TypeOK
  <2>2. CASE Discard(w, r)
    <3>1. done' = done \cup {r} /\ UNCHANGED <<worker, job>>
      BY <2>2 DEF Discard
    <3>2. Keeps
      BY <2>1, <3>1 DEF Served, With
    <3>3. GoesOn(r, "done")
      BY <2>1, <3>1 DEF Served, Called, Stages
    <3> QED
      BY <2>1, <3>2, <3>3
  <2>3. CASE Begin(w, r, "acquire") /\ UNCHANGED <<done, preempted>>
    <3>1. /\ worker' = [worker EXCEPT ![w] = "acquire"]
          /\ job' = [job EXCEPT ![w] = r]
          /\ UNCHANGED done
          /\ job[w] = None /\ worker[w] = "idle"
      BY <1>3, <2>3 DEF Get, Begin, TypeOK
    <3>2. Keeps
      BY <2>1, <3>1 DEF Served, With, TypeOK
    <3>3. GoesOn(r, "acquire")
      BY <2>1, <3>1 DEF Served, Called, With, Stages, TypeOK
    <3> QED
      BY <2>1, <3>2, <3>3
  <2> QED
    BY <2>2, <2>3
<1>4. ASSUME NEW from, NEW to, worker[w] = from, Goto(w, to), done' = done,
             <<from, to>> \in {<<"acquire", "bump">>, <<"bump", "execute">>}
      PROVE  Keeps /\ \E r \in Requests, s \in Stages : GoesOn(r, s)
  <2>1. PICK r \in Requests : job[w] = r /\ r \notin done
    BY <1>4, BusyWorker DEF SoleInv
  <2>2. worker' = [worker EXCEPT ![w] = to] /\ job' = job
    BY <1>4 DEF Goto
  <2>3. Keeps
    BY <1>4, <2>1, <2>2 DEF Served, With, TypeOK
  <2>4. GoesOn(r, to)
    BY <1>4, <2>1, <2>2 DEF Served, Called, With, Stages, SoleInv, TypeOK
  <2>5. to \in Stages
    BY <1>4 DEF Stages
  <2> HIDE DEF Keeps, GoesOn
  <2> QED
    BY <2>3, <2>4, <2>5
<1>5. CASE Finish(w)
  <2>1. PICK r \in Requests : job[w] = r /\ r \notin done
    BY <1>5, BusyWorker DEF SoleInv, Finish
  <2>2. /\ worker' = [worker EXCEPT ![w] = "drop"] /\ job' = job
        /\ done' = done \cup {r}
    BY <1>5, <2>1 DEF Finish, Goto
  <2>3. Keeps
    BY <2>1, <2>2 DEF Served, With, TypeOK
  <2>4. GoesOn(r, "done")
    BY <2>1, <2>2 DEF Served, Called, Stages
  <2> QED
    BY <2>3, <2>4
<1>6. CASE DropInflight(w)
  <2>1. PICK r \in Requests : job[w] = r /\ r \in done
    BY <1>6, BusyWorker DEF AnsweredInv, DropInflight
  <2>2. /\ worker[w] = "drop" /\ worker' = [worker EXCEPT ![w] = "release"]
        /\ job' = job /\ done' = done
    BY <1>6 DEF DropInflight, Goto
  <2>3. Keeps
    BY <2>1, <2>2 DEF Served, With, TypeOK
  <2>4. ~Served(r, "dropped") /\ ~Called(r, "dropped") /\ "dropped" \in Stages
    BY <2>1, <2>2 DEF Served, Called, Stages, With
  <2>5. Served(r, "dropped")'
    BY <2>1, <2>2 DEF Served, With, SoleInv, TypeOK
  <2> HIDE DEF Keeps
  <2> QED
    BY <2>3, <2>4, <2>5
<1>7. CASE ReleasePermit(w)
  <2>1. PICK r \in Requests : job[w] = r /\ r \in done
    BY <1>7, BusyWorker DEF AnsweredInv, ReleasePermit
  <2>2. /\ worker[w] = "release" /\ worker' = [worker EXCEPT ![w] = "idle"]
        /\ job' = [job EXCEPT ![w] = None] /\ done' = done
    BY <1>7 DEF ReleasePermit, NextIteration
  <2>3. Keeps
    BY <2>1, <2>2 DEF Served, With, TypeOK
  <2>4. ~Served(r, "released") /\ ~Called(r, "released") /\ "released" \in Stages
    BY <2>1, <2>2 DEF Served, Called, Stages, With
  <2>5. Served(r, "released")'
    BY <2>1, <2>2 DEF Served, With, SoleInv, TypeOK
  <2> HIDE DEF Keeps
  <2> QED
    BY <2>3, <2>4, <2>5
<1>8. CASE AcquirePermit(w)
  BY <1>4, <1>8 DEF AcquirePermit
<1>9. CASE BumpInflight(w)
  BY <1>4, <1>9 DEF BumpInflight
<1> QED
  BY <1>3, <1>5, <1>6, <1>7, <1>8, <1>9 DEF Work

\* Every step of a caller or a worker takes some request further and none back.  A
\* request has eleven stages, so that finitely many requests are answered after
\* finitely many steps: the code repeats nothing and puts nothing back.
THEOREM EveryStepAdvances == Spec => [][Advances]_vars
<1>1. TypeOK /\ FreshInv /\ AnsweredInv /\ SoleInv /\ [Next]_vars => [Advances]_vars
  BY CallAdvances, WorkAdvances DEF Next
<1> QED
  BY <1>1, TypeCorrect, FreshAlways, AnsweredAlways, SoleAlways, PTL DEF Spec

-----------------------------------------------------------------------------
\* Refinement

\* Who is cancelled has been superseded by a caller who asked.
Superseded(r) ==
  \E q \in Requests : caller[q] # "new" /\ prio[r] - prio[q] >= PreemptDelta

CancelInv == \A r \in cancelled : Superseded(r)

LEMMA CancelAlways == Spec => []CancelInv
<1>1. Init => CancelInv
  BY DEF Init, CancelInv
<1>2. TypeOK /\ CancelInv /\ [Next]_vars => CancelInv'
  <2> SUFFICES ASSUME TypeOK, CancelInv, [Next]_vars PROVE CancelInv'
    OBVIOUS
  <2>1. \A q \in Requests : caller[q] # "new" => caller'[q] # "new"
    BY DEF TypeOK, Next, Call, Submit, Preempt, Track, Put, Return, Move, Work, Get,
           AcquirePermit, BumpInflight, Finish, DropInflight, ReleasePermit,
           vars, callerVars
  <2>2. \A r : Superseded(r) => Superseded(r)'
    BY <2>1 DEF Superseded
  <2>3. CASE UNCHANGED cancelled
    BY <2>2, <2>3 DEF CancelInv
  <2>4. ASSUME NEW q \in Requests, Preempt(q) PROVE CancelInv'
    <3>1. \A r \in cancelled' \ cancelled : Superseded(r)
      BY <2>4 DEF Preempt, Superseded
    <3> QED
      BY <2>2, <3>1 DEF CancelInv
  <2> QED
    BY <2>3, <2>4
    DEF Next, Call, Submit, Track, Put, Return, Work, Get, Discard, AcquirePermit,
        BumpInflight, Finish, DropInflight, ReleasePermit, vars, requestVars
<1> QED
  BY <1>1, <1>2, TypeCorrect, PTL DEF Spec

LEMMA SameCardinality ==
  ASSUME NEW S
  PROVE  Pool!Cardinality(S) = Cardinality(S)
BY DEF Cardinality, Pool!Cardinality

\* A worker that is about to count itself is not yet among the counted ones but
\* holds a permit, and so leaves room for its request.
LEMMA RoomForHolder ==
  ASSUME TypeOK, SlotInv, NEW w \in Workers, worker[w] = "bump"
  PROVE  Cardinality(Pool!Beside(job[w])) < Cap[PriorityAt(w)]
<1> DEFINE p == PriorityAt(w)
           busy == {v \in Workers : worker[v] = "execute" /\ PriorityAt(v) = p}
           beside == Pool!Beside(job[w])
<1>1. p \in Priority /\ job[w] \in Requests
  BY BusyWorker
<1>2. /\ permits[p] \in Nat /\ Cap[p] \in Nat
      /\ permits[p] + Cardinality(Holders(p)) = Cap[p]
  BY <1>1, CapAssumption DEF TypeOK, SlotInv
<1>3. busy \in SUBSET (Holders(p) \ {w}) /\ w \in Holders(p)
  BY DEF Holders
<1>4. /\ IsFiniteSet(Holders(p) \ {w})
      /\ Cardinality(Holders(p) \ {w}) = Cardinality(Holders(p)) - 1
  BY <1>3, SlotSetsFinite, FS_RemoveElement
<1>5. IsFiniteSet(busy) /\ Cardinality(busy) <= Cardinality(Holders(p) \ {w})
  BY <1>3, <1>4, FS_Subset
<1>6. Cardinality(beside) <= Cardinality(busy) /\ IsFiniteSet(beside)
  <2>1. beside = {job[v] : v \in busy}
    BY DEF Pool!Beside, InHand, PriorityAt
  <2>2. [v \in busy |-> job[v]] \in Surjection(busy, beside)
    BY <2>1 DEF Surjection
  <2> HIDE DEF busy, beside
  <2> QED
    BY <1>5, <2>2, FS_Surjection
<1>7. /\ Cardinality(beside) \in Nat /\ Cardinality(busy) \in Nat
      /\ Cardinality(Holders(p)) \in Nat
  BY <1>5, <1>6, SlotSetsFinite, FS_CardinalityType
<1> QED
  BY <1>2, <1>4, <1>5, <1>6, <1>7

\* Callers only ask and enter.
LEMMA CallRefines ==
  ASSUME TypeOK, FreshInv, SoleInv, NEW r \in Requests, Call(r)
  PROVE  Pool!Next \/ UNCHANGED Pool!vars
<1> USE DEF TypeOK, Move, requestVars, workerVars, InHand
<1>1. CASE Submit(r)
  <2>1. Pool!Ask(r)
    BY <1>1 DEF Submit, Pool!Ask
  <2> QED
    BY <2>1 DEF Pool!Next
<1>2. CASE Preempt(r) \/ Track(r) \/ Return(r)
  BY <1>2 DEF Preempt, Track, Return, Pool!vars
<1>3. CASE Put(r)
  <2>1. /\ caller[r] = "put"
        /\ r \notin queue /\ r \notin done /\ r \notin preempted
        /\ \A w \in Workers : job[w] # r
    BY <1>3 DEF Put, FreshInv, SoleInv, Unput
  <2>2. Pool!Enter(r)
    BY <1>3, <2>1 DEF Put, Pool!Enter
  <2> QED
    BY <2>2 DEF Pool!Next
<1> QED
  BY <1>1, <1>2, <1>3 DEF Call

\* Taking a request out of the heap is rejecting it or nothing at all, and of the steps
\* that follow only the start and the end of the execution are seen.
LEMMA WorkRefines ==
  ASSUME TypeOK, SlotInv, FreshInv, SoleInv, CancelInv, NEW w \in Workers, Work(w)
  PROVE  Pool!Next \/ UNCHANGED Pool!vars
<1> USE NoneAssumption DEF TypeOK, callerVars, requestVars, workerVars
<1>1. CASE Get(w)
  <2> PICK r \in queue :
        /\ queue' = queue \ {r}
        /\ \/ r \in cancelled /\ Discard(w, r)
           \/ Begin(w, r, "acquire") /\ UNCHANGED <<done, preempted>>
    BY <1>1 DEF Get
  <2>1. /\ r \in Requests /\ r \notin done /\ r \notin preempted
        /\ \A v \in Workers : job[v] # r
    BY DEF FreshInv, SoleInv
  <2>2. CASE r \in cancelled /\ Discard(w, r)
    <3>1. UNCHANGED <<worker, job, caller>>
      BY <1>1, <2>2 DEF Get, Discard
    <3>2. Superseded(r)
      BY <2>2 DEF CancelInv
    <3>3. Pool!Reject(r)
      BY <2>1, <2>2, <3>1, <3>2 DEF Discard, Pool!Reject, Superseded, InHand
    <3> QED
      BY <2>1, <3>3 DEF Pool!Next
  <2>3. CASE Begin(w, r, "acquire") /\ UNCHANGED <<done, preempted>>
    <3>1. /\ worker' = [worker EXCEPT ![w] = "acquire"] /\ worker[w] = "idle"
          /\ job' = [job EXCEPT ![w] = r]
          /\ UNCHANGED caller
      BY <1>1, <2>3 DEF Get, Begin
    <3>2. InHand({"acquire", "bump"})' = InHand({"acquire", "bump"}) \cup {r}
      BY <3>1 DEF InHand
    <3>3. UNCHANGED InHand({"execute"})
      BY <3>1 DEF InHand
    <3> QED
      BY <2>3, <3>1, <3>2, <3>3 DEF Pool!vars
  <2> QED
    BY <2>2, <2>3
<1>2. CASE AcquirePermit(w)
  BY <1>2 DEF AcquirePermit, Goto, InHand, Pool!vars
<1>3. CASE BumpInflight(w)
  <2>1. PICK r \in Requests : job[w] = r /\ r \notin queue
    BY <1>3, BusyWorker DEF BumpInflight, FreshInv
  <2>2. /\ worker[w] = "bump" /\ worker' = [worker EXCEPT ![w] = "execute"]
        /\ job' = job /\ UNCHANGED <<caller, queue, done, preempted>>
    BY <1>3 DEF BumpInflight, Goto
  <2>3. Cardinality(Pool!Beside(r)) < Cap[prio[r]]
    BY <2>1, <2>2, RoomForHolder DEF PriorityAt
  <2>4. /\ r \in InHand({"acquire", "bump"})
        /\ InHand({"acquire", "bump"})' = InHand({"acquire", "bump"}) \ {r}
    BY <2>1, <2>2 DEF InHand, SoleInv
  <2>5. InHand({"execute"})' = InHand({"execute"}) \cup {r}
    BY <2>1, <2>2 DEF InHand
  <2>6. Pool!Execute(r)
    BY SameCardinality, <2>1, <2>2, <2>3, <2>4, <2>5 DEF Pool!Execute
  <2> QED
    BY <2>6 DEF Pool!Next
<1>4. CASE Finish(w)
  <2>1. PICK r \in Requests : job[w] = r /\ r \notin preempted
    BY <1>4, BusyWorker DEF Finish, FreshInv
  <2>2. /\ worker[w] = "execute" /\ worker' = [worker EXCEPT ![w] = "drop"]
        /\ job' = job /\ done' = done \cup {r} /\ UNCHANGED <<caller, queue, preempted>>
    BY <1>4, <2>1 DEF Finish, Goto
  <2>3. UNCHANGED InHand({"acquire", "bump"})
    BY <2>1, <2>2 DEF InHand
  <2>4. r \in InHand({"execute"}) /\ InHand({"execute"})' = InHand({"execute"}) \ {r}
    BY <2>1, <2>2 DEF InHand, SoleInv
  <2>5. Pool!Answer(r)
    BY <2>1, <2>2, <2>3, <2>4 DEF Pool!Answer
  <2> QED
    BY <2>5 DEF Pool!Next
<1>5. CASE DropInflight(w) \/ ReleasePermit(w)
  <2>1. /\ worker[w] \in {"drop", "release"}
        /\ \E to \in {"release", "idle"} : worker' = [worker EXCEPT ![w] = to]
        /\ \A v \in Workers \ {w} : job'[v] = job[v]
        /\ UNCHANGED <<caller, queue, done, preempted>>
    BY <1>5 DEF DropInflight, ReleasePermit, Goto, NextIteration
  <2>2. UNCHANGED <<InHand({"acquire", "bump"}), InHand({"execute"})>>
    BY <2>1 DEF InHand
  <2> QED
    BY <2>1, <2>2 DEF Pool!vars
<1> QED
  BY <1>1, <1>2, <1>3, <1>4, <1>5 DEF Work

\* Every step of the queue is a step of PriorityPool or leaves it alone.
THEOREM PoolSafety == Spec => Pool!Init /\ [][Pool!Next]_Pool!vars
<1>1. Init => Pool!Init
  BY DEF Init, Pool!Init, InHand
<1>2. TypeOK /\ SlotInv /\ FreshInv /\ SoleInv /\ CancelInv /\ [Next]_vars
        => [Pool!Next]_Pool!vars
  <2> SUFFICES ASSUME TypeOK, SlotInv, FreshInv, SoleInv, CancelInv, [Next]_vars
               PROVE  [Pool!Next]_Pool!vars
    OBVIOUS
  <2>1. CASE UNCHANGED vars
    BY <2>1 DEF vars, callerVars, requestVars, workerVars, InHand, Pool!vars
  <2> QED
    BY <2>1, CallRefines, WorkRefines DEF Next
<1> QED
  BY <1>1, <1>2, TypeCorrect, SlotInvAlways, FreshAlways, SoleAlways, CancelAlways, PTL
  DEF Spec

=============================================================================
