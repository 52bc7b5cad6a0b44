------------------------- MODULE BackpressureProofs -------------------------
(***************************************************************************)
(* Proofs about Backpressure, for any finite set of submissions, any number *)
(* of loops and any configuration.                                         *)
(***************************************************************************)
EXTENDS Backpressure, FiniteSetTheorems, TLAPS

-----------------------------------------------------------------------------
\* Types

\* Recording a wait keeps the samples within the deque.
LEMMA ObserveType ==
  ASSUME NEW window \in Seq(WaitTimes), Len(window) <= SampleLimit,
         NEW wait \in WaitTimes
  PROVE  /\ Observe(window, wait) \in Seq(WaitTimes)
         /\ Len(Observe(window, wait)) <= SampleLimit
<1>a. SampleLimit \in Nat \ {0}
  BY WindowAssumption DEF SampleLimit
<1>1. CASE Len(window) < SampleLimit
  BY <1>1, <1>a DEF Observe
<1>2. CASE ~(Len(window) < SampleLimit)
  <2>1. Len(window) = SampleLimit /\ window # <<>>
    BY <1>2, <1>a
  <2>2. Tail(window) \in Seq(WaitTimes) /\ Len(Tail(window)) = Len(window) - 1
    BY <2>1
  <2> QED
    BY <1>2, <1>a, <2>1, <2>2 DEF Observe
<1> QED
  BY <1>1, <1>2

LEMMA TypeInit == Init => TypeOK
<1> SUFFICES ASSUME Init PROVE TypeOK
  OBVIOUS
<1>1. SampleLimit \in Nat \ {0}
  BY WindowAssumption DEF SampleLimit
<1>2. waits \in Seq(WaitTimes) /\ Len(waits) <= SampleLimit
  BY <1>1 DEF Init
<1>3. InitialSlots \in MinSlots..MaxSlots
  BY SlotAssumption
<1>4. /\ free \in [Loops -> [Semaphores -> Nat]]
      /\ semaphore \in [Loops -> Semaphores \cup {None}]
  BY DEF Init
<1>5. /\ pc = [t \in Submissions |-> "idle"]
      /\ sem = [t \in Submissions |-> None]
      /\ slots = InitialSlots /\ cooled \in BOOLEAN
  BY DEF Init
<1> QED
  BY <1>2, <1>3, <1>4, <1>5 DEF TypeOK

\* Leaving keeps the types, provided the new values are natural numbers.
LEMMA LeaveType ==
  ASSUME TypeOK, NEW t \in Submissions,
         NEW value \in [Loops -> [Semaphores -> Nat]], sem[t] # None,
         Leave(t, value), UNCHANGED <<sizeVars, semaphore>>
  PROVE  TypeOK'
<1>1. LoopOf[t] \in Loops /\ sem[t] \in Semaphores
  BY LoopAssumption DEF TypeOK
<1>2. free' \in [Loops -> [Semaphores -> Nat]]
  BY <1>1 DEF Leave
<1>3. /\ pc' = [pc EXCEPT ![t] = "idle"]
      /\ sem' = [sem EXCEPT ![t] = None]
      /\ UNCHANGED <<slots, waits, cooled, semaphore>>
  BY DEF Leave, sizeVars
<1>4. Len(waits') <= SampleLimit
  BY <1>3 DEF TypeOK
<1> QED
  BY <1>2, <1>3, <1>4 DEF TypeOK

LEMMA StepType ==
  ASSUME TypeOK, NEW t \in Submissions,
         \/ Fetch(t)
         \/ \E wait \in WaitTimes : Acquire(t, wait)
         \/ AcquireTimesOut(t) \/ Resize(t) \/ Stamp(t) \/ Release(t)
  PROVE  TypeOK'
<1>a. LoopOf[t] \in Loops /\ None \notin Semaphores
  BY LoopAssumption, SemaphoreAssumption
<1>b. \A s \in MinSlots..MaxSlots : s \in Nat
  BY SlotAssumption
<1>1. CASE Fetch(t)
  <2> DEFINE l == LoopOf[t]
  <2>1. PICK g \in Semaphores :
          /\ sem' = [sem EXCEPT ![t] = g]
          /\ \/ UNCHANGED semaphoreVars
             \/ /\ semaphore' = [semaphore EXCEPT ![l] = g]
                /\ free' = [free EXCEPT ![l][g] = slots]
    BY <1>1, <1>a DEF Fetch, TypeOK
  <2>2. /\ semaphore' \in [Loops -> Semaphores \cup {None}]
        /\ free' \in [Loops -> [Semaphores -> Nat]]
    <3>1. slots \in Nat
      BY <1>b DEF TypeOK
    <3>2. CASE UNCHANGED semaphoreVars
      BY <3>2 DEF TypeOK, semaphoreVars
    <3>3. CASE /\ semaphore' = [semaphore EXCEPT ![l] = g]
               /\ free' = [free EXCEPT ![l][g] = slots]
      BY <1>a, <3>1, <3>3 DEF TypeOK
    <3> QED
      BY <2>1, <3>2, <3>3
  <2>3. /\ pc' = [pc EXCEPT ![t] = "waiting"]
        /\ UNCHANGED <<slots, waits, cooled>>
    BY <1>1 DEF Fetch, sizeVars
  <2> QED
    BY <1>a, <2>1, <2>2, <2>3 DEF TypeOK
<1>2. ASSUME NEW wait \in WaitTimes, Acquire(t, wait) PROVE TypeOK'
  <2>1. waits' \in Seq(WaitTimes) /\ Len(waits') <= SampleLimit
    BY <1>2, ObserveType DEF TypeOK, Acquire
  <2>2. sem[t] \in Semaphores
    BY <1>2 DEF TypeOK, Acquire
  <2>3. free' \in [Loops -> [Semaphores -> Nat]]
    BY <1>2, <1>a, <2>2 DEF TypeOK, Acquire
  <2>4. pc'[t] \in {"call", "shed", "restore"} /\ pc' = [pc EXCEPT ![t] = pc'[t]]
    BY <1>2 DEF TypeOK, Acquire, Decision
  <2> QED
    BY <1>2, <1>a, <2>1, <2>2, <2>3, <2>4 DEF TypeOK, Acquire
<1>3. CASE AcquireTimesOut(t)
  BY <1>3, <1>a, LeaveType DEF AcquireTimesOut, TypeOK
<1>4. CASE Resize(t)
  <2>1. /\ slots' \in MinSlots..MaxSlots
        /\ semaphore' \in [Loops -> Semaphores \cup {None}]
        /\ free' \in [Loops -> [Semaphores -> Nat]]
    <3>1. PICK new \in {MinSlots, MaxSlots} : ResizeTo(new)
      BY <1>4 DEF Resize
    <3>2. new \in MinSlots..MaxSlots /\ new \in Nat
      BY SlotAssumption
    <3>3. CASE UNCHANGED <<slots, semaphoreVars>>
      BY <3>3 DEF TypeOK, semaphoreVars
    <3>4. CASE slots' = new /\ ~UNCHANGED <<slots, semaphoreVars>>
      <4>1. semaphore' \in [Loops -> Semaphores \cup {None}]
        BY <3>1, <3>4 DEF ResizeTo
      <4>2. free' = [l \in Loops |-> [g \in Semaphores |->
                       IF g = semaphore'[l] THEN new
                       ELSE IF Users(l, g) = {} THEN 0 ELSE free[l][g]]]
        BY <3>1, <3>4 DEF ResizeTo
      <4>3. free' \in [Loops -> [Semaphores -> Nat]]
        BY <3>2, <4>2 DEF TypeOK
      <4> QED
        BY <3>2, <3>4, <4>1, <4>3
    <3> QED
      BY <3>1, <3>3, <3>4 DEF ResizeTo
  <2>2. pc' = [pc EXCEPT ![t] = "stamp"] /\ pc[t] # "idle"
    BY <1>4 DEF Resize
  <2> QED
    BY <1>4, <2>1, <2>2 DEF Resize, TypeOK
<1>5. CASE Stamp(t)
  <2>1. SampleLimit \in Nat \ {0}
    BY WindowAssumption DEF SampleLimit
  <2>2. waits' \in Seq(WaitTimes) /\ Len(waits') <= SampleLimit
    BY <1>5, <2>1 DEF Stamp
  <2> QED
    BY <1>5, <2>2 DEF Stamp, TypeOK, semaphoreVars
<1>6. CASE Release(t)
  <2>1. sem[t] \in Semaphores /\ sem[t] # None
    BY <1>6, <1>a DEF TypeOK, Release
  <2>2. Released(t) \in [Loops -> [Semaphores -> Nat]]
    BY <1>a, <2>1 DEF TypeOK, Released
  <2> QED
    BY <1>6, <2>1, <2>2, LeaveType DEF Release
<1> QED
  BY <1>1, <1>2, <1>3, <1>4, <1>5, <1>6

\* Every step keeps every variable within its type.
THEOREM TypeCorrect == Spec => []TypeOK
<1>1. TypeOK /\ [Next]_vars => TypeOK'
  <2> SUFFICES ASSUME TypeOK, [Next]_vars PROVE TypeOK'
    OBVIOUS
  <2>1. CASE UNCHANGED vars
    BY <2>1 DEF TypeOK, vars, sizeVars, semaphoreVars
  <2>2. CASE CooldownElapses
    BY <2>2 DEF TypeOK, CooldownElapses, sizeVars, semaphoreVars
  <2> QED
    BY <2>1, <2>2, StepType DEF Next
<1> QED
  BY <1>1, TypeInit, PTL DEF Spec

-----------------------------------------------------------------------------
\* Slots

\* A semaphore that is current, or that a submission still refers to.
Live(l, g) == semaphore[l] = g \/ Users(l, g) # {}

\* Every live semaphore has a slot somewhere, and a current one has them all.
SlotInv ==
  \A l \in Loops, g \in Semaphores :
    /\ Live(l, g) => free[l][g] + Cardinality(Holders(l, g)) >= 1
    /\ semaphore[l] = g => free[l][g] + Cardinality(Holders(l, g)) = slots

LEMMA HoldersFinite ==
  ASSUME NEW l, NEW g
  PROVE  IsFiniteSet(Holders(l, g)) /\ Cardinality(Holders(l, g)) \in Nat
<1>1. Holders(l, g) \in SUBSET Submissions
  BY DEF Holders, Users
<1> QED
  BY <1>1, FS_Subset, FS_CardinalityType, FiniteAssumption

LEMMA SlotInit == Init => SlotInv
BY SemaphoreAssumption DEF Init, SlotInv, Live, Users

\* Steps that leave the semaphores and the number of slots alone, and move
\* submissions between places of the same kind.
LEMMA MoveKeepsSlots ==
  ASSUME SlotInv, UNCHANGED <<slots, semaphoreVars, sem>>,
         \A t \in Submissions : pc'[t] \in Holding <=> pc[t] \in Holding
  PROVE  SlotInv'
<1>1. \A l, g : Users(l, g)' = Users(l, g) /\ Holders(l, g)' = Holders(l, g)
  BY DEF Users, Holders
<1> QED
  BY <1>1 DEF SlotInv, Live, semaphoreVars

LEMMA FetchKeepsSlots ==
  ASSUME TypeOK, SlotInv, NEW t \in Submissions, Fetch(t)
  PROVE  SlotInv'
<1> SUFFICES ASSUME NEW l \in Loops, NEW g \in Semaphores
             PROVE  /\ Live(l, g)' => free'[l][g] + Cardinality(Holders(l, g)') >= 1
                    /\ semaphore'[l] = g =>
                         free'[l][g] + Cardinality(Holders(l, g)') = slots'
  BY DEF SlotInv
<1> USE HoldersFinite
<1>a. LoopOf[t] \in Loops /\ slots \in Nat /\ slots >= 1 /\ slots' = slots
  <2>1. slots \in MinSlots..MaxSlots /\ LoopOf[t] \in Loops
    BY LoopAssumption DEF TypeOK
  <2>2. slots' = slots
    BY DEF Fetch, sizeVars
  <2> QED
    BY <2>1, <2>2, SlotAssumption
<1>b. Holders(l, g)' = Holders(l, g)
  BY DEF Fetch, TypeOK, Holders, Users, Holding
<1>1. CASE UNCHANGED semaphoreVars /\ semaphore[LoopOf[t]] # None
  <2>1. sem' = [sem EXCEPT ![t] = semaphore[LoopOf[t]]]
    BY <1>1 DEF Fetch, semaphoreVars
  <2>2. Live(l, g)' => Live(l, g)
    BY <1>1, <2>1 DEF Live, Users, TypeOK, semaphoreVars
  <2> QED
    BY <1>1, <1>a, <1>b, <2>2 DEF SlotInv, semaphoreVars
<1>2. ASSUME NEW h \in Semaphores, IsNew(LoopOf[t], h),
             semaphore' = [semaphore EXCEPT ![LoopOf[t]] = h],
             free' = [free EXCEPT ![LoopOf[t]][h] = slots],
             sem' = [sem EXCEPT ![t] = h]
      PROVE  /\ Live(l, g)' => free'[l][g] + Cardinality(Holders(l, g)') >= 1
             /\ semaphore'[l] = g =>
                  free'[l][g] + Cardinality(Holders(l, g)') = slots'
  <2>1. CASE l = LoopOf[t] /\ g = h
    <3>1. Users(l, g) = {}
      BY <1>2, <2>1 DEF IsNew, Unused
    <3>2. Holders(l, g)' = {}
      BY <1>b, <3>1 DEF Holders
    <3>3. free'[l][g] = slots
      BY <1>2, <2>1, <1>a DEF TypeOK
    <3> QED
      BY <1>a, <3>2, <3>3, FS_EmptySet
  <2>2. CASE ~(l = LoopOf[t] /\ g = h)
    <3>1. free'[l][g] = free[l][g]
      BY <1>2, <2>2, <1>a DEF TypeOK
    <3>2. Live(l, g)' => Live(l, g)
      BY <1>2, <2>2, <1>a DEF Live, Users, TypeOK
    <3>3. semaphore'[l] = g => semaphore[l] = g
      BY <1>2, <2>2, <1>a DEF TypeOK
    <3> QED
      BY <1>a, <1>b, <3>1, <3>2, <3>3 DEF SlotInv
  <2> QED
    BY <2>1, <2>2
<1> QED
  BY <1>1, <1>2 DEF Fetch

LEMMA AcquireKeepsSlots ==
  ASSUME TypeOK, SlotInv, NEW t \in Submissions, NEW wait \in WaitTimes,
         Acquire(t, wait)
  PROVE  SlotInv'
<1> SUFFICES ASSUME NEW l \in Loops, NEW g \in Semaphores
             PROVE  /\ Live(l, g)' => free'[l][g] + Cardinality(Holders(l, g)') >= 1
                    /\ semaphore'[l] = g =>
                         free'[l][g] + Cardinality(Holders(l, g)') = slots'
  BY DEF SlotInv
<1> USE HoldersFinite
<1>a. LoopOf[t] \in Loops /\ sem[t] \in Semaphores
  BY LoopAssumption DEF TypeOK, Acquire
<1>b. UNCHANGED <<slots, semaphore, sem>>
  BY DEF Acquire
<1>c. free[l][g] \in Nat
  BY DEF TypeOK
<1>d. pc'[t] \in Holding /\ pc[t] \notin Holding
      /\ pc' = [pc EXCEPT ![t] = pc'[t]]
  BY DEF Acquire, Decision, Holding, TypeOK
<1>1. Live(l, g)' = Live(l, g)
  BY <1>b DEF Live, Users
<1> DEFINE mine == l = LoopOf[t] /\ g = sem[t]
<1>2. Holders(l, g)' = IF mine THEN Holders(l, g) \cup {t} ELSE Holders(l, g)
  BY <1>b, <1>d DEF Holders, Users, TypeOK
<1>3. t \notin Holders(l, g)
  BY <1>d DEF Holders
<1>4. free'[l][g] = IF mine THEN free[l][g] - 1 ELSE free[l][g]
  BY <1>a DEF Acquire, TypeOK
<1>5. Cardinality(Holders(l, g)') =
        IF mine THEN Cardinality(Holders(l, g)) + 1 ELSE Cardinality(Holders(l, g))
  BY <1>2, <1>3, FS_AddElement
<1> HIDE DEF mine
<1>6. free'[l][g] + Cardinality(Holders(l, g)')
        = free[l][g] + Cardinality(Holders(l, g))
  BY <1>c, <1>4, <1>5
<1> QED
  BY <1>b, <1>1, <1>6 DEF SlotInv

\* A submission leaves: with the slot it returns if it held one, with nothing
\* otherwise.
LEMMA LeaveKeepsSlots ==
  ASSUME TypeOK, SlotInv, NEW t \in Submissions, NEW value, Leave(t, value),
         sem[t] \in Semaphores, UNCHANGED <<slots, semaphore>>,
         value = IF pc[t] \in Holding THEN Released(t) ELSE free
  PROVE  SlotInv'
<1> SUFFICES ASSUME NEW l \in Loops, NEW g \in Semaphores
             PROVE  /\ Live(l, g)' => free'[l][g] + Cardinality(Holders(l, g)') >= 1
                    /\ semaphore'[l] = g =>
                         free'[l][g] + Cardinality(Holders(l, g)') = slots'
  BY DEF SlotInv
<1> USE HoldersFinite
<1>a. LoopOf[t] \in Loops /\ free[l][g] \in Nat /\ None \notin Semaphores
  BY LoopAssumption, SemaphoreAssumption DEF TypeOK
<1>b. pc' = [pc EXCEPT ![t] = "idle"] /\ sem' = [sem EXCEPT ![t] = None]
  BY DEF Leave
<1> DEFINE mine == l = LoopOf[t] /\ g = sem[t] /\ pc[t] \in Holding
<1>1. Users(l, g)' = Users(l, g) \ {t}
  BY <1>a, <1>b DEF Users, TypeOK
<1>2. Holders(l, g)' = Holders(l, g) \ {t}
  BY <1>a, <1>b DEF Holders, Users, Holding, TypeOK
<1>3. mine <=> t \in Holders(l, g)
  BY DEF Holders, Users
<1>4. Cardinality(Holders(l, g)') =
        IF mine THEN Cardinality(Holders(l, g)) - 1 ELSE Cardinality(Holders(l, g))
  <2>1. CASE mine
    <3>1. Cardinality(Holders(l, g) \ {t}) = Cardinality(Holders(l, g)) - 1
      BY <1>3, <2>1, FS_RemoveElement
    <3> QED
      BY <1>2, <2>1, <3>1
  <2>2. CASE ~mine
    <3>1. Holders(l, g)' = Holders(l, g)
      BY <1>2, <1>3, <2>2
    <3> QED
      BY <2>2, <3>1
  <2> QED
    BY <2>1, <2>2
<1>5. value[l][g] = IF mine THEN free[l][g] + 1 ELSE free[l][g]
  BY <1>a DEF Released, TypeOK
<1>6. Live(l, g)' => Live(l, g)
  BY <1>1 DEF Live
<1>7. Live(l, g)' => free'[l][g] = value[l][g]
  BY <1>1, <1>a DEF Live, Leave, Released, TypeOK
<1>8. semaphore'[l] = g => Live(l, g)'
  BY DEF Live
<1> HIDE DEF mine
<1>9. value[l][g] + Cardinality(Holders(l, g)')
        = free[l][g] + Cardinality(Holders(l, g))
  BY <1>a, <1>4, <1>5
<1> QED
  BY <1>6, <1>7, <1>8, <1>9 DEF SlotInv

LEMMA ResizeKeepsSlots ==
  ASSUME TypeOK, SlotInv, NEW t \in Submissions, Resize(t)
  PROVE  SlotInv'
<1>a. PICK new \in {MinSlots, MaxSlots} : ResizeTo(new)
  BY DEF Resize
<1>b. new \in Nat /\ new >= 1
  BY SlotAssumption
<1>c. /\ pc[t] \in Holding
      /\ pc' = [pc EXCEPT ![t] = "stamp"]
      /\ UNCHANGED sem
  BY DEF Resize, Holding
<1>d. \A u \in Submissions : pc'[u] \in Holding <=> pc[u] \in Holding
  BY <1>c DEF TypeOK, Holding
<1>1. CASE UNCHANGED <<slots, semaphoreVars>>
  BY <1>1, <1>c, <1>d, MoveKeepsSlots
<1>2. CASE ~UNCHANGED <<slots, semaphoreVars>>
  <2> SUFFICES ASSUME NEW l \in Loops, NEW g \in Semaphores
               PROVE  /\ Live(l, g)' => free'[l][g] + Cardinality(Holders(l, g)') >= 1
                      /\ semaphore'[l] = g =>
                           free'[l][g] + Cardinality(Holders(l, g)') = slots'
    BY DEF SlotInv
  <2>1. Users(l, g)' = Users(l, g) /\ Holders(l, g)' = Holders(l, g)
    BY <1>c, <1>d DEF Users, Holders
  <2>2. /\ slots' = new
        /\ IF semaphore[l] = None THEN semaphore'[l] = None
                                  ELSE IsNew(l, semaphore'[l])
        /\ free'[l][g] = IF g = semaphore'[l] THEN new
                         ELSE IF Users(l, g) = {} THEN 0 ELSE free[l][g]
    BY <1>a, <1>2 DEF ResizeTo
  <2>3. CASE semaphore'[l] = g
    <3>1. Users(l, g) = {}
      BY <2>2, <2>3, SemaphoreAssumption DEF IsNew, Unused
    <3>2. Holders(l, g)' = {}
      BY <2>1, <3>1 DEF Holders
    <3> QED
      BY <1>b, <2>2, <2>3, <3>2, FS_EmptySet
  <2>4. CASE semaphore'[l] # g
    BY <2>1, <2>2, <2>4 DEF SlotInv, Live
  <2> QED
    BY <2>3, <2>4
<1> QED
  BY <1>1, <1>2

LEMMA StepKeepsSlots == TypeOK /\ SlotInv /\ [Next]_vars => SlotInv'
<1> SUFFICES ASSUME TypeOK, SlotInv, [Next]_vars PROVE SlotInv'
  OBVIOUS
<1>1. CASE UNCHANGED vars \/ CooldownElapses
  BY <1>1, MoveKeepsSlots
  DEF vars, CooldownElapses, sizeVars, semaphoreVars
<1>2. ASSUME NEW t \in Submissions, AcquireTimesOut(t) PROVE SlotInv'
  <2>1. pc[t] \notin Holding /\ sem[t] \in Semaphores
    BY <1>2 DEF AcquireTimesOut, Holding, TypeOK
  <2> QED
    BY <1>2, <2>1, LeaveKeepsSlots DEF AcquireTimesOut, sizeVars
<1>3. ASSUME NEW t \in Submissions, Release(t) PROVE SlotInv'
  <2>1. pc[t] \in Holding /\ sem[t] \in Semaphores
    BY <1>3 DEF Release, Holding, TypeOK
  <2> QED
    BY <1>3, <2>1, LeaveKeepsSlots DEF Release, sizeVars
<1>4. ASSUME NEW t \in Submissions, Stamp(t) PROVE SlotInv'
  <2>1. \A u \in Submissions : pc'[u] \in Holding <=> pc[u] \in Holding
    BY <1>4 DEF Stamp, Holding, TypeOK
  <2> QED
    BY <1>4, <2>1, MoveKeepsSlots DEF Stamp
<1> QED
  BY <1>1, <1>2, <1>3, <1>4, FetchKeepsSlots, AcquireKeepsSlots, ResizeKeepsSlots
  DEF Next

LEMMA SlotsInvariant == Spec => []SlotInv
<1>1. SlotInv /\ TypeOK /\ [Next]_vars => SlotInv'
  BY StepKeepsSlots
<1> QED
  BY <1>1, SlotInit, TypeCorrect, PTL DEF Spec

\* Free and held slots of every current semaphore are the configured number,
\* for any number of loops, whatever the resizes replace meanwhile.
THEOREM SlotsAreAccounted == Spec => []SlotsAccounted
<1>1. TypeOK /\ SlotInv => SlotsAccounted
  BY DEF TypeOK, SlotInv, SlotsAccounted
<1> QED
  BY <1>1, SlotsInvariant, TypeCorrect, PTL

\* Who waits on a semaphore, current or replaced, finds a slot or a holder.
THEOREM ParkedFindSlot == Spec => []ParkedAreServed
<1>1. TypeOK /\ SlotInv => ParkedAreServed
  <2> SUFFICES ASSUME TypeOK, SlotInv, NEW t \in Submissions, pc[t] = "waiting"
               PROVE  \/ free[LoopOf[t]][sem[t]] > 0
                      \/ Holders(LoopOf[t], sem[t]) # {}
    BY DEF ParkedAreServed
  <2>1. LoopOf[t] \in Loops /\ sem[t] \in Semaphores
    BY LoopAssumption DEF TypeOK
  <2>2. Live(LoopOf[t], sem[t])
    BY DEF Live, Users
  <2>3. free[LoopOf[t]][sem[t]] + Cardinality(Holders(LoopOf[t], sem[t])) >= 1
    BY <2>1, <2>2 DEF SlotInv
  <2>4. free[LoopOf[t]][sem[t]] \in Nat
    BY <2>1 DEF TypeOK
  <2> QED
    BY <2>3, <2>4, FS_EmptySet
<1> QED
  BY <1>1, SlotsInvariant, TypeCorrect, PTL

=============================================================================
