---------------------------- MODULE Backpressure ----------------------------
(***************************************************************************)
(* services/backpressure/anticipation_backpressure.py: the semaphore in    *)
(* front of llm_generate.  Each event loop has a semaphore of its own, made *)
(* on first use; all loops share the number of slots and the window of     *)
(* wait samples that shrinks and restores it.  Resizing replaces the       *)
(* semaphores, while the submissions that hold or await an old one keep it.*)
(*                                                                         *)
(* Submissions of one loop interleave only where they await; those of      *)
(* different loops run in different threads and interleave at the lock.    *)
(* A semaphore is a number, unique among those of its loop that are in     *)
(* use; the order of its waiters is left open.  Seconds are compared with   *)
(* the thresholds only, and `cooled` says that the cooldown since           *)
(* _last_resize_at is over.  Left out: counters, the disabled flag, loops   *)
(* that close, and callers of the synchronous wrapper that give up, which   *)
(* leaves their coroutine running.                                         *)
(***************************************************************************)
EXTENDS Integers, FiniteSets, Sequences
LOCAL INSTANCE TLC

CONSTANTS
  Submissions,
  Loops,           \* event loops that submit
  LoopOf,          \* the loop of each submission
  Semaphores,      \* numbers for the semaphores of a loop
  InitialSlots,    \* _INITIAL_SLOTS
  MinSlots,        \* _MIN_SLOTS
  MaxSlots,        \* _MAX_SLOTS
  DownWindow,      \* _DOWN_WINDOW
  UpWindow,        \* _UP_WINDOW
  WaitTimes,       \* the waits in seconds that are told apart
  ResizeDownWait,  \* _RESIZE_DOWN_WAIT_S
  ResizeUpWait,    \* _RESIZE_UP_WAIT_S
  None             \* no semaphore

ASSUME FiniteAssumption == IsFiniteSet(Submissions)
ASSUME LoopAssumption == LoopOf \in [Submissions -> Loops]
ASSUME SemaphoreAssumption == Semaphores \subseteq Nat /\ None \notin Semaphores
ASSUME SlotAssumption ==
  /\ MinSlots \in Nat \ {0} /\ InitialSlots \in Nat /\ MaxSlots \in Nat
  /\ MinSlots <= InitialSlots /\ InitialSlots <= MaxSlots
ASSUME WindowAssumption == DownWindow \in Nat \ {0} /\ UpWindow \in Nat \ {0}
ASSUME WaitAssumption ==
  WaitTimes \subseteq Nat /\ ResizeDownWait \in Nat /\ ResizeUpWait \in Nat

VARIABLES
  slots,      \* _current_slots
  waits,      \* _waits
  cooled,     \* the cooldown since _last_resize_at is over
  semaphore,  \* _semaphores: the current one of each loop
  free,       \* the value of each semaphore of each loop
  pc,         \* where a submission is
  sem         \* the semaphore it fetched

sizeVars == <<slots, waits, cooled>>
semaphoreVars == <<semaphore, free>>
vars == <<sizeVars, semaphoreVars, pc, sem>>

\* maxlen of the deque
SampleLimit == IF DownWindow > UpWindow THEN DownWindow ELSE UpWindow

TypeOK ==
  /\ slots \in MinSlots..MaxSlots
  /\ waits \in Seq(WaitTimes)
  /\ Len(waits) <= SampleLimit
  /\ cooled \in BOOLEAN
  /\ semaphore \in [Loops -> Semaphores \cup {None}]
  /\ free \in [Loops -> [Semaphores -> Nat]]
  /\ pc \in [Submissions -> {"idle", "waiting", "shed", "restore", "stamp",
                             "call"}]
  /\ sem \in [Submissions -> Semaphores \cup {None}]
  /\ \A t \in Submissions : sem[t] = None <=> pc[t] = "idle"

\* monotonic() starts anywhere, so the first cooldown may still be running.
Init ==
  /\ slots = InitialSlots
  /\ waits = <<>>
  /\ cooled \in BOOLEAN
  /\ semaphore = [l \in Loops |-> None]
  /\ free = [l \in Loops |-> [g \in Semaphores |-> 0]]
  /\ pc = [t \in Submissions |-> "idle"]
  /\ sem = [t \in Submissions |-> None]

-----------------------------------------------------------------------------
\* Seeded faults: none of these is part of Next.

\* The slot is given back to the loop's current semaphore.
ReleasedToCurrent(t) ==
  [free EXCEPT ![LoopOf[t]][semaphore[LoopOf[t]]] = @ + 1]

\* The window never drops a sample.
ObserveAll(window, wait) == Append(window, wait)

\* A full window ignores new samples.
ObserveUntilFull(window, wait) ==
  IF Len(window) >= UpWindow THEN window ELSE Append(window, wait)

\* The semaphores are emptied in place; nobody makes new ones.
ResizeInPlace(new) ==
  /\ slots' = new
  /\ UNCHANGED semaphore
  /\ free' = [l \in Loops |->
                [g \in Semaphores |->
                   IF g = semaphore[l] THEN new ELSE free[l][g]]]

-----------------------------------------------------------------------------
\* Semaphores

Holding == {"shed", "restore", "stamp", "call"}

Users(l, g) == {t \in Submissions : LoopOf[t] = l /\ sem[t] = g}

Holders(l, g) == {t \in Users(l, g) : pc[t] \in Holding}

Unused(l) == {g \in Semaphores : Users(l, g) = {}}

\* The number that a new semaphore of loop l takes; it may be that of the one it
\* replaces, if nobody uses that.
IsNew(l, g) == g \in Unused(l) /\ \A h \in Unused(l) : g <= h

\* From _maybe_resize to the call there is no await: no other submission of the
\* same loop can run meanwhile.
HasLoop(t) ==
  \A u \in Submissions \ {t} :
    LoopOf[u] = LoopOf[t] => pc[u] \notin {"shed", "restore", "stamp"}

\* The value of a replaced semaphore is forgotten when its last user leaves.
Leave(t, value) ==
  LET l == LoopOf[t] IN
  /\ pc' = [pc EXCEPT ![t] = "idle"]
  /\ sem' = [sem EXCEPT ![t] = None]
  /\ free' = IF semaphore[l] # sem[t] /\ Users(l, sem[t]) = {t}
             THEN [value EXCEPT ![l][sem[t]] = 0]
             ELSE value

\* get_anticipation_semaphore makes the semaphore of a loop on first use.
Fetch(t) ==
  LET l == LoopOf[t] IN
  /\ pc[t] = "idle"
  /\ HasLoop(t)
  /\ \/ /\ semaphore[l] # None
        /\ sem' = [sem EXCEPT ![t] = semaphore[l]]
        /\ UNCHANGED semaphoreVars
     \/ /\ semaphore[l] = None
        /\ \E g \in Semaphores :
             /\ IsNew(l, g)
             /\ semaphore' = [semaphore EXCEPT ![l] = g]
             /\ free' = [free EXCEPT ![l][g] = slots]
             /\ sem' = [sem EXCEPT ![t] = g]
  /\ pc' = [pc EXCEPT ![t] = "waiting"]
  /\ UNCHANGED sizeVars

\* _resize_to makes every known loop a new semaphore, in one critical section.
ResizeTo(new) ==
  \/ /\ new = slots
     /\ UNCHANGED <<slots, semaphoreVars>>
  \/ /\ new # slots
     /\ slots' = new
     /\ semaphore' \in [Loops -> Semaphores \cup {None}]
     /\ \A l \in Loops : IF semaphore[l] = None THEN semaphore'[l] = None
                                                ELSE IsNew(l, semaphore'[l])
     /\ free' = [l \in Loops |->
                   [g \in Semaphores |->
                      IF g = semaphore'[l] THEN new
                      ELSE IF Users(l, g) = {} THEN 0 ELSE free[l][g]]]

-----------------------------------------------------------------------------
\* The decision to resize

\* _waits.append on a deque of at most SampleLimit samples.
Observe(window, wait) ==
  IF Len(window) < SampleLimit THEN Append(window, wait)
                               ELSE Append(Tail(window), wait)

\* Twice statistics.median of the last n samples: the mean of the two in the
\* middle where n is even.
TwiceMedian(window, n) ==
  LET sorted == SortSeq(SubSeq(window, Len(window) - n + 1, Len(window)),
                        LAMBDA a, b : a < b)
  IN sorted[(n + 1) \div 2] + sorted[(n + 2) \div 2]

WantsDown(window) ==
  /\ Len(window) >= DownWindow
  /\ slots > MinSlots
  /\ TwiceMedian(window, DownWindow) > 2 * ResizeDownWait

WantsUp(window) ==
  /\ Len(window) >= UpWindow
  /\ slots < MaxSlots
  /\ TwiceMedian(window, UpWindow) < 2 * ResizeUpWait

\* The first critical section of _maybe_resize: it records the wait, and copies
\* what the decision is taken from.
Decision(window) ==
  IF ~cooled THEN "call"
  ELSE IF WantsDown(window) THEN "shed"
  ELSE IF WantsUp(window) THEN "restore"
  ELSE "call"

\* sem.acquire() and then, without an await, the start of _maybe_resize.
Acquire(t, wait) ==
  LET l == LoopOf[t]
      window == Observe(waits, wait)
  IN /\ pc[t] = "waiting"
     /\ HasLoop(t)
     /\ free[l][sem[t]] > 0
     /\ free' = [free EXCEPT ![l][sem[t]] = @ - 1]
     /\ waits' = window
     /\ pc' = [pc EXCEPT ![t] = Decision(window)]
     /\ UNCHANGED <<slots, cooled, semaphore, sem>>

AcquireTimesOut(t) ==
  /\ pc[t] = "waiting"
  /\ HasLoop(t)
  /\ Leave(t, free)
  /\ UNCHANGED <<sizeVars, semaphore>>

\* The call of _resize_to, whose new size was decided by an earlier copy.
Resize(t) ==
  /\ \/ pc[t] = "shed" /\ ResizeTo(MinSlots)
     \/ pc[t] = "restore" /\ ResizeTo(MaxSlots)
  /\ pc' = [pc EXCEPT ![t] = "stamp"]
  /\ UNCHANGED <<waits, cooled, sem>>

\* The last critical section: the cooldown starts and the samples are dropped.
Stamp(t) ==
  /\ pc[t] = "stamp"
  /\ cooled' = FALSE
  /\ waits' = <<>>
  /\ pc' = [pc EXCEPT ![t] = "call"]
  /\ UNCHANGED <<slots, semaphoreVars, sem>>

\* _invoke_llm has returned or raised, and so has the caller's block: the
\* submission releases the semaphore it acquired, current or not.
Released(t) == [free EXCEPT ![LoopOf[t]][sem[t]] = @ + 1]

Release(t) ==
  /\ pc[t] = "call"
  /\ HasLoop(t)
  /\ Leave(t, Released(t))
  /\ UNCHANGED <<sizeVars, semaphore>>

CooldownElapses ==
  /\ ~cooled
  /\ cooled' = TRUE
  /\ UNCHANGED <<slots, waits, semaphoreVars, pc, sem>>

-----------------------------------------------------------------------------

Next ==
  \/ \E t \in Submissions :
       \/ Fetch(t)
       \/ \E wait \in WaitTimes : Acquire(t, wait)
       \/ AcquireTimesOut(t) \/ Resize(t) \/ Stamp(t) \/ Release(t)
  \/ CooldownElapses

Spec == Init /\ [][Next]_vars

\* What a submission does by itself: only Acquire has to wait for somebody else.
Proceed(t) ==
  \/ Fetch(t) \/ Resize(t) \/ Stamp(t) \/ Release(t)
  \/ \E wait \in WaitTimes : Acquire(t, wait)

\* Engines keep submitting, a wait and a call end (both have timeouts), code
\* between awaits runs, and time passes.
FairSpec ==
  /\ Spec
  /\ \A t \in Submissions : WF_vars(Proceed(t))
  /\ WF_vars(CooldownElapses)

-----------------------------------------------------------------------------
\* Properties

\* However resizes on any loop interleave with acquisitions and releases, the
\* free and the held slots of a loop's current semaphore are the configured
\* number: _resize_to changes the number and the semaphores together, and a
\* release goes to the semaphore that was acquired.
SlotsAccounted ==
  \A l \in Loops :
    semaphore[l] # None =>
      free[l][semaphore[l]] + Cardinality(Holders(l, semaphore[l])) = slots

\* "Any coroutines currently awaiting the old semaphore stay parked on it and
\* complete normally": a submission that waits, on a current semaphore or on a
\* replaced one, finds a free slot or a holder that will give one back.
ParkedAreServed ==
  \A t \in Submissions :
    pc[t] = "waiting" => \/ free[LoopOf[t]][sem[t]] > 0
                         \/ Holders(LoopOf[t], sem[t]) # {}

\* A wait that ends is no sample for restoring the slots, or reaches the timeout.
WaitsForLong ==
  \E t \in Submissions :
    /\ pc[t] = "waiting" /\ pc'[t] # "waiting"
    /\ pc'[t] # "idle" => waits'[Len(waits')] >= ResizeUpWait

\* When waits are long no more, all slots are restored for good: whatever samples and
\* decisions to shed load are left from before, and however late the long waits of
\* submissions that were parked by then are recorded.
RestoredWhenCalm == <>[][~WaitsForLong]_vars => <>[](slots = MaxSlots)

=============================================================================
