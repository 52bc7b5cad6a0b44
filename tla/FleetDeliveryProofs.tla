------------------------ MODULE FleetDeliveryProofs -------------------------
(***************************************************************************)
(* Proofs about FleetDelivery, for any numbers of retries and any bounds:  *)
(* the variables keep their types, so that no counter of retries passes    *)
(* its limit; without a failed send the watchdog finds nothing to do; and  *)
(* every step uses something up, so that repetition comes to an end.       *)
(***************************************************************************)
EXTENDS FleetDelivery, TLAPS

-----------------------------------------------------------------------------
\* The tracker

LEMMA TrackType ==
  ASSUME TypeOK, NEW n \in Node, Track(n)
  PROVE  /\ pending_ack' \in [Node -> Entry \cup {None}]
         /\ awaiting' \in [Node -> BOOLEAN]
         /\ registered' \in [Node -> BOOLEAN]
         /\ strays' \in [Node -> Nat]
<1>1. [retries |-> Retries(n), acked |-> FALSE] \in Entry
  BY RetryAssumption DEF TypeOK, Retries, Tracked, Entry
<1> QED
  BY <1>1 DEF TypeOK, Track

LEMMA ExpiredType ==
  ASSUME TypeOK, NEW n \in Node, Expired(n)
  PROVE  /\ pending_ack' \in [Node -> Entry \cup {None}]
         /\ sends' \in [Node -> [Sender -> Nat]]
<1>1. CASE UNCHANGED <<pending_ack, sends>>
  BY <1>1 DEF TypeOK
<1>2. CASE pending_ack' = [pending_ack EXCEPT ![n] = None] /\ UNCHANGED sends
  BY <1>2 DEF TypeOK
<1>3. CASE /\ Unacked(n)
           /\ pending_ack[n].retries < AckRetries
           /\ pending_ack' = [pending_ack EXCEPT ![n].retries = @ + 1]
           /\ sends' = [sends EXCEPT ![n]["tracker"] = @ + 1]
  <2>1. pending_ack[n] \in Entry
    BY <1>3 DEF TypeOK, Unacked, Tracked
  <2>2. [pending_ack[n] EXCEPT !.retries = @ + 1] \in Entry
    BY <1>3, <2>1, RetryAssumption DEF Entry
  <2>3. pending_ack' \in [Node -> Entry \cup {None}]
    BY <1>3, <2>2 DEF TypeOK
  <2>4. sends' \in [Node -> [Sender -> Nat]]
    BY <1>3 DEF TypeOK, Sender
  <2> QED
    BY <2>3, <2>4
<1> QED
  BY <1>1, <1>2, <1>3 DEF Expired

LEMMA OverType ==
  ASSUME TypeOK, NEW n \in Node, NEW k \in Sender, Over(n, k)
  PROVE  sends' \in [Node -> [Sender -> Nat]]
<1>1. sends[n][k] - 1 \in Nat
  BY DEF TypeOK, Over
<1> QED
  BY <1>1 DEF TypeOK, Over

LEMMA MovedType ==
  ASSUME NEW f \in [Node -> [Sender -> Nat]], NEW k \in Sender, f[Origin][k] > 0
  PROVE  [f EXCEPT ![Origin][k] = @ - 1, ![Dest]["client"] = @ + 1] \in [Node -> [Sender -> Nat]]
<1> DEFINE g == [f EXCEPT ![Origin][k] = @ - 1]
<1>1. Origin \in Node /\ Dest \in Node /\ "client" \in Sender
  BY DEF Node, Sender
<1>2. f[Origin][k] - 1 \in Nat
  BY <1>1
<1>3. g \in [Node -> [Sender -> Nat]]
  BY <1>1, <1>2
<1>4. [g EXCEPT ![Dest]["client"] = @ + 1] \in [Node -> [Sender -> Nat]]
  <2> HIDE DEF g
  <2>1. g[Dest]["client"] + 1 \in Nat
    BY <1>1, <1>3
  <2> QED
    BY <1>1, <1>3, <2>1
<1> QED
  BY <1>4

LEMMA CopiesAreNatural ==
  ASSUME TypeOK, NEW n \in Node
  PROVE  Copies(n) \in Nat
  BY DEF TypeOK, Copies, Sender

\* A crash is a fault, and at least as many as the copies it ends.
LEMMA CrashIsTrouble ==
  ASSUME TypeOK, NEW n \in Node, Crash(n)
  PROVE  /\ trouble' \in Nat /\ trouble' > trouble /\ trouble' <= MaxTrouble
         /\ trouble' >= trouble + Copies(n)
  BY CopiesAreNatural, BoundAssumption DEF TypeOK, Crash

LEMMA ReceivedType ==
  ASSUME TypeOK, Received
  PROVE  ack_status' \in [Node -> {"none", "awaiting", "failed"}]
  BY DEF TypeOK, Received

-----------------------------------------------------------------------------
\* Types: in particular no retry counter passes its limit, although the tracker's
\* entry outlives its awaiters and three tasks count on it.
THEOREM TypeCorrect == Spec => []TypeOK
<1> USE BoundAssumption, RetryAssumption
<1>1. Init => TypeOK
  <2> SUFFICES ASSUME Init PROVE TypeOK
    OBVIOUS
  <2>1. sends \in [Node -> [Sender -> Nat]]
    BY DEF Init
  <2>2. ack_status \in [Node -> {"none", "awaiting", "failed"}]
    BY DEF Init
  <2>3. pending_ack \in [Node -> Entry \cup {None}] /\ strays \in [Node -> Nat]
    BY DEF Init
  <2>4. awaiting \in [Node -> BOOLEAN] /\ registered \in [Node -> BOOLEAN]
    BY DEF Init
  <2>5. 0 \in 0 .. StoreRetries /\ 0 \in 0 .. MaxTrouble /\ 0 \in 0 .. MaxWatchdog /\ 0 \in 0 .. MaxAcks
    OBVIOUS
  <2>6. retry_count \in [Node -> 0 .. StoreRetries] /\ injected \in BOOLEAN
    BY <2>5 DEF Init
  <2> QED
    BY <2>1, <2>2, <2>3, <2>4, <2>5, <2>6 DEF Init, TypeOK
<1>2. TypeOK /\ [Next]_vars => TypeOK'
  <2> SUFFICES ASSUME TypeOK, [Next]_vars PROVE TypeOK'
    OBVIOUS
  <2>0. Origin \in Node /\ Dest \in Node /\ "client" \in Sender /\ "store" \in Sender
    BY DEF Node, Sender
  <2>1. ASSUME NEW n \in Node, NEW k \in Sender, Publish(n, k) PROVE TypeOK'
    BY <2>1, TrackType, OverType DEF TypeOK, Publish, storeVars
  <2>2. ASSUME NEW k \in Sender, Post(k) PROVE TypeOK'
    <3>2. sends' \in [Node -> [Sender -> Nat]]
      BY <2>2, MovedType DEF TypeOK, Post
    <3> QED
      BY <2>0, <2>2, <3>2, TrackType, ReceivedType DEF TypeOK, Post, Received, netVars
  <2>3. ASSUME NEW n \in Node, NEW k \in Sender, PostTimesOut(n, k) PROVE TypeOK'
    <3>1. sends' \in [Node -> [Sender -> Nat]]
      BY <2>0, <2>3 DEF TypeOK, PostTimesOut
    <3> QED
      BY <2>3, <3>1, ReceivedType DEF TypeOK, PostTimesOut, Received, Fault, netVars, trackVars
  <2>4. ASSUME NEW n \in Node, NEW k \in Sender, Unconfirmed(n, k) PROVE TypeOK'
    <3>1. injected' \in BOOLEAN
      BY <2>4 DEF TypeOK, Unconfirmed
    <3>2. trouble' \in 0 .. MaxTrouble
      BY <2>4 DEF TypeOK, Unconfirmed, Fault
    <3> QED
      BY <2>4, <3>1, <3>2, TrackType, OverType DEF TypeOK, Unconfirmed, storeVars
  <2>5. ASSUME NEW n \in Node, NEW k \in Sender, NotSent(n, k) PROVE TypeOK'
    BY <2>5, OverType DEF TypeOK, NotSent, Fault, storeVars, trackVars, netVars
  <2>6. ASSUME NEW n \in Node, AwaiterExpires(n) PROVE TypeOK'
    <3>1. strays' \in [Node -> Nat]
      <4>1. strays[n] > 0 => strays[n] - 1 \in Nat
        BY DEF TypeOK
      <4> QED
        BY <2>6, <4>1 DEF TypeOK, AwaiterExpires
    <3>2. awaiting' \in [Node -> BOOLEAN]
      BY <2>6 DEF TypeOK, AwaiterExpires
    <3>3. registered' \in [Node -> BOOLEAN]
      BY <2>6 DEF TypeOK, AwaiterExpires
    <3> QED
      BY <2>6, <3>1, <3>2, <3>3, ExpiredType DEF TypeOK, AwaiterExpires, storeVars, netVars
  <2>7. ASSUME NEW n \in Node, WatchdogRuns(n) PROVE TypeOK'
    <3>1. /\ pending_ack' \in [Node -> Entry \cup {None}]
          /\ sends' \in [Node -> [Sender -> Nat]]
      BY <2>7, ExpiredType DEF TypeOK, WatchdogRuns
    <3>2. registered' \in [Node -> BOOLEAN]
      <4>1. (registered[n] /\ pending_ack'[n] # None) \in BOOLEAN
        OBVIOUS
      <4> QED
        BY <2>7, <4>1 DEF TypeOK, WatchdogRuns
    <3>3. watchdog' \in 0 .. MaxWatchdog
      BY <2>7 DEF TypeOK, WatchdogRuns
    <3> QED
      BY <2>7, <3>1, <3>2, <3>3 DEF TypeOK, WatchdogRuns, storeVars, netVars
  <2>8. ASSUME NEW n \in Node, RetryFromStore(n) PROVE TypeOK'
    <3>1. sends' \in [Node -> [Sender -> Nat]]
      BY <2>0, <2>8 DEF TypeOK, RetryFromStore
    <3>2. retry_count' \in [Node -> 0 .. StoreRetries]
      BY <2>8 DEF TypeOK, RetryFromStore
    <3>3. ack_status' \in [Node -> {"none", "awaiting", "failed"}]
      BY <2>8 DEF TypeOK, RetryFromStore
    <3> QED
      BY <2>8, <3>1, <3>2, <3>3 DEF TypeOK, RetryFromStore, trackVars, netVars
  <2>9. CASE Inject
    BY <2>9 DEF TypeOK, Inject, storeVars, trackVars
  <2>10. CASE HandleAck
    <3>1. CASE Tracked(Origin)
      <4>1. [pending_ack[Origin] EXCEPT !.acked = TRUE] \in Entry
        BY <2>0, <3>1 DEF TypeOK, Tracked, Entry
      <4>2. pending_ack' \in [Node -> Entry \cup {None}]
        BY <2>0, <2>10, <3>1, <4>1 DEF TypeOK, HandleAck
      <4>3. awaiting' \in [Node -> BOOLEAN] /\ registered' \in [Node -> BOOLEAN]
        BY <2>10, <3>1 DEF TypeOK, HandleAck
      <4> QED
        BY <2>10, <3>1, <4>2, <4>3 DEF TypeOK, HandleAck, storeVars
    <3>2. CASE ~Tracked(Origin)
      BY <2>10, <3>2 DEF TypeOK, HandleAck, storeVars, trackVars
    <3> QED
      BY <3>1, <3>2
  <2>11. CASE LoseAck
    BY <2>11 DEF TypeOK, LoseAck, storeVars, trackVars
  <2>12. CASE LoseMessage
    BY <2>12 DEF TypeOK, LoseMessage, Fault, storeVars, trackVars
  <2>13. ASSUME NEW n \in Node, Crash(n) PROVE TypeOK'
    <3>1. trouble' \in 0 .. MaxTrouble
      BY <2>13, CopiesAreNatural DEF TypeOK, Crash
    <3>2. sends' \in [Node -> [Sender -> Nat]]
      BY <2>13 DEF TypeOK, Crash
    <3> QED
      BY <2>13, <3>1, <3>2 DEF TypeOK, Crash, storeVars, netVars
  <2>14. CASE UNCHANGED vars
    BY <2>14 DEF TypeOK, vars, storeVars, trackVars, netVars
  <2> QED
    BY <2>1, <2>2, <2>3, <2>4, <2>5, <2>6, <2>7, <2>8, <2>9, <2>10, <2>11, <2>12, <2>13, <2>14
       DEF Next, Progress, Send
<1> QED
  BY <1>1, <1>2, PTL DEF Spec

-----------------------------------------------------------------------------
\* The watchdog

Watched(n) == Unacked(n) => awaiting[n] \/ strays[n] > 0 \/ sends[n]["tracker"] > 0

\* A channel that claims delivery leaves an awaiter behind.
LEMMA TrackIsWatched ==
  ASSUME TypeOK, NEW n \in Node, Track(n)
  PROVE  /\ awaiting'[n]
         /\ \A m \in Node \ {n} : /\ pending_ack'[m] = pending_ack[m]
                                  /\ awaiting'[m] = awaiting[m]
                                  /\ strays'[m] = strays[m]
  BY DEF TypeOK, Track

\* A deadline that passes gives the message up or sends it again.
LEMMA ExpiredIsWatched ==
  ASSUME TypeOK, NEW n \in Node, Expired(n)
  PROVE  /\ Unacked(n)' => sends'[n]["tracker"] > 0
         /\ \A m \in Node \ {n} : pending_ack'[m] = pending_ack[m] /\ sends'[m] = sends[m]
<1>1. CASE ~Unacked(n) /\ UNCHANGED <<pending_ack, sends>>
  BY <1>1 DEF Unacked, Tracked
<1>2. CASE pending_ack' = [pending_ack EXCEPT ![n] = None] /\ UNCHANGED sends
  BY <1>2 DEF TypeOK, Unacked, Tracked
<1>3. CASE /\ pending_ack' = [pending_ack EXCEPT ![n].retries = @ + 1]
           /\ sends' = [sends EXCEPT ![n]["tracker"] = @ + 1]
  BY <1>3 DEF TypeOK, Sender
<1> QED
  BY <1>1, <1>2, <1>3 DEF Expired

\* An entry without an acknowledgement has an awaiter or a send of its own, as long as
\* no send fails: the hourly watchdog has nothing to catch.
THEOREM WatchdogHasNothingToDo == Spec => []WatchdogIsIdle
<1> DEFINE Idle == trouble = 0 => \A n \in Node : Watched(n)
<1>1. Init => Idle
  BY DEF Init, Watched, Unacked, Tracked
<1>2. TypeOK /\ Idle /\ [Next]_vars => Idle'
  <2> SUFFICES ASSUME TypeOK, Idle, [Next]_vars, trouble' = 0, NEW m \in Node
               PROVE  Watched(m)'
    OBVIOUS
  <2>0. ~Fault
    BY BoundAssumption DEF TypeOK, Fault
  <2>1. ASSUME UNCHANGED trouble PROVE Watched(m)
    BY <2>1
  <2>2. ASSUME UNCHANGED trouble, NEW n \in Node, n # m, Track(n), sends'[m]["tracker"] = sends[m]["tracker"]
        PROVE  Watched(m)'
    BY <2>1, <2>2, TrackIsWatched DEF Watched, Unacked, Tracked
  <2>3. ASSUME Track(m) PROVE Watched(m)'
    BY <2>3, TrackIsWatched DEF Watched
  <2>4. ASSUME NEW n \in Node, NEW k \in Sender, Publish(n, k) \/ Unconfirmed(n, k) PROVE Watched(m)'
    <3>1. Track(n) /\ Over(n, k) /\ UNCHANGED trouble
      BY <2>0, <2>4 DEF Publish, Unconfirmed
    <3>2. CASE n = m
      BY <2>3, <3>1, <3>2
    <3>3. CASE n # m
      BY <2>2, <3>1, <3>3 DEF Over, TypeOK
    <3> QED
      BY <3>2, <3>3
  <2>5. ASSUME NEW k \in Sender, Post(k) PROVE Watched(m)'
    <3>1. CASE m = Origin
      BY <2>3, <2>5, <3>1 DEF Post
    <3>2. CASE m # Origin
      <4>1. m = Dest /\ Origin \in Node
        BY <3>2 DEF Node
      <4>2. sends'[m]["tracker"] = sends[m]["tracker"]
        BY <2>5, <3>2, <4>1 DEF Post, TypeOK, Sender, Node
      <4> QED
        BY <2>2, <2>5, <3>2, <4>1, <4>2 DEF Post
    <3> QED
      BY <3>1, <3>2
  <2>6. ASSUME NEW n \in Node, AwaiterExpires(n) PROVE Watched(m)'
    <3>1. CASE n = m
      BY <2>6, <3>1, ExpiredIsWatched DEF AwaiterExpires, Watched
    <3>2. CASE n # m
      BY <2>1, <2>6, <3>2, ExpiredIsWatched DEF AwaiterExpires, Watched, Unacked, Tracked, TypeOK
    <3> QED
      BY <3>1, <3>2
  <2>7. ASSUME NEW n \in Node, WatchdogRuns(n) PROVE Watched(m)'
    <3>1. CASE Expired(n)
      <4>1. CASE n = m
        BY <3>1, <4>1, ExpiredIsWatched DEF Watched
      <4>2. CASE n # m
        BY <2>1, <2>7, <3>1, <4>2, ExpiredIsWatched DEF WatchdogRuns, Watched, Unacked, Tracked
      <4> QED
        BY <4>1, <4>2
    <3>2. CASE pending_ack' = [pending_ack EXCEPT ![n] = None] /\ UNCHANGED sends
      BY <2>1, <2>7, <3>2 DEF WatchdogRuns, Watched, Unacked, Tracked, TypeOK
    <3> QED
      BY <2>7, <3>1, <3>2 DEF WatchdogRuns
  <2>8. ASSUME NEW n \in Node, RetryFromStore(n) PROVE Watched(m)'
    <3>1. sends'[m]["tracker"] = sends[m]["tracker"]
      BY <2>8 DEF RetryFromStore, TypeOK, Sender
    <3> QED
      BY <2>1, <2>8, <3>1 DEF RetryFromStore, Watched, Unacked, Tracked, trackVars
  <2>9. CASE HandleAck
    <3>1. CASE Tracked(Origin) /\ m = Origin
      <4>1. pending_ack[m] \in Entry
        BY <3>1 DEF TypeOK, Tracked
      <4>2. pending_ack'[m].acked
        BY <2>9, <3>1, <4>1 DEF HandleAck, TypeOK, Entry
      <4> QED
        BY <4>2 DEF Watched, Unacked
    <3>2. CASE ~Tracked(Origin) \/ m # Origin
      BY <2>1, <2>9, <3>2 DEF HandleAck, Watched, Unacked, Tracked, TypeOK, trackVars
    <3> QED
      BY <3>1, <3>2
  <2>10. CASE Inject \/ LoseAck
    BY <2>1, <2>10 DEF Inject, LoseAck, Watched, Unacked, Tracked, trackVars
  <2>11. CASE UNCHANGED vars
    BY <2>1, <2>11 DEF Watched, Unacked, Tracked, vars, trackVars
  <2>12. ASSUME NEW n \in Node, Crash(n) PROVE FALSE
    BY <2>12, CrashIsTrouble DEF TypeOK
  <2> QED
    BY <2>0, <2>4, <2>5, <2>6, <2>7, <2>8, <2>9, <2>10, <2>11, <2>12
       DEF Next, Progress, Send, PostTimesOut, NotSent, LoseMessage
<1>3. Idle => WatchdogIsIdle
  BY DEF WatchdogIsIdle, Watched
<1> QED
  BY <1>1, <1>2, <1>3, TypeCorrect, PTL DEF Spec

-----------------------------------------------------------------------------
\* Termination

\* What may still start a series of sends: faults, runs of the watchdog and retries
\* from the stores.
Budget ==
  (MaxTrouble - trouble) + (MaxWatchdog - watchdog)
    + (StoreRetries - retry_count[Origin]) + (StoreRetries - retry_count[Dest])

\* Sends in progress at n, and the awaiters that may send again.
Sent(n) == sends[n]["client"] + sends[n]["tracker"] + sends[n]["store"]
Tokens(n) == Sent(n) + strays[n] + (IF awaiting[n] THEN 1 ELSE 0)
Left(n) == AckRetries - Retries(n)

\* A step of n loses a send or an awaiter, or counts a retry, or turns a send into an
\* awaiter.
UsesUp(n) ==
  \/ Tokens(n)' < Tokens(n)
  \/ Tokens(n)' = Tokens(n) /\ Left(n)' < Left(n)
  \/ Tokens(n)' = Tokens(n) /\ Left(n)' = Left(n) /\ Sent(n)' < Sent(n)

Keeps(n) == UNCHANGED <<Tokens(n), Left(n), Sent(n)>>

\* Every step goes down in a lexicographic order of natural numbers: first the budget,
\* then what is left to do at the origin, at the destination and on NATS.
RunsDown ==
  \/ Budget' < Budget
  \/ /\ Budget' = Budget
     /\ \/ UsesUp(Origin)
        \/ Keeps(Origin) /\ UsesUp(Dest)
        \/ /\ Keeps(Origin) /\ Keeps(Dest)
           /\ \/ in_flight' < in_flight
              \/ in_flight' = in_flight /\ acks' < acks

LEMMA MeasureIsNatural ==
  ASSUME TypeOK
  PROVE  /\ Budget \in Nat /\ in_flight \in Nat /\ acks \in Nat
         /\ \A n \in Node : Tokens(n) \in Nat /\ Left(n) \in Nat /\ Sent(n) \in Nat
<1>1. Origin \in Node /\ Dest \in Node
  BY DEF Node
<1>2. Budget \in Nat /\ in_flight \in Nat /\ acks \in Nat
  BY <1>1, BoundAssumption, RetryAssumption DEF TypeOK, Budget
<1>3. ASSUME NEW n \in Node
      PROVE  Tokens(n) \in Nat /\ Left(n) \in Nat /\ Sent(n) \in Nat
  <2>1. Sent(n) \in Nat
    BY DEF TypeOK, Sender, Sent
  <2>2. Tokens(n) \in Nat
    BY <2>1 DEF TypeOK, Tokens
  <2>3. Retries(n) \in 0 .. AckRetries
    BY RetryAssumption DEF TypeOK, Retries, Tracked, Entry
  <2> QED
    BY <2>1, <2>2, <2>3, RetryAssumption DEF Left
<1> QED
  BY <1>2, <1>3

\* A node keeps its place as long as its sends and its tracker stay as they are.
LEMMA KeepsUnlessTouched ==
  ASSUME NEW n \in Node, sends'[n] = sends[n], strays'[n] = strays[n],
         awaiting'[n] = awaiting[n], Retries(n)' = Retries(n)
  PROVE  Keeps(n)
  BY DEF Keeps, Tokens, Left, Sent

LEMMA SentByOne ==
  ASSUME TypeOK, NEW n \in Node, NEW k \in Sender, sends[n][k] > 0,
         sends'[n] = [sends[n] EXCEPT ![k] = @ - 1]
  PROVE  Sent(n)' = Sent(n) - 1
  BY DEF TypeOK, Sender, Sent

\* Tracking turns the send into an awaiter, or takes the place of a cancelled one.
LEMMA TrackUsesUp ==
  ASSUME TypeOK, NEW n \in Node, Track(n), Sent(n)' = Sent(n) - 1
  PROVE  UsesUp(n)
<1>1. Sent(n) \in Nat /\ strays[n] \in Nat
  BY MeasureIsNatural DEF TypeOK
<1>2. Retries(n)' = Retries(n)
  <2>1. pending_ack'[n] = [retries |-> Retries(n), acked |-> FALSE]
    BY DEF TypeOK, Track
  <2>2. Retries(n) \in 0 .. AckRetries
    BY RetryAssumption DEF TypeOK, Retries, Tracked, Entry
  <2>3. [retries |-> Retries(n), acked |-> FALSE] \in Entry
    BY <2>2 DEF Entry
  <2>4. pending_ack'[n] # None
    BY <2>1, <2>3, NoneAssumption
  <2>5. pending_ack'[n].retries = Retries(n)
    BY <2>1
  <2> QED
    BY <2>4, <2>5 DEF Retries, Tracked
<1>3. /\ awaiting'[n]
      /\ strays'[n] = IF awaiting[n] /\ ~registered[n] THEN strays[n] + 1 ELSE strays[n]
  BY DEF TypeOK, Track
<1>4. Tokens(n)' <= Tokens(n)
  BY <1>1, <1>3 DEF Tokens
<1>5. Tokens(n)' = Tokens(n) \/ Tokens(n)' < Tokens(n)
  BY <1>1, <1>3 DEF Tokens
<1> QED
  BY <1>1, <1>2, <1>5 DEF UsesUp, Left

\* A deadline takes an awaiter away; it gives a send for it only when it counts a retry.
LEMMA ExpiryUsesUp ==
  ASSUME TypeOK, NEW n \in Node, AwaiterExpires(n)
  PROVE  UsesUp(n)
<1>1. /\ Sent(n) \in Nat /\ strays[n] \in Nat /\ strays'[n] \in Nat
      /\ strays'[n] + (IF awaiting'[n] THEN 1 ELSE 0) + 1
           = strays[n] + (IF awaiting[n] THEN 1 ELSE 0)
  BY MeasureIsNatural DEF TypeOK, AwaiterExpires
<1>2. CASE UNCHANGED sends
  <2>1. Sent(n)' = Sent(n)
    BY <1>2 DEF Sent
  <2> QED
    BY <1>1, <2>1 DEF UsesUp, Tokens
<1>3. CASE /\ Unacked(n)
           /\ pending_ack[n].retries < AckRetries
           /\ pending_ack' = [pending_ack EXCEPT ![n].retries = @ + 1]
           /\ sends' = [sends EXCEPT ![n]["tracker"] = @ + 1]
  <2>1. Sent(n)' = Sent(n) + 1
    BY <1>3 DEF TypeOK, Sender, Sent
  <2>2. Tokens(n)' = Tokens(n)
    BY <1>1, <2>1 DEF Tokens
  <2>3. pending_ack[n] \in Entry
    BY <1>3 DEF TypeOK, Unacked, Tracked
  <2>4. pending_ack'[n] = [pending_ack[n] EXCEPT !.retries = @ + 1]
    BY <1>3 DEF TypeOK
  <2>5. pending_ack'[n].retries = pending_ack[n].retries + 1 /\ pending_ack'[n] \in Entry
    BY <1>3, <2>3, <2>4, RetryAssumption DEF Entry
  <2>6. Retries(n)' = Retries(n) + 1 /\ Retries(n) \in Nat
    BY <1>3, <2>3, <2>5, NoneAssumption DEF Retries, Tracked, Unacked, Entry
  <2>7. Left(n)' < Left(n)
    BY <2>6, RetryAssumption DEF Left
  <2> QED
    BY <2>2, <2>7 DEF UsesUp
<1> QED
  BY <1>2, <1>3 DEF AwaiterExpires, Expired

\* Nothing is repeated for ever: every step of either daemon and of the network, in
\* whatever order, brings the end nearer, for any numbers of retries.  This is what
\* RepetitionEnds needs beside fairness.
THEOREM EveryStepRunsDown == Spec => [][RunsDown]_vars
<1>1. TypeOK /\ [Next]_vars => [RunsDown]_vars
  <2> SUFFICES ASSUME TypeOK, Next PROVE RunsDown
    OBVIOUS
  <2>0. /\ Origin \in Node /\ Dest \in Node /\ Origin # Dest
        /\ \A n \in Node : n = Origin \/ n = Dest
    BY NodeAssumption DEF Node
  <2>1. Budget \in Nat /\ in_flight \in Nat /\ acks \in Nat
    BY MeasureIsNatural
  <2>2. ASSUME Fault, UNCHANGED <<watchdog, retry_count>> PROVE RunsDown
    BY <2>0, <2>2, BoundAssumption, RetryAssumption DEF TypeOK, Fault, Budget, RunsDown
  <2>3. ASSUME NEW n \in Node, UsesUp(n), \A m \in Node \ {n} : Keeps(m),
               UNCHANGED <<trouble, watchdog, retry_count>>
        PROVE  RunsDown
    BY <2>0, <2>3 DEF Budget, RunsDown
  <2>4. ASSUME NEW n \in Node, NEW k \in Sender, Publish(n, k) \/ Unconfirmed(n, k)
        PROVE  RunsDown
    <3>1. Over(n, k) /\ Track(n) /\ UNCHANGED <<watchdog, retry_count>>
      BY <2>4 DEF Publish, Unconfirmed, storeVars
    <3>2. UsesUp(n)
      BY <3>1, SentByOne, TrackUsesUp DEF Over, TypeOK
    <3>3. ASSUME NEW m \in Node \ {n} PROVE Keeps(m)
      BY <3>1, <3>3, KeepsUnlessTouched DEF Over, Track, Retries, Tracked, TypeOK
    <3>4. UNCHANGED trouble \/ Fault
      BY <2>4 DEF Publish, Unconfirmed
    <3> QED
      BY <2>2, <2>3, <3>1, <3>2, <3>3, <3>4
  <2>5. ASSUME NEW k \in Sender, Post(k) PROVE RunsDown
    <3>1. /\ sends[Origin][k] > 0 /\ sends'[Origin] = [sends[Origin] EXCEPT ![k] = @ - 1]
          /\ UNCHANGED <<trouble, watchdog, retry_count>>
      BY <2>0, <2>5 DEF Post, Received, TypeOK
    <3>2. UsesUp(Origin)
      BY <2>0, <2>5, <3>1, SentByOne, TrackUsesUp DEF Post
    <3> QED
      BY <3>1, <3>2 DEF Budget, RunsDown
  <2>6. ASSUME NEW n \in Node, AwaiterExpires(n) PROVE RunsDown
    <3>1. UNCHANGED <<trouble, watchdog, retry_count>>
      BY <2>6 DEF AwaiterExpires, storeVars
    <3>2. ASSUME NEW m \in Node \ {n} PROVE Keeps(m)
      <4>1. pending_ack'[m] = pending_ack[m] /\ sends'[m] = sends[m]
        BY <2>6, <3>2, ExpiredIsWatched DEF AwaiterExpires
      <4> QED
        BY <2>6, <3>2, <4>1, KeepsUnlessTouched DEF AwaiterExpires, Retries, Tracked, TypeOK
    <3> QED
      BY <2>3, <2>6, <3>1, <3>2, ExpiryUsesUp
  <2>7. ASSUME NEW n \in Node, RetryFromStore(n) PROVE RunsDown
    <3>1. /\ retry_count' = [retry_count EXCEPT ![n] = @ + 1]
          /\ UNCHANGED <<trouble, watchdog>>
      BY <2>7, RetryAssumption DEF RetryFromStore, DueForRetry, TypeOK
    <3> QED
      BY <2>0, <3>1, BoundAssumption, RetryAssumption DEF TypeOK, Budget, RunsDown
  <2>8. ASSUME NEW n \in Node, WatchdogRuns(n) PROVE RunsDown
    BY <2>0, <2>8, BoundAssumption, RetryAssumption
       DEF WatchdogRuns, storeVars, TypeOK, Budget, RunsDown
  <2>9. ASSUME Inject \/ LoseAck PROVE RunsDown
    <3>1. /\ in_flight' < in_flight \/ (in_flight' = in_flight /\ acks' < acks)
          /\ UNCHANGED <<trouble, watchdog, retry_count, sends, strays, awaiting, pending_ack>>
      BY <2>1, <2>9 DEF Inject, LoseAck, storeVars, trackVars
    <3>2. Keeps(Origin) /\ Keeps(Dest)
      BY <2>0, <3>1, KeepsUnlessTouched DEF Retries, Tracked
    <3> QED
      BY <3>1, <3>2 DEF Budget, RunsDown
  <2>10. ASSUME HandleAck PROVE RunsDown
    <3>1. /\ in_flight' = in_flight /\ acks' < acks
          /\ UNCHANGED <<trouble, watchdog, retry_count, sends, strays>>
      BY <2>1, <2>10 DEF HandleAck, storeVars, trackVars
    <3>2. Retries(Origin)' = Retries(Origin)
      <4>1. CASE Tracked(Origin)
        <5>1. pending_ack[Origin] \in Entry
          BY <2>0, <4>1 DEF Tracked, TypeOK
        <5>2. pending_ack'[Origin] = [pending_ack[Origin] EXCEPT !.acked = TRUE]
          BY <2>0, <2>10, <4>1 DEF HandleAck, TypeOK
        <5>3. /\ pending_ack'[Origin] \in Entry
              /\ pending_ack'[Origin].retries = pending_ack[Origin].retries
          BY <5>1, <5>2 DEF Entry
        <5> QED
          BY <4>1, <5>3, NoneAssumption DEF Retries, Tracked
      <4>2. CASE ~Tracked(Origin)
        BY <2>10, <4>2 DEF HandleAck, Retries, Tracked, trackVars
      <4> QED
        BY <4>1, <4>2
    <3>3. Keeps(Dest)
      <4>1. pending_ack'[Dest] = pending_ack[Dest] /\ awaiting'[Dest] = awaiting[Dest]
        BY <2>0, <2>10 DEF HandleAck, trackVars, TypeOK
      <4> QED
        BY <2>0, <3>1, <4>1, KeepsUnlessTouched DEF Retries, Tracked
    <3>4. CASE awaiting'[Origin] = awaiting[Origin]
      <4>1. Keeps(Origin)
        BY <2>0, <3>1, <3>2, <3>4, KeepsUnlessTouched
      <4> QED
        BY <3>1, <3>3, <4>1 DEF Budget, RunsDown
    <3>5. CASE awaiting'[Origin] # awaiting[Origin]
      <4>1. awaiting[Origin] /\ ~awaiting'[Origin]
        BY <2>0, <2>10, <3>5 DEF HandleAck, trackVars, TypeOK
      <4>2. Sent(Origin)' = Sent(Origin) /\ Sent(Origin) \in Nat /\ strays[Origin] \in Nat
        BY <2>0, <3>1, MeasureIsNatural DEF Sent, TypeOK
      <4>3. Tokens(Origin)' < Tokens(Origin)
        BY <3>1, <4>1, <4>2 DEF Tokens
      <4> QED
        BY <3>1, <4>3 DEF Budget, UsesUp, RunsDown
    <3> QED
      BY <3>4, <3>5
  <2>11. ASSUME NEW n \in Node, NEW k \in Sender, PostTimesOut(n, k) \/ NotSent(n, k)
         PROVE  RunsDown
    BY <2>2, <2>11 DEF PostTimesOut, NotSent, Received, storeVars
  <2>12. CASE LoseMessage
    BY <2>2, <2>12 DEF LoseMessage, storeVars
  <2>13. ASSUME NEW n \in Node, Crash(n) PROVE RunsDown
    <3>1. UNCHANGED <<watchdog, retry_count>>
      BY <2>13 DEF Crash, storeVars
    <3> QED
      BY <2>0, <2>13, <3>1, CrashIsTrouble, BoundAssumption, RetryAssumption
         DEF TypeOK, Budget, RunsDown
  <2> QED
    BY <2>4, <2>5, <2>6, <2>7, <2>8, <2>9, <2>10, <2>11, <2>12, <2>13, <2>0
       DEF Next, Progress, Send
<1> QED
  BY <1>1, TypeCorrect, PTL DEF Spec

-----------------------------------------------------------------------------
\* Delivery

\* The first send and every retry from the origin's store left a copy on NATS or in a send
\* that goes on, or were undone by a fault of their own.
CopiesInv ==
  /\ ack_status[Origin] = "awaiting"
  /\ ~injected =>
       in_flight + Copies(Origin) + Copies(Dest) + trouble > retry_count[Origin]

\* What a send that ends, or begins, does to the number of copies.
LEMMA EndsOne ==
  ASSUME TypeOK, NEW n \in Node, NEW k \in Sender, Over(n, k)
  PROVE  Copies(n)' >= Copies(n) - 1 /\ \A m \in Node \ {n} : Copies(m)' = Copies(m)
  BY DEF TypeOK, Over, Copies, Sender

LEMMA BeginsOne ==
  ASSUME TypeOK, NEW n \in Node, NEW k \in {"client", "store"},
         sends' = [sends EXCEPT ![n][k] = @ + 1]
  PROVE  Copies(n)' = Copies(n) + 1 /\ \A m \in Node \ {n} : Copies(m)' = Copies(m)
  BY DEF TypeOK, Copies, Sender

LEMMA CopiesAlways == Spec => []CopiesInv
<1>0. Origin \in Node /\ Dest \in Node /\ Origin # Dest
  BY NodeAssumption DEF Node
<1>1. Init => CopiesInv
  <2> SUFFICES ASSUME Init PROVE CopiesInv
    OBVIOUS
  <2>1. Copies(Origin) = 1 /\ Copies(Dest) = 0
    BY <1>0 DEF Init, Sender, Copies
  <2> QED
    BY <1>0, <2>1 DEF Init, CopiesInv
<1>2. TypeOK /\ TypeOK' /\ CopiesInv /\ [Next]_vars => CopiesInv'
  <2> SUFFICES ASSUME TypeOK, TypeOK', CopiesInv, [Next]_vars PROVE CopiesInv'
    OBVIOUS
  <2> DEFINE count == retry_count[Origin]
             count1 == retry_count'[Origin]
             copies == in_flight + Copies(Origin) + Copies(Dest) + trouble
             copies1 == in_flight' + Copies(Origin)' + Copies(Dest)' + trouble'
  <2>0. \A n \in Node : n = Origin \/ n = Dest
    BY DEF Node
  <2>1. /\ in_flight \in Nat /\ trouble \in Nat /\ count \in Nat
        /\ in_flight' \in Nat /\ trouble' \in Nat /\ count1 \in Nat
    BY <1>0 DEF TypeOK
  <2>2. /\ Copies(Origin) \in Nat /\ Copies(Dest) \in Nat
        /\ Copies(Origin)' \in Nat /\ Copies(Dest)' \in Nat
    BY <1>0 DEF TypeOK, Copies, Sender
  <2>3. ack_status'[Origin] = "awaiting"
    <3>1. ack_status[Origin] = "awaiting"
      BY DEF CopiesInv
    <3>2. CASE UNCHANGED ack_status
      BY <3>1, <3>2
    <3>3. CASE Received
      BY <1>0, <3>1, <3>3 DEF Received, TypeOK
    <3>4. ASSUME NEW n \in Node, RetryFromStore(n) PROVE UNCHANGED ack_status
      BY <3>4, RetryAssumption DEF RetryFromStore, DueForRetry, TypeOK
    <3> QED
      BY <3>2, <3>3, <3>4
      DEF Next, Progress, Send, Publish, PostTimesOut, Unconfirmed, NotSent, Post,
          AwaiterExpires, Inject, WatchdogRuns, Crash, HandleAck, LoseAck, LoseMessage,
          vars, storeVars
  <2>4. ASSUME copies1 >= copies, count1 = count, UNCHANGED injected
        PROVE  CopiesInv'
    BY <2>1, <2>2, <2>3, <2>4 DEF CopiesInv
  <2>5. ASSUME NEW n \in Node, NEW k \in Sender, Publish(n, k) PROVE CopiesInv'
    <3>1. in_flight' = in_flight + 1 /\ count1 = count /\ UNCHANGED <<trouble, injected>>
      BY <2>5 DEF Publish, storeVars
    <3>2. copies1 >= copies
      BY <1>0, <2>0, <2>1, <2>2, <2>5, <3>1, EndsOne DEF Publish
    <3> QED
      BY <2>4, <3>1, <3>2
  <2>6. ASSUME NEW k \in Sender, Post(k) PROVE CopiesInv'
    <3>1. count1 = count /\ UNCHANGED <<in_flight, trouble, injected>>
      BY <2>6 DEF Post, Received, netVars
    <3>2. /\ sends'[Origin] = [sends[Origin] EXCEPT ![k] = @ - 1]
          /\ sends'[Dest] = [sends[Dest] EXCEPT !["client"] = @ + 1]
      BY <1>0, <2>6 DEF Post, TypeOK
    <3>3. Copies(Origin)' >= Copies(Origin) - 1
      BY <1>0, <3>2 DEF Copies, TypeOK, Sender
    <3>4. Copies(Dest)' = Copies(Dest) + 1
      BY <1>0, <3>2 DEF Copies, TypeOK, Sender
    <3>5. copies1 >= copies
      BY <2>1, <2>2, <3>1, <3>3, <3>4
    <3> QED
      BY <2>4, <3>1, <3>5
  <2>7. ASSUME NEW n \in Node, NEW k \in Sender, Over(n, k), Fault, count1 = count,
               UNCHANGED <<in_flight, injected>>
        PROVE  CopiesInv'
    <3>1. copies1 >= copies
      BY <1>0, <2>0, <2>1, <2>2, <2>7, EndsOne DEF Fault
    <3> QED
      BY <2>4, <2>7, <3>1
  <2>8. ASSUME NEW n \in Node, NEW k \in Sender, Unconfirmed(n, k) \/ NotSent(n, k)
        PROVE  CopiesInv'
    <3>1. CASE injected'
      BY <2>3, <3>1 DEF CopiesInv
    <3>2. CASE ~injected'
      BY <2>7, <2>8, <3>2 DEF Unconfirmed, NotSent, storeVars, netVars
    <3> QED
      BY <3>1, <3>2
  <2>9. ASSUME NEW n \in Node, NEW k \in Sender, PostTimesOut(n, k) PROVE CopiesInv'
    <3>1. /\ sends' = [sends EXCEPT ![Dest]["client"] = @ + 1]
          /\ trouble' = trouble + 1 /\ count1 = count /\ UNCHANGED <<in_flight, injected>>
      BY <2>9 DEF PostTimesOut, Fault, Received, netVars
    <3>2. Copies(Dest)' = Copies(Dest) + 1 /\ Copies(Origin)' = Copies(Origin)
      BY <1>0, <3>1, BeginsOne
    <3>3. copies1 >= copies
      BY <2>1, <2>2, <3>1, <3>2
    <3> QED
      BY <2>4, <3>1, <3>3
  <2>10. ASSUME NEW n \in Node, AwaiterExpires(n) \/ WatchdogRuns(n) PROVE CopiesInv'
    <3>1. UNCHANGED sends \/ sends' = [sends EXCEPT ![n]["tracker"] = @ + 1]
      BY <2>10 DEF AwaiterExpires, WatchdogRuns, Expired
    <3>2. \A m \in Node, k \in {"client", "store"} : sends'[m][k] = sends[m][k]
      BY <3>1 DEF TypeOK, Sender
    <3>3. Copies(Origin)' = Copies(Origin) /\ Copies(Dest)' = Copies(Dest)
      BY <1>0, <3>2 DEF Copies
    <3> QED
      BY <2>1, <2>2, <2>4, <2>10, <3>3
         DEF AwaiterExpires, WatchdogRuns, storeVars, netVars
  <2>11. ASSUME NEW n \in Node, RetryFromStore(n) PROVE CopiesInv'
    <3>1. /\ retry_count' = [retry_count EXCEPT ![n] = @ + 1]
          /\ sends' = [sends EXCEPT ![n]["store"] = @ + 1]
          /\ UNCHANGED <<in_flight, trouble, injected>>
      BY <2>11, RetryAssumption DEF RetryFromStore, DueForRetry, TypeOK, netVars
    <3>2. count1 <= count + 1
      BY <1>0, <2>1, <3>1 DEF TypeOK
    <3>3. Copies(n)' = Copies(n) + 1 /\ \A m \in Node \ {n} : Copies(m)' = Copies(m)
      BY <3>1, BeginsOne
    <3>4. copies1 = copies + 1
      BY <1>0, <2>0, <2>1, <2>2, <3>1, <3>3
    <3> QED
      BY <2>1, <2>2, <2>3, <3>1, <3>2, <3>4 DEF CopiesInv
  <2>12. CASE Inject
    BY <2>3, <2>12 DEF Inject, CopiesInv
  <2>13. CASE LoseMessage \/ HandleAck \/ LoseAck \/ UNCHANGED vars
    <3>1. \/ in_flight' = in_flight - 1 /\ trouble' = trouble + 1
          \/ in_flight' = in_flight /\ trouble' = trouble
      BY <2>13 DEF LoseMessage, Fault, HandleAck, LoseAck, vars, netVars
    <3>2. UNCHANGED <<injected, retry_count, sends>>
      BY <2>13 DEF LoseMessage, HandleAck, LoseAck, vars, storeVars, netVars
    <3>3. Copies(Origin)' = Copies(Origin) /\ Copies(Dest)' = Copies(Dest)
      BY <3>2 DEF Copies
    <3>4. copies1 >= copies
      BY <2>1, <2>2, <3>1, <3>3
    <3>5. count1 = count /\ UNCHANGED injected
      BY <3>2
    <3> QED
      BY <2>4, <3>4, <3>5
  <2>14. ASSUME NEW n \in Node, Crash(n) PROVE CopiesInv'
    <3>1. count1 = count /\ UNCHANGED <<in_flight, injected>>
      BY <2>14 DEF Crash, storeVars, netVars
    <3>2. \A m \in Node \ {n} : Copies(m)' = Copies(m)
      BY <2>14 DEF Crash, Copies, TypeOK
    <3>3. trouble' >= trouble + Copies(n)
      BY <2>14, CrashIsTrouble
    <3>4. copies1 >= copies
      BY <1>0, <2>0, <2>1, <2>2, <3>1, <3>2, <3>3
    <3> QED
      BY <2>4, <3>1, <3>4
  <2> QED
    BY <2>5, <2>6, <2>8, <2>9, <2>10, <2>11, <2>12, <2>13, <2>14 DEF Next, Progress, Send
<1> QED
  BY <1>1, <1>2, TypeCorrect, PTL DEF Spec

\* A message that has not arrived can go on by itself: a copy is on NATS, a send can
\* try its channel, or the origin's store can repeat it.
GoesOn ==
  \/ injected
  \/ in_flight > 0
  \/ \E n \in Node : Copies(n) > 0
  \/ DueForRetry(Origin) /\ sends[Origin]["store"] = 0

\* As many faults as the store has retries, whatever they hit and whenever, do not leave
\* a message behind that nobody will send: with EveryStepRunsDown, what MessageArrives
\* needs beside fairness.
THEOREM MessageGoesOn ==
  ASSUME MaxTrouble <= StoreRetries PROVE Spec => []GoesOn
<1>1. TypeOK /\ CopiesInv => GoesOn
  <2> SUFFICES ASSUME TypeOK, CopiesInv, ~GoesOn PROVE FALSE
    OBVIOUS
  <2>0. Origin \in Node /\ Dest \in Node
    BY DEF Node
  <2>1. ~injected /\ in_flight = 0 /\ Copies(Origin) = 0 /\ Copies(Dest) = 0
    BY <2>0, CopiesAreNatural DEF GoesOn, TypeOK
  <2>2. retry_count[Origin] < trouble /\ trouble <= MaxTrouble
    BY <2>0, <2>1 DEF CopiesInv, TypeOK
  <2>3. DueForRetry(Origin)
    BY <2>0, <2>2, BoundAssumption, RetryAssumption DEF DueForRetry, CopiesInv, TypeOK
  <2>4. sends[Origin]["store"] = 0
    BY <2>0, <2>1 DEF Copies, TypeOK, Sender
  <2> QED
    BY <2>3, <2>4 DEF GoesOn
<1> QED
  BY <1>1, TypeCorrect, CopiesAlways, PTL

=============================================================================
