--------------------------- MODULE FleetDelivery ----------------------------
(***************************************************************************)
(* One message from one fleet daemon to another, tools/fleet_nerve_nats.py *)
(* and the messages table of tools/fleet_nerve_store.py.                   *)
(*                                                                         *)
(* send_with_fallback stores the message, tries its channels, and tracks   *)
(* an acknowledgement for whatever channel claims delivery.  Two           *)
(* mechanisms repeat it: the tracker, with an awaiter task per message and *)
(* an hourly watchdog behind it, and the loop over the stored rows.  A     *)
(* message that arrives over HTTP is sent on by the receiver's own         *)
(* send_with_fallback, so that the receiver keeps a row and a tracker of   *)
(* the same message.                                                       *)
(*                                                                         *)
(* A channel's send and the tracking that follows are one step: the event  *)
(* loop does not get to an acknowledgement between the two.  A message or  *)
(* a send that gets lost and a crash are "trouble", bounded by MaxTrouble; *)
(* acknowledgements may get lost at any time.  MaxWatchdog bounds the runs *)
(* of the watchdog that find something: it runs once an hour, and a whole  *)
(* series of retries takes minutes.                                        *)
(***************************************************************************)
EXTENDS Naturals

CONSTANTS
  Origin,       \* the daemon whose client sends the message
  Dest,         \* the daemon it is for
  AckRetries,   \* _ack_max_retries, of the tracker
  StoreRetries, \* ACK_MAX_RETRIES, of the loop over the store
  MaxTrouble,   \* bound on the number of faults
  MaxWatchdog,  \* bound on the runs of the watchdog that find something
  MaxAcks,      \* bound on the acknowledgements on NATS at a time; the others are lost
  None          \* no tracker entry

Node == {Origin, Dest}

\* Who asks for a send: an HTTP client, the tracker (its awaiters and the
\* watchdog), or the loop over the store.
Sender == {"client", "tracker", "store"}

ASSUME NodeAssumption == Origin # Dest
ASSUME RetryAssumption == AckRetries \in Nat /\ StoreRetries \in Nat
ASSUME BoundAssumption == MaxTrouble \in Nat /\ MaxWatchdog \in Nat /\ MaxAcks \in Nat

Entry == [retries : 0 .. AckRetries, acked : BOOLEAN]

ASSUME NoneAssumption == None \notin Entry

VARIABLES
  ack_status,   \* of the row in each node's store, "none" if there is no row
  retry_count,  \* of that row
  pending_ack,  \* the tracker's entry
  awaiting,     \* the awaiter of that entry's event is waiting
  registered,   \* _ack_awaiter_tasks knows it
  strays,       \* awaiters of earlier events that nobody cancelled
  sends,        \* sends in progress at each node, by who asked for them
  in_flight,    \* copies of the message on NATS
  acks,         \* acknowledgements on NATS
  injected,     \* the message has reached a session at its destination
  trouble,      \* faults so far
  watchdog      \* runs of the watchdog so far

storeVars == <<ack_status, retry_count>>
trackVars == <<pending_ack, awaiting, registered, strays>>
netVars == <<in_flight, acks, injected>>
vars == <<storeVars, trackVars, sends, netVars, trouble, watchdog>>

TypeOK ==
  /\ ack_status \in [Node -> {"none", "awaiting", "failed"}]
  /\ retry_count \in [Node -> 0 .. StoreRetries]
  /\ pending_ack \in [Node -> Entry \cup {None}]
  /\ awaiting \in [Node -> BOOLEAN]
  /\ registered \in [Node -> BOOLEAN]
  /\ strays \in [Node -> Nat]
  /\ sends \in [Node -> [Sender -> Nat]]
  /\ in_flight \in Nat
  /\ acks \in 0 .. MaxAcks
  /\ injected \in BOOLEAN
  /\ trouble \in 0 .. MaxTrouble
  /\ watchdog \in 0 .. MaxWatchdog

\* The client's call has stored the row.
Init ==
  /\ ack_status = [n \in Node |-> IF n = Origin THEN "awaiting" ELSE "none"]
  /\ retry_count = [n \in Node |-> 0]
  /\ pending_ack = [n \in Node |-> None]
  /\ awaiting = [n \in Node |-> FALSE]
  /\ registered = [n \in Node |-> FALSE]
  /\ strays = [n \in Node |-> 0]
  /\ sends = [n \in Node |->
               [k \in Sender |-> IF n = Origin /\ k = "client" THEN 1 ELSE 0]]
  /\ in_flight = 0
  /\ acks = 0
  /\ injected = FALSE
  /\ trouble = 0
  /\ watchdog = 0

Fault == trouble < MaxTrouble /\ trouble' = trouble + 1

Tracked(n) == pending_ack[n] # None
Unacked(n) == Tracked(n) /\ ~pending_ack[n].acked

-----------------------------------------------------------------------------
\* Seeded faults, each in place of the definition it is named after

\* A repeated send starts a new series.
RetriesAfresh(n) == 0

\* The deadline gives up one retry late.
ExpiredLate(n) ==
  \/ ~Unacked(n) /\ UNCHANGED <<pending_ack, sends>>
  \/ /\ Unacked(n)
     /\ pending_ack[n].retries > AckRetries
     /\ pending_ack' = [pending_ack EXCEPT ![n] = None]
     /\ UNCHANGED sends
  \/ /\ Unacked(n)
     /\ pending_ack[n].retries <= AckRetries
     /\ pending_ack' = [pending_ack EXCEPT ![n].retries = @ + 1]
     /\ sends' = [sends EXCEPT ![n]["tracker"] = @ + 1]

\* The entry of a message that is given up stays.
ExpiredKeepsEntry(n) ==
  \/ (~Unacked(n) \/ pending_ack[n].retries >= AckRetries) /\ UNCHANGED <<pending_ack, sends>>
  \/ /\ Unacked(n)
     /\ pending_ack[n].retries < AckRetries
     /\ pending_ack' = [pending_ack EXCEPT ![n].retries = @ + 1]
     /\ sends' = [sends EXCEPT ![n]["tracker"] = @ + 1]

\* The row gets one retry less.
DueForRetryLess(n) == ack_status[n] = "awaiting" /\ retry_count[n] + 1 < StoreRetries

-----------------------------------------------------------------------------
\* _track_pending_ack.  A registered awaiter is cancelled, and the finally block of
\* the cancelled one removes the registration of its successor.
Retries(n) == IF Tracked(n) THEN pending_ack[n].retries ELSE 0

Track(n) ==
  /\ pending_ack' = [pending_ack EXCEPT ![n] = [retries |-> Retries(n), acked |-> FALSE]]
  /\ awaiting' = [awaiting EXCEPT ![n] = TRUE]
  /\ registered' = [registered EXCEPT ![n] = ~(awaiting[n] /\ registered[n])]
  /\ strays' = [strays EXCEPT ![n] = IF awaiting[n] /\ ~registered[n] THEN @ + 1 ELSE @]

-----------------------------------------------------------------------------
\* send_with_fallback, from its channel on

Over(n, k) == sends[n][k] > 0 /\ sends' = [sends EXCEPT ![n][k] = @ - 1]

\* _send_p1_nats: published, whether or not anybody receives it.
Publish(n, k) ==
  /\ Over(n, k)
  /\ in_flight' = in_flight + 1
  /\ Track(n)
  /\ UNCHANGED <<storeVars, acks, injected, trouble, watchdog>>

\* POST /message makes the destination a sender of the message, with a row of its
\* own.  The answer is 200 whatever becomes of that send.
Received ==
  /\ ack_status' = [ack_status EXCEPT ![Dest] = IF @ = "none" THEN "awaiting" ELSE @]
  /\ UNCHANGED <<retry_count, netVars, watchdog>>

\* _send_p2_http, and the curl of _send_p5_ssh
Post(k) ==
  /\ sends[Origin][k] > 0
  /\ sends' = [sends EXCEPT ![Origin][k] = @ - 1, ![Dest]["client"] = @ + 1]
  /\ Received
  /\ Track(Origin)
  /\ UNCHANGED trouble

\* The answer takes more than 3 s, and the send goes on with the next channel.  The
\* destination itself posts to itself when it has no NATS, and always waits in vain:
\* the event loop that should answer is the one that waits.
PostTimesOut(n, k) ==
  /\ Fault
  /\ sends[n][k] > 0
  /\ sends' = [sends EXCEPT ![Dest]["client"] = @ + 1]
  /\ Received
  /\ UNCHANGED trackVars

\* A channel without acknowledgement: the relay of the chief, a file for the session,
\* a commit.  Nobody looks at what becomes of it.
Unconfirmed(n, k) ==
  /\ Over(n, k)
  /\ \/ injected' = TRUE /\ UNCHANGED trouble
     \/ Fault /\ UNCHANGED injected
  /\ Track(n)
  /\ UNCHANGED <<storeVars, in_flight, acks, watchdog>>

\* Every channel fails, or the send is refused: nothing is tracked.
NotSent(n, k) ==
  /\ Fault
  /\ Over(n, k)
  /\ UNCHANGED <<storeVars, trackVars, netVars, watchdog>>

-----------------------------------------------------------------------------
\* The tracker

\* _on_ack_deadline_expired
Expired(n) ==
  \/ ~Unacked(n) /\ UNCHANGED <<pending_ack, sends>>
  \/ /\ Unacked(n)
     /\ pending_ack[n].retries >= AckRetries
     /\ pending_ack' = [pending_ack EXCEPT ![n] = None]
     /\ UNCHANGED sends
  \/ /\ Unacked(n)
     /\ pending_ack[n].retries < AckRetries
     /\ pending_ack' = [pending_ack EXCEPT ![n].retries = @ + 1]
     /\ sends' = [sends EXCEPT ![n]["tracker"] = @ + 1]

\* _await_ack_deadline times out, for the oldest awaiter first.  Its finally block
\* removes the registration, which may be that of a later one.
AwaiterExpires(n) ==
  /\ \/ strays[n] > 0 /\ strays' = [strays EXCEPT ![n] = @ - 1] /\ UNCHANGED awaiting
     \/ /\ strays[n] = 0
        /\ awaiting[n]
        /\ awaiting' = [awaiting EXCEPT ![n] = FALSE]
        /\ UNCHANGED strays
  /\ registered' = [registered EXCEPT ![n] = FALSE]
  /\ Expired(n)
  /\ UNCHANGED <<storeVars, netVars, trouble, watchdog>>

\* _watchdog_check_pending_acks.  An entry as old as the timeout has no awaiter of
\* its own any more.
WatchdogRuns(n) ==
  /\ watchdog < MaxWatchdog
  /\ watchdog' = watchdog + 1
  /\ Tracked(n)
  /\ \/ ~Unacked(n) /\ pending_ack' = [pending_ack EXCEPT ![n] = None] /\ UNCHANGED sends
     \/ Unacked(n) /\ ~awaiting[n] /\ Expired(n)
  /\ registered' = [registered EXCEPT ![n] = @ /\ pending_ack'[n] # None]
  /\ UNCHANGED <<storeVars, awaiting, strays, netVars, trouble>>

-----------------------------------------------------------------------------
\* The store: _ack_retry_loop

\* get_awaiting_ack
DueForRetry(n) == ack_status[n] = "awaiting" /\ retry_count[n] < StoreRetries

\* The loop waits for its own send to end.  It looks at the age of its row and at no other
\* send of the message: a client's, the tracker's or the other node's may still go on.
RetryFromStore(n) ==
  /\ DueForRetry(n)
  /\ sends[n]["store"] = 0
  /\ IF retry_count[n] >= StoreRetries
     THEN /\ ack_status' = [ack_status EXCEPT ![n] = "failed"]
          /\ UNCHANGED <<retry_count, sends>>
     ELSE /\ retry_count' = [retry_count EXCEPT ![n] = @ + 1]
          /\ sends' = [sends EXCEPT ![n]["store"] = @ + 1]
          /\ UNCHANGED ack_status
  /\ UNCHANGED <<trackVars, netVars, trouble, watchdog>>

-----------------------------------------------------------------------------
\* The network

\* _handle_message of the destination, and its _send_ack to the origin
Inject ==
  /\ in_flight > 0
  /\ in_flight' = in_flight - 1
  /\ injected' = TRUE
  /\ acks' = IF acks < MaxAcks THEN acks + 1 ELSE acks
  /\ UNCHANGED <<storeVars, trackVars, sends, trouble, watchdog>>

\* _handle_ack of the origin.  _handle_message sees the acknowledgement too and
\* rejects it, because it has no type: the row is not updated.
HandleAck ==
  /\ acks > 0
  /\ acks' = acks - 1
  /\ IF Tracked(Origin)
     THEN /\ pending_ack' = [pending_ack EXCEPT ![Origin].acked = TRUE]
          /\ awaiting' = [awaiting EXCEPT ![Origin] = FALSE]
          /\ registered' = [registered EXCEPT ![Origin] = FALSE]
          /\ UNCHANGED strays
     ELSE UNCHANGED trackVars
  /\ UNCHANGED <<storeVars, sends, in_flight, injected, trouble, watchdog>>

LoseAck ==
  /\ acks > 0
  /\ acks' = acks - 1
  /\ UNCHANGED <<storeVars, trackVars, sends, in_flight, injected, trouble, watchdog>>

LoseMessage ==
  /\ Fault
  /\ in_flight > 0
  /\ in_flight' = in_flight - 1
  /\ UNCHANGED <<storeVars, trackVars, sends, acks, injected, watchdog>>

\* Copies of the message at n that a client or the store asked for
Copies(n) == sends[n]["client"] + sends[n]["store"]

\* The daemon restarts with its store and without its tracker.  That counts as a fault for
\* every copy that it ends.
Crash(n) ==
  /\ trouble' = trouble + (IF Copies(n) = 0 THEN 1 ELSE Copies(n))
  /\ trouble' <= MaxTrouble
  /\ sends' = [sends EXCEPT ![n] = [k \in Sender |-> 0]]
  /\ pending_ack' = [pending_ack EXCEPT ![n] = None]
  /\ awaiting' = [awaiting EXCEPT ![n] = FALSE]
  /\ registered' = [registered EXCEPT ![n] = FALSE]
  /\ strays' = [strays EXCEPT ![n] = 0]
  /\ UNCHANGED <<storeVars, netVars, watchdog>>

Send(n) ==
  \E k \in Sender :
    \/ Publish(n, k) \/ PostTimesOut(n, k) \/ Unconfirmed(n, k) \/ NotSent(n, k)
    \/ n = Origin /\ Post(k)

\* What goes on by itself: sends have a budget, awaiters a timeout, the loop over the
\* store a period, and a published message is received unless it is lost.
Progress ==
  \/ \E n \in Node : Send(n) \/ AwaiterExpires(n) \/ RetryFromStore(n)
  \/ Inject

Next ==
  \/ Progress
  \/ \E n \in Node : WatchdogRuns(n) \/ Crash(n)
  \/ HandleAck \/ LoseAck \/ LoseMessage

Spec == Init /\ [][Next]_vars
FairSpec == Spec /\ WF_vars(Progress)

-----------------------------------------------------------------------------
\* Properties

\* The message is repeated a bounded number of times by the tracker and the store of
\* both daemons, in whatever order their timers fire: in the end nobody sends it and
\* nobody is waiting to send it again.
RepetitionEnds ==
  <>[](\A n \in Node :
         /\ \A k \in Sender : sends[n][k] = 0
         /\ ~awaiting[n] /\ strays[n] = 0
         /\ ~DueForRetry(n))

\* The message reaches a session of its destination in spite of as many faults as the
\* store has retries, the crash of either daemon among them, which is as many faults as
\* the copies it ends.
MessageArrives == MaxTrouble <= StoreRetries => <>injected

\* "It should NOT [catch anything], in steady state": as long as no send fails, what
\* the tracker waits for has an awaiter or is being sent again, although a cancelled
\* awaiter removes the registration of its successor.
WatchdogIsIdle ==
  trouble = 0 =>
    \A n \in Node :
      Unacked(n) => awaiting[n] \/ strays[n] > 0 \/ sends[n]["tracker"] > 0

=============================================================================
