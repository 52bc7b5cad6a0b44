---------------------------- MODULE PriorityPool ----------------------------
(***************************************************************************)
(* What the priority queue promises its callers, independently of heaps,   *)
(* workers, semaphores and events: a request is answered once, either by   *)
(* executing it, beside fewer than Cap others of its priority, or by       *)
(* rejecting it before any of it was executed, and it is rejected only for *)
(* somebody who is Delta levels more urgent.                               *)
(***************************************************************************)
EXTENDS Integers, FiniteSets

CONSTANTS
  Requests,
  prio,         \* the priority of each request, small numbers first
  Cap,          \* how many requests of a priority may be executed at a time
  Delta         \* how much more urgent one must be to supersede another

VARIABLES
  asked,        \* requests somebody has made
  waiting,      \* those that wait for their execution
  running,      \* those being executed
  executed,     \* those answered by an execution
  rejected      \* those answered without one

vars == <<asked, waiting, running, executed, rejected>>

Init ==
  /\ asked = {} /\ waiting = {} /\ running = {}
  /\ executed = {} /\ rejected = {}

Ask(r) ==
  /\ r \notin asked
  /\ asked' = asked \cup {r}
  /\ UNCHANGED <<waiting, running, executed, rejected>>

Enter(r) ==
  /\ r \in asked \ (waiting \cup running \cup executed \cup rejected)
  /\ waiting' = waiting \cup {r}
  /\ UNCHANGED <<asked, running, executed, rejected>>

Beside(r) == {q \in running : prio[q] = prio[r]}

Execute(r) ==
  /\ r \in waiting
  /\ Cardinality(Beside(r)) < Cap[prio[r]]
  /\ waiting' = waiting \ {r}
  /\ running' = running \cup {r}
  /\ UNCHANGED <<asked, executed, rejected>>

Answer(r) ==
  /\ r \in running
  /\ running' = running \ {r}
  /\ executed' = executed \cup {r}
  /\ UNCHANGED <<asked, waiting, rejected>>

Reject(r) ==
  /\ r \in waiting
  /\ \E q \in asked : prio[r] - prio[q] >= Delta
  /\ waiting' = waiting \ {r}
  /\ rejected' = rejected \cup {r}
  /\ UNCHANGED <<asked, running, executed>>

Next ==
  \E r \in Requests :
    Ask(r) \/ Enter(r) \/ Execute(r) \/ Answer(r) \/ Reject(r)

\* Callers need not go on; what has entered is answered.
Spec ==
  /\ Init
  /\ [][Next]_vars
  /\ \A r \in Requests : WF_vars(Execute(r) \/ Reject(r)) /\ WF_vars(Answer(r))

=============================================================================
