-------------------------- MODULE AdmissionControl --------------------------
(***************************************************************************)
(* What a circuit breaker promises its callers, independently of how it    *)
(* measures the health of the backend: calls enter the backend freely only *)
(* while it is CLOSED, one single call is let in as a probe when it goes   *)
(* from OPEN to HALF_OPEN, a call that finishes while it is OPEN never     *)
(* closes it, and HALF_OPEN does not last.                                 *)
(***************************************************************************)

CONSTANT Callers   \* the threads that call through the breaker

VARIABLES
  state,      \* "CLOSED", "HALF_OPEN" or "OPEN"
  inflight    \* the callers inside the backend

vars == <<state, inflight>>

TypeOK ==
  /\ state \in {"CLOSED", "HALF_OPEN", "OPEN"}
  /\ inflight \subseteq Callers

Init ==
  /\ state = "CLOSED"
  /\ inflight = {}

Admit(c) ==
  /\ state = "CLOSED"
  /\ c \notin inflight
  /\ inflight' = inflight \cup {c}
  /\ UNCHANGED state

Probe(c) ==
  /\ state = "OPEN"
  /\ c \notin inflight
  /\ state' = "HALF_OPEN"
  /\ inflight' = inflight \cup {c}

\* A finished call may trip a closed breaker, settles a half-open one and
\* leaves an open one open.
Finish(c) ==
  /\ c \in inflight
  /\ inflight' = inflight \ {c}
  /\ state' \in IF state = "OPEN" THEN {"OPEN"} ELSE {"CLOSED", "OPEN"}

\* An operator closes the breaker by hand.
Reset ==
  /\ state' = "CLOSED"
  /\ UNCHANGED inflight

Next ==
  \/ \E c \in Callers : Admit(c) \/ Probe(c) \/ Finish(c)
  \/ Reset

Spec ==
  /\ Init
  /\ [][Next]_vars
  /\ \A c \in Callers : WF_vars(Finish(c))

=============================================================================
