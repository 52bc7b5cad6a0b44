----------------------------- MODULE PeerAssist -----------------------------
(***************************************************************************)
(* The peer-quorum repair of tools/fleet_nerve_nats.py.  A node whose      *)
(* self-heal of a target keeps failing publishes a struggle signal; nodes  *)
(* that reach the target claim the repair, wait ASSIST_CLAIM_WAIT_S for    *)
(* rival claims, and the one whose claim stands runs the repair script.    *)
(*                                                                         *)
(* NATS delivers a message at most once to each node and is modelled by    *)
(* one set of undelivered messages per node; an echo to the publisher is   *)
(* ignored by every handler and left out.  Nothing here knows the time.    *)
(* What the lengths of the timers guarantee is in the guards Prompt,       *)
(* BackoffIsOver and RoundIsOver.  A lost message, a failed publication, a *)
(* crash and a delivery slower than the wait are "trouble", and are        *)
(* bounded by MaxTrouble.                                                  *)
(***************************************************************************)
EXTENDS Integers, FiniteSets

CONSTANTS
  Node,        \* the daemons, ordered like their node ids
  Target,      \* the peers that may struggle
  Reporter,    \* the nodes that fail to heal a target themselves
  Healthy,     \* the nodes whose health score towards the targets is positive
  Score,       \* the positive health scores
  Stamp,       \* readings of the nodes' clocks
  ClaimId,     \* the names of a node's outstanding claims
  Threshold,   \* STRUGGLE_THRESHOLD
  Cap,         \* ASSIST_MAX_CONCURRENT
  MaxTrouble,  \* bound on the number of faults
  None         \* no claim

Claim == [claimer : Node, target : Target, score : Score, ts : Stamp, id : ClaimId]

ASSUME NodeAssumption == Node \subseteq Nat /\ Reporter \subseteq Node
ASSUME ValueAssumption == Score \subseteq Nat /\ Stamp \subseteq Nat
ASSUME NoneAssumption == None \notin Claim
ASSUME BoundAssumption ==
  Threshold \in Nat \ {0} /\ Cap \in Nat \ {0} /\ MaxTrouble \in Nat

VARIABLES
  struggle_counter,  \* failed heals of each target in a row, up to Threshold
  heal_cooldown,     \* targets a reporter has tried to heal within REPAIR_COOLDOWN_S
  signals,           \* struggle signals on their way to each node
  claims,            \* assist claims on their way to each node
  results,           \* successful repair results on their way to each reporter
  pending_claims,    \* the claim that each node holds for each target
  waits,             \* claims whose _execute_assist_if_uncontested sleeps
  assist_backoff,    \* targets left to another claimer for ASSIST_COOLDOWN_S
  assist_rate,       \* targets assisted within ASSIST_COOLDOWN_S
  active_assists,    \* targets whose repair script the node is running
  trouble            \* faults so far

reportVars == <<struggle_counter, heal_cooldown>>
busVars == <<signals, claims, results>>
claimVars == <<pending_claims, waits, assist_backoff>>
assistVars == <<assist_rate, active_assists>>
vars == <<reportVars, busVars, claimVars, assistVars, trouble>>

\* What a node has filed is a claim of its own.
Filed ==
  \A n \in Node, t \in Target :
    pending_claims[n][t] # None =>
      pending_claims[n][t].claimer = n /\ pending_claims[n][t].target = t

TypeOK ==
  /\ struggle_counter \in [Reporter -> [Target -> 0 .. Threshold]]
  /\ heal_cooldown \in [Reporter -> SUBSET Target]
  /\ signals \in [Node -> SUBSET Target]
  /\ claims \in [Node -> SUBSET Claim]
  /\ results \in [Reporter -> SUBSET Target]
  /\ pending_claims \in [Node -> [Target -> Claim \cup {None}]]
  /\ Filed
  /\ waits \in [Node -> SUBSET Claim]
  /\ assist_backoff \in [Node -> SUBSET Target]
  /\ assist_rate \in [Node -> SUBSET Target]
  /\ active_assists \in [Node -> SUBSET Target]
  /\ trouble \in 0 .. MaxTrouble

Init ==
  /\ struggle_counter = [r \in Reporter |-> [t \in Target |-> 0]]
  /\ heal_cooldown = [r \in Reporter |-> {}]
  /\ signals = [n \in Node |-> {}]
  /\ claims = [n \in Node |-> {}]
  /\ results = [r \in Reporter |-> {}]
  /\ pending_claims = [n \in Node |-> [t \in Target |-> None]]
  /\ waits = [n \in Node |-> {}]
  /\ assist_backoff = [n \in Node |-> {}]
  /\ assist_rate = [n \in Node |-> {}]
  /\ active_assists = [n \in Node |-> {}]
  /\ trouble = 0

-----------------------------------------------------------------------------
\* Seeded faults: each replaces the operation it is named after to show that a
\* property notices the mistake.  None is part of the specification.

\* Two claims with equal scores both win, or both lose.
BeatsOrDraws(a, b) == a.score >= b.score
BeatsByScore(a, b) == a.score > b.score

\* The struggle is published when the threshold is reached and not again.
ReportsOnce(r, t) == struggle_counter[r][t] = Threshold - 1

-----------------------------------------------------------------------------
\* Operators

\* A publication reaches everyone whom it may concern but its publisher n.
ToOthers(bus, n, m) == [k \in DOMAIN bus |-> IF k = n THEN bus[k] ELSE bus[k] \cup {m}]

Delivered(bus, n, m) == [bus EXCEPT ![n] = @ \ {m}]

Drop(n, t) == [pending_claims EXCEPT ![n][t] = None]

\* Higher score, then earlier time, then smaller node id.
Beats(a, b) ==
  \/ a.score > b.score
  \/ a.score = b.score /\ a.ts < b.ts
  \/ a.score = b.score /\ a.ts = b.ts /\ a.claimer < b.claimer

Fault == trouble < MaxTrouble /\ trouble' = trouble + 1

-----------------------------------------------------------------------------
\* Timing

\* The wait is long enough for a claim to reach everyone and for the claims that
\* they published before to reach its owner.
Prompt(n, c) ==
  /\ \A k \in Node : c \notin claims[k]
  /\ \A d \in claims[n] : d.target # c.target

\* 900 s are longer than a delivery, a wait and a repair (90 s): when a back-off
\* ends, whatever is still going on for the target began after the node's last
\* news of it.
BackoffIsOver(n, t) ==
  /\ t \notin signals[n]
  /\ \A c \in waits[n] : c.target # t
  /\ \A k \in Node \ {n} :
       /\ t \notin active_assists[k]
       /\ \A c \in waits[k] \cup claims[k] : c.target = t => c \in claims[n]

\* 300 s between two heals by one reporter are longer than a round of claims.  The
\* cooldown is kept by target and action; a heal has just recorded that NATS is broken
\* when it chooses its action, so that it is always the cooldown of "restart_nats".
RoundIsOver(t) ==
  \A n \in Node : t \notin signals[n] /\ \A c \in waits[n] : c.target # t

\* One node at most reports struggling targets.  With a second one, rounds overlap.
LoneReporter == \A r, s \in Reporter : r = s

-----------------------------------------------------------------------------
\* The reporter

\* The counter of the code has no end, but nothing reads it except the comparison with
\* the threshold: from there on the model's stands still.
Counted(r, t) ==
  IF struggle_counter[r][t] < Threshold THEN struggle_counter[r][t] + 1 ELSE Threshold

ReportsStruggle(r, t) == Counted(r, t) = Threshold

\* Every channel fails; _publish_struggle at the threshold and at each failure after
\* it, which does nothing without a connection and hides the failure of its own.
HealFails(r, t) ==
  /\ t \notin heal_cooldown[r]
  /\ heal_cooldown' = [heal_cooldown EXCEPT ![r] = @ \cup {t}]
  /\ struggle_counter' = [struggle_counter EXCEPT ![r][t] = Counted(r, t)]
  /\ \/ /\ signals' = IF ReportsStruggle(r, t) THEN ToOthers(signals, r, t) ELSE signals
        /\ UNCHANGED trouble
     \/ ReportsStruggle(r, t) /\ Fault /\ UNCHANGED signals
  /\ UNCHANGED <<claims, results, claimVars, assistVars>>

\* One of the channels delivers the repair request.
HealSucceeds(r, t) ==
  /\ t \notin heal_cooldown[r]
  /\ heal_cooldown' = [heal_cooldown EXCEPT ![r] = @ \cup {t}]
  /\ struggle_counter' = [struggle_counter EXCEPT ![r][t] = 0]
  /\ UNCHANGED <<busVars, claimVars, assistVars, trouble>>

\* A fresh heartbeat, or an answer to the ping: there is nothing to heal.
PeerAnswers(r, t) ==
  /\ struggle_counter' = [struggle_counter EXCEPT ![r][t] = 0]
  /\ UNCHANGED <<heal_cooldown, busVars, claimVars, assistVars, trouble>>

\* _trigger_heal or an audit takes the cooldown for a repair that does not count.
RepairElsewhere(r, t) ==
  /\ t \notin heal_cooldown[r]
  /\ heal_cooldown' = [heal_cooldown EXCEPT ![r] = @ \cup {t}]
  /\ UNCHANGED <<struggle_counter, busVars, claimVars, assistVars, trouble>>

HealCooldownEnds(r, t) ==
  /\ t \in heal_cooldown[r]
  /\ LoneReporter => RoundIsOver(t)
  /\ heal_cooldown' = [heal_cooldown EXCEPT ![r] = @ \ {t}]
  /\ UNCHANGED <<struggle_counter, busVars, claimVars, assistVars, trouble>>

\* The result of a repair means nothing to a node that has no counter for the target.
HandleRepairResult(r, t) ==
  /\ t \in results[r]
  /\ results' = Delivered(results, r, t)
  /\ struggle_counter' = [struggle_counter EXCEPT ![r][t] = 0]
  /\ UNCHANGED <<heal_cooldown, signals, claims, claimVars, assistVars, trouble>>

-----------------------------------------------------------------------------
\* The claimer

Fresh(n, id) ==
  /\ \A c \in waits[n] : c.id # id
  /\ \A k \in Node : \A c \in claims[k] : c.claimer = n => c.id # id

HasRoom(n) == Cardinality(active_assists[n]) < Cap

\* _handle_struggle_signal and _publish_assist_claim.  A second signal replaces the
\* claim that the node may hold already.  A publication that fails drops it; without a
\* connection it stays.
MayClaim(n, t) ==
  /\ n # t
  /\ n \in Healthy
  /\ t \notin assist_rate[n]
  /\ t \notin assist_backoff[n]
  /\ HasRoom(n)

PublishAssistClaim(n, t) ==
  \E score \in Score, ts \in Stamp :
    LET id == CHOOSE i \in ClaimId : Fresh(n, i)
        c == [claimer |-> n, target |-> t, score |-> score, ts |-> ts, id |-> id]
    IN  /\ \E i \in ClaimId : Fresh(n, i)
        /\ \/ /\ pending_claims' = [pending_claims EXCEPT ![n][t] = c]
              /\ claims' = ToOthers(claims, n, c)
              /\ waits' = [waits EXCEPT ![n] = @ \cup {c}]
              /\ UNCHANGED trouble
           \/ /\ Fault
              /\ pending_claims' \in {Drop(n, t), pending_claims}
              /\ UNCHANGED <<claims, waits>>

HandleStruggleSignal(n, t) ==
  /\ t \in signals[n]
  /\ signals' = Delivered(signals, n, t)
  /\ IF MayClaim(n, t)
     THEN PublishAssistClaim(n, t)
     ELSE UNCHANGED <<claims, pending_claims, waits, trouble>>
  /\ UNCHANGED <<reportVars, results, assist_backoff, assistVars>>

\* Seeded fault, for HandleAssistClaim: the winner's claim is filed in place of ours.
WinnerIsFiled(n, c) ==
  /\ c \in claims[n]
  /\ claims' = Delivered(claims, n, c)
  /\ assist_backoff' = [assist_backoff EXCEPT ![n] = @ \cup {c.target}]
  /\ LET ours == pending_claims[n][c.target] IN
     pending_claims' = IF ours # None /\ ~Beats(ours, c)
                       THEN [pending_claims EXCEPT ![n][c.target] = c]
                       ELSE pending_claims
  /\ UNCHANGED <<reportVars, signals, results, waits, assistVars, trouble>>

HandleAssistClaim(n, c) ==
  /\ c \in claims[n]
  /\ claims' = Delivered(claims, n, c)
  /\ assist_backoff' = [assist_backoff EXCEPT ![n] = @ \cup {c.target}]
  /\ LET ours == pending_claims[n][c.target] IN
     pending_claims' = IF ours # None /\ ~Beats(ours, c) THEN Drop(n, c.target)
                       ELSE pending_claims
  /\ UNCHANGED <<reportVars, signals, results, waits, assistVars, trouble>>

\* _execute_assist_if_uncontested, after the sleep
Stands(n, c) == pending_claims[n][c.target] = c

ExecuteAssist(n, c) ==
  LET t == c.target IN
  /\ c \in waits[n]
  /\ waits' = [waits EXCEPT ![n] = @ \ {c}]
  /\ IF Prompt(n, c) THEN UNCHANGED trouble ELSE Fault
  /\ pending_claims' = IF Stands(n, c) THEN Drop(n, t) ELSE pending_claims
  /\ IF /\ Stands(n, c)
        /\ t \notin assist_rate[n]
        /\ HasRoom(n)
     THEN /\ assist_rate' = [assist_rate EXCEPT ![n] = @ \cup {t}]
          /\ active_assists' = [active_assists EXCEPT ![n] = @ \cup {t}]
     ELSE UNCHANGED assistVars
  /\ UNCHANGED <<reportVars, busVars, assist_backoff>>

\* The script returns or its 90 s are over; _publish_repair_result.
RepairEnds(n, t) ==
  /\ t \in active_assists[n]
  /\ active_assists' = [active_assists EXCEPT ![n] = @ \ {t}]
  /\ \E ok \in BOOLEAN : results' = IF ok THEN ToOthers(results, n, t) ELSE results
  /\ UNCHANGED <<reportVars, signals, claims, claimVars, assist_rate, trouble>>

BackoffEnds(n, t) ==
  /\ t \in assist_backoff[n]
  /\ trouble = 0 => BackoffIsOver(n, t)
  /\ assist_backoff' = [assist_backoff EXCEPT ![n] = @ \ {t}]
  /\ UNCHANGED <<reportVars, busVars, pending_claims, waits, assistVars, trouble>>

AssistCooldownEnds(n, t) ==
  /\ t \in assist_rate[n]
  /\ t \notin active_assists[n]
  /\ assist_rate' = [assist_rate EXCEPT ![n] = @ \ {t}]
  /\ UNCHANGED <<reportVars, busVars, claimVars, active_assists, trouble>>

-----------------------------------------------------------------------------
\* Faults

LoseMessage(n) ==
  /\ Fault
  /\ \/ /\ \E t \in signals[n] : signals' = Delivered(signals, n, t)
        /\ UNCHANGED <<claims, results>>
     \/ /\ \E c \in claims[n] : claims' = Delivered(claims, n, c)
        /\ UNCHANGED <<signals, results>>
     \/ /\ n \in Reporter
        /\ \E t \in results[n] : results' = Delivered(results, n, t)
        /\ UNCHANGED <<signals, claims>>
  /\ UNCHANGED <<reportVars, claimVars, assistVars>>

\* All of this lives in the memory of the daemon.
Crash(n) ==
  /\ Fault
  /\ pending_claims' = [pending_claims EXCEPT ![n] = [t \in Target |-> None]]
  /\ waits' = [waits EXCEPT ![n] = {}]
  /\ assist_backoff' = [assist_backoff EXCEPT ![n] = {}]
  /\ assist_rate' = [assist_rate EXCEPT ![n] = {}]
  /\ active_assists' = [active_assists EXCEPT ![n] = {}]
  /\ struggle_counter' = IF n \in Reporter
                         THEN [struggle_counter EXCEPT ![n] = [t \in Target |-> 0]]
                         ELSE struggle_counter
  /\ heal_cooldown' = IF n \in Reporter
                      THEN [heal_cooldown EXCEPT ![n] = {}]
                      ELSE heal_cooldown
  /\ signals' = [signals EXCEPT ![n] = {}]
  /\ claims' = [claims EXCEPT ![n] = {}]
  /\ results' = IF n \in Reporter THEN [results EXCEPT ![n] = {}] ELSE results

Report(r, t) ==
  \/ HealFails(r, t) \/ HealSucceeds(r, t) \/ PeerAnswers(r, t)
  \/ RepairElsewhere(r, t) \/ HealCooldownEnds(r, t) \/ HandleRepairResult(r, t)

Assist(n, t) ==
  \/ HandleStruggleSignal(n, t) \/ RepairEnds(n, t)
  \/ BackoffEnds(n, t) \/ AssistCooldownEnds(n, t)

Contest(n) ==
  \/ \E c \in claims[n] : HandleAssistClaim(n, c)
  \/ \E c \in waits[n] : ExecuteAssist(n, c)

Next ==
  \/ \E r \in Reporter, t \in Target : Report(r, t)
  \/ \E n \in Node, t \in Target : Assist(n, t)
  \/ \E n \in Node : Contest(n) \/ LoseMessage(n) \/ Crash(n)

Spec == Init /\ [][Next]_vars

\* Callbacks run, timers fire and scripts time out; the target stays broken as far as
\* its reporters can tell, and a heal does not find its cooldown taken by others for
\* ever.
FairSpec ==
  /\ Spec
  /\ \A r \in Reporter, t \in Target :
       /\ SF_vars(HealFails(r, t))
       /\ WF_vars(HealCooldownEnds(r, t))
       /\ WF_vars(HandleRepairResult(r, t))
  /\ \A n \in Node, t \in Target :
       /\ WF_vars(HandleStruggleSignal(n, t))
       /\ WF_vars(RepairEnds(n, t))
       /\ SF_vars(BackoffEnds(n, t))
       /\ WF_vars(AssistCooldownEnds(n, t))
  /\ \A n \in Node : WF_vars(Contest(n))

-----------------------------------------------------------------------------
\* Properties

\* "Split-brain resolution": as long as the network keeps the pace that the wait
\* allows for, no target is repaired by two nodes at once.
OneAssisterPerTarget ==
  trouble = 0 =>
    \A t \in Target, n, m \in Node :
      t \in active_assists[n] /\ t \in active_assists[m] => n = m

\* Nodes that hold a claim for t.
Contenders(t) == {n \in Node : pending_claims[n][t] # None}

\* The duels never eliminate everyone: with a single reporter the last claim for a
\* target goes only when its owner starts the repair, or is busy with as many
\* others as it may be.  (The signals of a second reporter may replace a claim that
\* has eliminated rivals by one that loses to them.)
ElectionHasWinner ==
  [][\A t \in Target :
       /\ LoneReporter /\ trouble' = 0
       /\ Contenders(t) # {} /\ Contenders(t)' = {}
       => \E n \in Contenders(t) : t \in active_assists'[n] \/ ~HasRoom(n)]_vars

\* The struggle of a single reporter is answered even if messages are lost and
\* claimers die: somebody runs the repair, or the reporter has no reason left to
\* ask.
StruggleIsAnswered ==
  \A r \in Reporter, t \in Target :
    struggle_counter[r][t] = Threshold ~>
      \/ struggle_counter[r][t] < Threshold
      \/ \E n \in Node : t \in active_assists[n]

=============================================================================
