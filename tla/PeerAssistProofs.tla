-------------------------- MODULE PeerAssistProofs --------------------------
(***************************************************************************)
(* Proofs about PeerAssist, for any number of nodes, targets, reporters    *)
(* and claims: the variables keep their types, and as long as messages     *)
(* arrive in time no target is repaired by two nodes at once, and the      *)
(* duels of a round leave a winner.                                        *)
(***************************************************************************)
EXTENDS PeerAssist, TLAPS

-----------------------------------------------------------------------------
\* Operators

\* A duel has one winner at most.
LEMMA BeatsIsAsymmetric ==
  ASSUME NEW a \in Claim, NEW b \in Claim, Beats(a, b)
  PROVE  ~Beats(b, a)
<1>1. /\ a.score \in Nat /\ a.ts \in Nat /\ a.claimer \in Nat
      /\ b.score \in Nat /\ b.ts \in Nat /\ b.claimer \in Nat
  BY NodeAssumption, ValueAssumption DEF Claim
<1> QED
  BY <1>1 DEF Beats

\* The better of two claims is decided by the node ids in the end.
LEMMA BeatsIsTotal ==
  ASSUME NEW a \in Claim, NEW b \in Claim, a.claimer # b.claimer
  PROVE  Beats(a, b) \/ Beats(b, a)
<1>1. /\ a.score \in Nat /\ a.ts \in Nat /\ a.claimer \in Nat
      /\ b.score \in Nat /\ b.ts \in Nat /\ b.claimer \in Nat
  BY NodeAssumption, ValueAssumption DEF Claim
<1> QED
  BY <1>1 DEF Beats

LEMMA BeatsIsTransitive ==
  ASSUME NEW a \in Claim, NEW b \in Claim, NEW c \in Claim, Beats(a, b), Beats(b, c)
  PROVE  Beats(a, c)
<1>1. /\ a.score \in Nat /\ a.ts \in Nat /\ a.claimer \in Nat
      /\ b.score \in Nat /\ b.ts \in Nat /\ b.claimer \in Nat
      /\ c.score \in Nat /\ c.ts \in Nat /\ c.claimer \in Nat
  BY NodeAssumption, ValueAssumption DEF Claim
<1> QED
  BY <1>1 DEF Beats

\* A publication is a new message for everyone but the publisher.
LEMMA ToOthersType ==
  ASSUME NEW D, NEW S, NEW bus \in [D -> SUBSET S], NEW n, NEW x \in S
  PROVE  /\ ToOthers(bus, n, x) \in [D -> SUBSET S]
         /\ ToOthers(bus, n, x) =
              [k \in D |-> IF k = n THEN bus[k] ELSE bus[k] \cup {x}]
  BY DEF ToOthers

LEMMA DeliveredType ==
  ASSUME NEW D, NEW S, NEW bus \in [D -> SUBSET S], NEW n, NEW x
  PROVE  Delivered(bus, n, x) \in [D -> SUBSET S]
  BY DEF Delivered

LEMMA CountedType ==
  ASSUME TypeOK, NEW r \in Reporter, NEW t \in Target
  PROVE  Counted(r, t) \in 0 .. Threshold
  BY BoundAssumption DEF TypeOK, Counted

-----------------------------------------------------------------------------
\* Types

\* What publishing a claim does, without the choice of its id.
LEMMA PublishEffect ==
  ASSUME NEW n \in Node, NEW t \in Target, PublishAssistClaim(n, t)
  PROVE  \E c \in Claim :
           /\ c.target = t /\ c.claimer = n
           /\ \/ /\ pending_claims' = [pending_claims EXCEPT ![n][t] = c]
                 /\ claims' = ToOthers(claims, n, c)
                 /\ waits' = [waits EXCEPT ![n] = @ \cup {c}]
                 /\ UNCHANGED trouble
              \/ /\ Fault
                 /\ pending_claims' \in {Drop(n, t), pending_claims}
                 /\ UNCHANGED <<claims, waits>>
<1> DEFINE id == CHOOSE i \in ClaimId : Fresh(n, i)
<1> DEFINE c(s, z) == [claimer |-> n, target |-> t, score |-> s, ts |-> z, id |-> id]
<1>1. id \in ClaimId
  BY DEF PublishAssistClaim
<1>2. ASSUME NEW s \in Score, NEW z \in Stamp 
      PROVE  c(s, z) \in Claim /\ c(s, z).target = t /\ c(s, z).claimer = n
  BY <1>1 DEF Claim
<1> HIDE DEF id
<1>3. PICK s \in Score, z \in Stamp :
        \/ /\ pending_claims' = [pending_claims EXCEPT ![n][t] = c(s, z)]
           /\ claims' = ToOthers(claims, n, c(s, z))
           /\ waits' = [waits EXCEPT ![n] = @ \cup {c(s, z)}]
           /\ UNCHANGED trouble
        \/ /\ Fault
           /\ pending_claims' \in {Drop(n, t), pending_claims}
           /\ UNCHANGED <<claims, waits>>
  BY DEF PublishAssistClaim, id
<1> QED
  BY <1>2, <1>3

\* Every step keeps every variable within its type.
THEOREM TypeCorrect == Spec => []TypeOK
<1> USE NodeAssumption, BoundAssumption
<1>1. Init => TypeOK
  BY DEF Init, TypeOK, Filed
<1>2. TypeOK /\ [Next]_vars => TypeOK'
  <2> SUFFICES ASSUME TypeOK, [Next]_vars PROVE TypeOK'
    OBVIOUS
  <2> USE DEF TypeOK
  <2>1. CASE UNCHANGED vars
    BY <2>1 DEF vars, reportVars, busVars, claimVars, assistVars, Filed
  <2>2. ASSUME NEW r \in Reporter, NEW t \in Target, Report(r, t) PROVE TypeOK'
    <3>1. CASE HealFails(r, t)
      <4>1. ToOthers(signals, r, t) \in [Node -> SUBSET Target]
        BY ToOthersType
      <4>2. signals' \in [Node -> SUBSET Target]
        BY <3>1, <4>1 DEF HealFails
      <4>3. trouble' \in 0 .. MaxTrouble
        BY <3>1 DEF HealFails, Fault
      <4> QED
        BY <3>1, <4>2, <4>3, CountedType DEF HealFails, claimVars, assistVars, Filed
    <3>2. CASE HealSucceeds(r, t) \/ PeerAnswers(r, t)
      BY <3>2 DEF HealSucceeds, PeerAnswers, busVars, claimVars, assistVars, Filed
    <3>3. CASE RepairElsewhere(r, t) \/ HealCooldownEnds(r, t)
      BY <3>3 DEF RepairElsewhere, HealCooldownEnds, busVars, claimVars, assistVars, Filed
    <3>4. CASE HandleRepairResult(r, t)
      <4>1. Delivered(results, r, t) \in [Reporter -> SUBSET Target]
        BY DeliveredType
      <4>2. struggle_counter' \in [Reporter -> [Target -> 0 .. Threshold]]
        BY <3>4 DEF HandleRepairResult
      <4> QED
        BY <3>4, <4>1, <4>2 DEF HandleRepairResult, claimVars, assistVars, Filed
    <3> QED
      BY <2>2, <3>1, <3>2, <3>3, <3>4 DEF Report
  <2>3. ASSUME NEW n \in Node, NEW t \in Target, Assist(n, t) PROVE TypeOK'
    <3>1. CASE HandleStruggleSignal(n, t)
      <4>1. signals' \in [Node -> SUBSET Target]
        BY <3>1, DeliveredType DEF HandleStruggleSignal
      <4>2. CASE MayClaim(n, t)
        <5>1. PICK c \in Claim :
                /\ c.target = t /\ c.claimer = n
                /\ \/ /\ pending_claims' = [pending_claims EXCEPT ![n][t] = c]
                      /\ claims' = ToOthers(claims, n, c)
                      /\ waits' = [waits EXCEPT ![n] = @ \cup {c}]
                      /\ UNCHANGED trouble
                   \/ /\ Fault
                      /\ pending_claims' \in {Drop(n, t), pending_claims}
                      /\ UNCHANGED <<claims, waits>>
          BY <3>1, <4>2, PublishEffect DEF HandleStruggleSignal
        <5>2. ToOthers(claims, n, c) \in [Node -> SUBSET Claim]
          BY ToOthersType
        <5>3. claims' \in [Node -> SUBSET Claim]
          BY <5>1, <5>2
        <5>4. /\ pending_claims' \in [Node -> [Target -> Claim \cup {None}]]
              /\ waits' \in [Node -> SUBSET Claim]
              /\ trouble' \in 0 .. MaxTrouble
          BY <5>1 DEF Drop, Fault
        <5>5. pending_claims'[n][t] \in {c, None, pending_claims[n][t]}
          BY <5>1 DEF Drop
        <5>6. \A m \in Node, u \in Target :
                m # n \/ u # t => pending_claims'[m][u] = pending_claims[m][u]
          BY <5>1 DEF Drop
        <5>7. Filed'
          BY <5>1, <5>5, <5>6 DEF Filed
        <5> QED
          BY <3>1, <4>1, <5>3, <5>4, <5>7 DEF HandleStruggleSignal, reportVars, assistVars
      <4> QED
        BY <3>1, <4>1, <4>2 DEF HandleStruggleSignal, reportVars, assistVars, Filed
    <3>3. CASE RepairEnds(n, t)
      <4>1. ToOthers(results, n, t) \in [Reporter -> SUBSET Target]
        BY ToOthersType
      <4>2. results' \in [Reporter -> SUBSET Target]
        BY <3>3, <4>1 DEF RepairEnds
      <4> QED
        BY <3>3, <4>2 DEF RepairEnds, reportVars, claimVars, Filed
    <3>4. CASE BackoffEnds(n, t) \/ AssistCooldownEnds(n, t)
      BY <3>4 DEF BackoffEnds, AssistCooldownEnds, reportVars, busVars, claimVars,
         assistVars, Filed
    <3> QED
      BY <2>3, <3>1, <3>3, <3>4 DEF Assist
  <2>4. ASSUME NEW n \in Node, NEW c \in claims[n], HandleAssistClaim(n, c) PROVE TypeOK'
    <3>1. claims' \in [Node -> SUBSET Claim]
      BY <2>4, DeliveredType DEF HandleAssistClaim
    <3>2. c \in Claim /\ c.target \in Target
      BY DEF Claim
    <3>3. Filed'
      BY <2>4, <3>2 DEF HandleAssistClaim, Drop, Filed
    <3> QED
      BY <2>4, <3>1, <3>2, <3>3 DEF HandleAssistClaim, Drop, reportVars, assistVars
  <2>5. ASSUME NEW n \in Node, NEW c \in waits[n], ExecuteAssist(n, c) PROVE TypeOK'
    <3>1. c \in Claim /\ c.target \in Target
      BY DEF Claim
    <3>2. trouble' \in 0 .. MaxTrouble
      BY <2>5 DEF ExecuteAssist, Fault
    <3>3. Filed'
      BY <2>5, <3>1 DEF ExecuteAssist, Drop, Filed
    <3> QED
      BY <2>5, <3>1, <3>2, <3>3 DEF ExecuteAssist, Drop, reportVars, busVars, assistVars
  <2>6. ASSUME NEW n \in Node, LoseMessage(n) PROVE TypeOK'
    <3>1. /\ signals' \in [Node -> SUBSET Target]
          /\ claims' \in [Node -> SUBSET Claim]
          /\ results' \in [Reporter -> SUBSET Target]
      BY <2>6 DEF LoseMessage, Delivered
    <3> QED
      BY <2>6, <3>1 DEF LoseMessage, Fault, reportVars, claimVars, assistVars, Filed
  <2>7. ASSUME NEW n \in Node, Crash(n) PROVE TypeOK'
    BY <2>7 DEF Crash, Fault, Filed
  <2> QED
    BY <2>1, <2>2, <2>3, <2>4, <2>5, <2>6, <2>7 DEF Next, Contest
<1> QED
  BY <1>1, <1>2, PTL DEF Spec

\* A claim that is published reaches every node but its claimer.
LEMMA ClaimReaches ==
  ASSUME TypeOK, NEW n \in Node, NEW c \in Claim
  PROVE  ToOthers(claims, n, c) =
           [k \in Node |-> IF k = n THEN claims[k] ELSE claims[k] \cup {c}]
<1>1. claims \in [Node -> SUBSET Claim]
  BY DEF TypeOK
<1> QED
  BY <1>1 DEF ToOthers

\* Nothing but a fault is counted as one.
LEMMA TroubleIsFault ==
  ASSUME [Next]_vars
  PROVE  UNCHANGED trouble \/ Fault
<1>1. CASE UNCHANGED vars
  BY <1>1 DEF vars
<1>2. ASSUME NEW r \in Reporter, NEW t \in Target, Report(r, t) PROVE UNCHANGED trouble \/ Fault
  BY <1>2 DEF Report, HealFails, HealSucceeds, PeerAnswers, RepairElsewhere,
     HealCooldownEnds, HandleRepairResult
<1>3. ASSUME NEW n \in Node, NEW t \in Target, Assist(n, t)
      PROVE  UNCHANGED trouble \/ Fault
  <2>1. CASE HandleStruggleSignal(n, t)
    BY <2>1, PublishEffect DEF HandleStruggleSignal
  <2> QED
    BY <1>3, <2>1 DEF Assist, RepairEnds, BackoffEnds,
       AssistCooldownEnds
<1>4. ASSUME NEW n \in Node, Contest(n) \/ LoseMessage(n) \/ Crash(n)
      PROVE  UNCHANGED trouble \/ Fault
  BY <1>4 DEF Contest, HandleAssistClaim, ExecuteAssist, LoseMessage, Crash
<1> QED
  BY <1>1, <1>2, <1>3, <1>4 DEF Next

-----------------------------------------------------------------------------
\* The election

\* A claim that a node holds is for the target it is filed under, and its wait is
\* not over.
Held ==
  \A n \in Node, t \in Target :
    pending_claims[n][t] # None =>
      pending_claims[n][t].target = t /\ pending_claims[n][t] \in waits[n]

\* Whoever was told of a claim that still stands has backed off, and keeps a claim
\* of its own only if that one wins.
Known ==
  \A n, m \in Node, t \in Target :
    /\ n # m
    /\ pending_claims[n][t] # None
    /\ pending_claims[n][t] \notin claims[m]
    => /\ t \in assist_backoff[m]
       /\ pending_claims[m][t] # None => Beats(pending_claims[m][t], pending_claims[n][t])

\* While a node repairs a target, everyone else has backed off from it.
Alone ==
  \A n, m \in Node, t \in Target :
    n # m /\ t \in active_assists[n] =>
      /\ t \in assist_backoff[m]
      /\ pending_claims[m][t] = None
      /\ t \notin active_assists[m]

ElectionInv == Held /\ (trouble = 0 => Known /\ Alone)

\* Claims are made only by nodes that have heard of no other.
LEMMA StrugglePreserves ==
  ASSUME TypeOK, ElectionInv, NEW n \in Node, NEW t \in Target,
         HandleStruggleSignal(n, t)
  PROVE  ElectionInv'
<1> USE DEF TypeOK
<1>1. CASE ~MayClaim(n, t)
  BY <1>1 DEF HandleStruggleSignal, ElectionInv, Held, Known, Alone, assistVars
<1>2. CASE MayClaim(n, t)
  <2>1. PICK c \in Claim :
          /\ c.target = t /\ c.claimer = n
          /\ \/ /\ pending_claims' = [pending_claims EXCEPT ![n][t] = c]
                /\ claims' = ToOthers(claims, n, c)
                /\ waits' = [waits EXCEPT ![n] = @ \cup {c}]
                /\ UNCHANGED trouble
             \/ /\ Fault
                /\ pending_claims' \in {Drop(n, t), pending_claims}
                /\ UNCHANGED <<claims, waits>>
    BY <1>2, PublishEffect DEF HandleStruggleSignal
  <2>2. t \notin assist_backoff[n]
    BY <1>2 DEF MayClaim
  <2>3. UNCHANGED <<assist_backoff, assist_rate, active_assists>>
    BY DEF HandleStruggleSignal, assistVars
  <2>4. Held'
    <3>1. waits' = [waits EXCEPT ![n] = @ \cup {c}] \/ waits' = waits
      BY <2>1
    <3>2. \A k \in Node : waits[k] \subseteq waits'[k]
      BY <3>1
    <3>3. CASE pending_claims' = [pending_claims EXCEPT ![n][t] = c] /\ c \in waits'[n]
      BY <2>1, <3>2, <3>3 DEF ElectionInv, Held
    <3>4. CASE pending_claims' \in {Drop(n, t), pending_claims}
      <4>1. \A m \in Node, u \in Target :
              pending_claims'[m][u] \in {pending_claims[m][u], None}
        BY <3>4 DEF Drop
      <4> QED
        BY <3>2, <4>1 DEF ElectionInv, Held
    <3> QED
      BY <2>1, <3>3, <3>4
  <2>5. ASSUME trouble' = 0 PROVE Known' /\ Alone'
    <3>1. trouble = 0
      BY <2>1, <2>5, BoundAssumption DEF Fault
    <3>2. /\ pending_claims' = [pending_claims EXCEPT ![n][t] = c]
          /\ claims' = [k \in Node |-> IF k = n THEN claims[k] ELSE claims[k] \cup {c}]
      BY <2>1, <2>5, <3>1, ClaimReaches, BoundAssumption DEF Fault
    <3>3. Known'
      BY <2>2, <2>3, <3>1, <3>2 DEF ElectionInv, Known
    <3>4. Alone'
      BY <2>2, <2>3, <3>1, <3>2 DEF ElectionInv, Alone
    <3> QED
      BY <3>3, <3>4
  <2> QED
    BY <2>4, <2>5 DEF ElectionInv
<1> QED
  BY <1>1, <1>2

\* A duel leaves the better of two claims.
LEMMA DuelPreserves ==
  ASSUME TypeOK, ElectionInv, NEW n \in Node, NEW c \in claims[n],
         HandleAssistClaim(n, c)
  PROVE  ElectionInv'
<1> USE DEF TypeOK
<1> DEFINE t == c.target
<1>1. c \in Claim /\ t \in Target
  BY DEF Claim
<1>2. /\ claims' = [claims EXCEPT ![n] = @ \ {c}]
      /\ assist_backoff' = [assist_backoff EXCEPT ![n] = @ \cup {t}]
      /\ UNCHANGED <<waits, active_assists, trouble>>
  BY DEF HandleAssistClaim, Delivered, assistVars
<1>3. pending_claims' =
        IF pending_claims[n][t] # None /\ ~Beats(pending_claims[n][t], c)
        THEN [pending_claims EXCEPT ![n][t] = None] ELSE pending_claims
  BY DEF HandleAssistClaim, Drop
<1>4. Held'
  BY <1>1, <1>2, <1>3 DEF ElectionInv, Held
<1>5. ASSUME trouble' = 0 PROVE Known' /\ Alone'
  <2>1. Known /\ Alone
    BY <1>2, <1>5 DEF ElectionInv
  <2>2. Known'
    <3> SUFFICES ASSUME NEW k \in Node, NEW m \in Node, NEW u \in Target, k # m,
                        pending_claims'[k][u] # None,
                        pending_claims'[k][u] \notin claims'[m]
                 PROVE  /\ u \in assist_backoff'[m]
                        /\ pending_claims'[m][u] # None =>
                             Beats(pending_claims'[m][u], pending_claims'[k][u])
      BY DEF Known
    <3>1. pending_claims'[k][u] = pending_claims[k][u]
      BY <1>1, <1>3
    <3>2. pending_claims'[m][u] \in {pending_claims[m][u], None}
      BY <1>1, <1>3
    <3>3. CASE pending_claims[k][u] \notin claims[m]
      BY <1>1, <1>2, <2>1, <3>1, <3>2, <3>3 DEF Known
    <3>4. CASE pending_claims[k][u] \in claims[m]
      <4>1. m = n /\ pending_claims[k][u] = c
        BY <1>2, <3>1, <3>4
      <4>2. u = t
        BY <3>1, <4>1 DEF ElectionInv, Held
      <4> QED
        BY <1>1, <1>2, <1>3, <3>1, <4>1, <4>2
    <3> QED
      BY <3>3, <3>4
  <2>3. Alone'
    BY <1>1, <1>2, <1>3, <2>1 DEF Alone
  <2> QED
    BY <2>2, <2>3
<1> QED
  BY <1>4, <1>5 DEF ElectionInv

\* A claim whose wait is over has met every rival and beaten it.
LEMMA StandingClaimIsAlone ==
  ASSUME TypeOK, Held, Known, Alone, NEW n \in Node, NEW c \in waits[n], Prompt(n, c),
         Stands(n, c), NEW m \in Node, m # n
  PROVE  /\ c.target \in assist_backoff[m]
         /\ pending_claims[m][c.target] = None
         /\ c.target \notin active_assists[m]
<1> USE DEF TypeOK
<1> DEFINE t == c.target
<1>1. c \in Claim /\ t \in Target /\ c # None
  BY NoneAssumption DEF Claim
<1>2. c \notin claims[m] /\ pending_claims[n][t] = c
  BY DEF Prompt, Stands
<1>3. /\ t \in assist_backoff[m]
      /\ pending_claims[m][t] # None => Beats(pending_claims[m][t], c)
  BY <1>1, <1>2 DEF Known
<1>4. ASSUME pending_claims[m][t] # None PROVE FALSE
  <2>1. pending_claims[m][t] \in Claim /\ pending_claims[m][t].target = t
    BY <1>1, <1>4 DEF Held
  <2>2. pending_claims[m][t] \notin claims[n]
    BY <2>1 DEF Prompt
  <2>3. Beats(c, pending_claims[m][t])
    BY <1>1, <1>2, <1>4, <2>2 DEF Known
  <2> QED
    BY <1>1, <1>3, <1>4, <2>1, <2>3, BeatsIsAsymmetric
<1>5. t \notin active_assists[m]
  BY <1>1, <1>2 DEF Alone
<1> QED
  BY <1>3, <1>4, <1>5

LEMMA ExecutePreserves ==
  ASSUME TypeOK, ElectionInv, NEW n \in Node, NEW c \in waits[n],
         ExecuteAssist(n, c)
  PROVE  ElectionInv'
<1> USE DEF TypeOK
<1> DEFINE t == c.target
<1>1. c \in Claim /\ t \in Target /\ c # None
  BY NoneAssumption DEF Claim
<1>2. /\ waits' = [waits EXCEPT ![n] = @ \ {c}]
      /\ pending_claims' = IF Stands(n, c) THEN [pending_claims EXCEPT ![n][t] = None]
                           ELSE pending_claims
      /\ UNCHANGED <<claims, assist_backoff>>
  BY DEF ExecuteAssist, Drop, busVars
<1>3. Held'
  BY <1>1, <1>2 DEF ElectionInv, Held, Stands
<1>4. ASSUME trouble' = 0 PROVE Known' /\ Alone'
  <2>1. trouble = 0 /\ Prompt(n, c)
    BY <1>4, BoundAssumption DEF ExecuteAssist, Fault
  <2>2. Known /\ Alone
    BY <2>1 DEF ElectionInv
  <2>3. Known'
    BY <1>1, <1>2, <2>2 DEF Known
  <2>4. CASE UNCHANGED active_assists
    BY <1>1, <1>2, <2>2, <2>3, <2>4 DEF Alone
  <2>5. CASE Stands(n, c) /\ active_assists' = [active_assists EXCEPT ![n] = @ \cup {t}]
    <3>1. ASSUME NEW m \in Node, m # n
          PROVE  /\ t \in assist_backoff[m]
                 /\ pending_claims[m][t] = None
                 /\ t \notin active_assists[m]
      BY <2>1, <2>2, <2>5, <3>1, StandingClaimIsAlone DEF ElectionInv
    <3>2. Alone'
      BY <1>1, <1>2, <2>2, <2>5, <3>1 DEF Alone
    <3> QED
      BY <2>3, <3>2
  <2> QED
    BY <2>4, <2>5 DEF ExecuteAssist, assistVars
<1> QED
  BY <1>3, <1>4 DEF ElectionInv

\* A back-off outlasts the claims and the repair that it is for.
LEMMA BackoffPreserves ==
  ASSUME TypeOK, ElectionInv, NEW n \in Node, NEW t \in Target, BackoffEnds(n, t)
  PROVE  ElectionInv'
<1> USE DEF TypeOK
<1>1. /\ assist_backoff' = [assist_backoff EXCEPT ![n] = @ \ {t}]
      /\ UNCHANGED <<claims, pending_claims, waits, active_assists, trouble>>
  BY DEF BackoffEnds, busVars, assistVars
<1>2. Held'
  BY <1>1 DEF ElectionInv, Held
<1>3. ASSUME trouble' = 0 PROVE Known' /\ Alone'
  <2>1. Known /\ Alone /\ Held /\ BackoffIsOver(n, t)
    BY <1>1, <1>3 DEF ElectionInv, BackoffEnds
  <2>2. ASSUME NEW k \in Node \ {n}
        PROVE  /\ t \notin active_assists[k]
               /\ pending_claims[k][t] # None => pending_claims[k][t] \in claims[n]
    BY <2>1 DEF BackoffIsOver, Held
  <2>3. Known'
    BY <1>1, <2>1, <2>2 DEF Known
  <2>4. Alone'
    BY <1>1, <2>1, <2>2 DEF Alone
  <2> QED
    BY <2>3, <2>4
<1> QED
  BY <1>2, <1>3 DEF ElectionInv

LEMMA ElectionInvariant == Spec => []ElectionInv
<1>1. Init => ElectionInv
  BY DEF Init, ElectionInv, Held, Known, Alone
<1>2. TypeOK /\ ElectionInv /\ [Next]_vars => ElectionInv'
  <2> SUFFICES ASSUME TypeOK, ElectionInv, [Next]_vars PROVE ElectionInv'
    OBVIOUS
  <2> USE DEF TypeOK
  <2>1. CASE UNCHANGED vars
    BY <2>1 DEF vars, busVars, claimVars, assistVars, ElectionInv, Held, Known, Alone
  <2>2. ASSUME NEW r \in Reporter, NEW t \in Target, Report(r, t) PROVE ElectionInv'
    <3>1. UNCHANGED <<claims, pending_claims, waits, assist_backoff, active_assists>>
      BY <2>2 DEF Report, HealFails, HealSucceeds, PeerAnswers, RepairElsewhere,
         HealCooldownEnds, HandleRepairResult, busVars, claimVars, assistVars
    <3>2. trouble' = 0 => trouble = 0
      BY <2>2, TroubleIsFault, BoundAssumption DEF Fault
    <3> QED
      BY <3>1, <3>2 DEF ElectionInv, Held, Known, Alone
  <2>3. ASSUME NEW n \in Node, NEW t \in Target, Assist(n, t) PROVE ElectionInv'
    <3>1. CASE HandleStruggleSignal(n, t)
      BY <3>1, StrugglePreserves
    <3>2. CASE AssistCooldownEnds(n, t)
      BY <3>2 DEF AssistCooldownEnds, busVars, claimVars, ElectionInv, Held, Known, Alone
    <3>3. CASE RepairEnds(n, t)
      BY <3>3 DEF RepairEnds, claimVars, ElectionInv, Held, Known, Alone
    <3>4. CASE BackoffEnds(n, t)
      BY <3>4, BackoffPreserves
    <3> QED
      BY <2>3, <3>1, <3>2, <3>3, <3>4 DEF Assist
  <2>4. ASSUME NEW n \in Node, Contest(n) PROVE ElectionInv'
    BY <2>4, DuelPreserves, ExecutePreserves DEF Contest
  <2>5. ASSUME NEW n \in Node, LoseMessage(n) \/ Crash(n) PROVE ElectionInv'
    <3>1. trouble' # 0
      BY <2>5, BoundAssumption DEF LoseMessage, Crash, Fault
    <3>2. Held'
      <4>1. CASE LoseMessage(n)
        BY <4>1 DEF LoseMessage, claimVars, ElectionInv, Held
      <4>2. CASE Crash(n)
        BY <4>2 DEF Crash, ElectionInv, Held
      <4> QED
        BY <2>5, <4>1, <4>2
    <3> QED
      BY <3>1, <3>2 DEF ElectionInv
  <2> QED
    BY <2>1, <2>2, <2>3, <2>4, <2>5 DEF Next
<1> QED
  BY <1>1, <1>2, TypeCorrect, PTL DEF Spec

\* No two nodes run the repair of one target while no message, node or timer has
\* misbehaved.
THEOREM OneAssister == Spec => []OneAssisterPerTarget
<1>1. ElectionInv => OneAssisterPerTarget
  BY DEF ElectionInv, Alone, OneAssisterPerTarget
<1> QED
  BY <1>1, ElectionInvariant, PTL

-----------------------------------------------------------------------------
\* The winner

\* Claims bear the name of their claimer, and a node does not claim a target that
\* it has assisted within the cooldown.
Signed ==
  /\ \A n \in Node, t \in Target :
       pending_claims[n][t] # None =>
         pending_claims[n][t].claimer = n /\ t \notin assist_rate[n]
  /\ \A n \in Node : \A c \in claims[n] : c.claimer # n

LEMMA SignedAlways == Spec => []Signed
<1>1. Init => Signed
  BY DEF Init, Signed
<1>2. TypeOK /\ Held /\ Signed /\ [Next]_vars => Signed'
  <2> SUFFICES ASSUME TypeOK, Held, Signed, [Next]_vars PROVE Signed'
    OBVIOUS
  <2> USE DEF TypeOK
  <2>1. CASE UNCHANGED vars
    BY <2>1 DEF vars, busVars, claimVars, assistVars, Signed
  <2>2. ASSUME NEW r \in Reporter, NEW t \in Target, Report(r, t) PROVE Signed'
    BY <2>2 DEF Report, HealFails, HealSucceeds, PeerAnswers, RepairElsewhere, HealCooldownEnds,
       HandleRepairResult, busVars, claimVars,
       assistVars, Signed
  <2>3. ASSUME NEW n \in Node, NEW t \in Target, Assist(n, t) PROVE Signed'
    <3>1. CASE HandleStruggleSignal(n, t) /\ MayClaim(n, t)
      <4>1. PICK c \in Claim :
              /\ c.target = t /\ c.claimer = n
              /\ \/ /\ pending_claims' = [pending_claims EXCEPT ![n][t] = c]
                    /\ claims' = ToOthers(claims, n, c)
                    /\ waits' = [waits EXCEPT ![n] = @ \cup {c}]
                    /\ UNCHANGED trouble
                 \/ /\ Fault
                    /\ pending_claims' \in {Drop(n, t), pending_claims}
                    /\ UNCHANGED <<claims, waits>>
        BY <3>1, PublishEffect DEF HandleStruggleSignal
      <4>2. t \notin assist_rate[n] /\ UNCHANGED assist_rate
        BY <3>1 DEF HandleStruggleSignal, MayClaim, assistVars
      <4>3. CASE UNCHANGED trouble /\ claims' = ToOthers(claims, n, c)
                 /\ pending_claims' = [pending_claims EXCEPT ![n][t] = c]
        <5>1. claims' = [k \in Node |-> IF k = n THEN claims[k] ELSE claims[k] \cup {c}]
          BY <4>3, ClaimReaches
        <5> QED
          BY <4>1, <4>2, <4>3, <5>1 DEF Signed
      <4>4. CASE pending_claims' \in {Drop(n, t), pending_claims} /\ UNCHANGED claims
        <5>1. \A m \in Node, u \in Target :
                pending_claims'[m][u] \in {pending_claims[m][u], None}
          <6>1. CASE pending_claims' = Drop(n, t)
            BY <6>1 DEF Drop
          <6> QED
            BY <4>4, <6>1
        <5> QED
          BY <4>2, <4>4, <5>1 DEF Signed
      <4> QED
        BY <4>1, <4>3, <4>4
    <3>2. CASE HandleStruggleSignal(n, t) /\ ~MayClaim(n, t)
      BY <3>2 DEF HandleStruggleSignal, assistVars, Signed
    <3>3. CASE RepairEnds(n, t) \/ BackoffEnds(n, t)
      BY <3>3 DEF RepairEnds, BackoffEnds, busVars, claimVars, assistVars, Signed
    <3>4. CASE AssistCooldownEnds(n, t)
      BY <3>4 DEF AssistCooldownEnds, busVars, claimVars, Signed
    <3> QED
      BY <2>3, <3>1, <3>2, <3>3, <3>4 DEF Assist
  <2>4. ASSUME NEW n \in Node, NEW c \in claims[n], HandleAssistClaim(n, c) PROVE Signed'
    BY <2>4 DEF HandleAssistClaim, Delivered, Drop, assistVars, Signed
  <2>5. ASSUME NEW n \in Node, NEW c \in waits[n], ExecuteAssist(n, c) PROVE Signed'
    <3>1. UNCHANGED claims
      BY <2>5 DEF ExecuteAssist, busVars
    <3>2. CASE Stands(n, c)
      <4>1. c.target \in Target
        BY DEF Claim
      <4>2. /\ pending_claims' = [pending_claims EXCEPT ![n][c.target] = None]
            /\ \/ UNCHANGED assist_rate
               \/ assist_rate' = [assist_rate EXCEPT ![n] = @ \cup {c.target}]
        BY <2>5, <3>2 DEF ExecuteAssist, Drop, assistVars
      <4> QED
        BY <3>1, <4>1, <4>2 DEF Signed
    <3>3. CASE ~Stands(n, c)
      BY <2>5, <3>1, <3>3 DEF ExecuteAssist, assistVars, Signed
    <3> QED
      BY <3>2, <3>3
  <2>6. ASSUME NEW n \in Node, LoseMessage(n) PROVE Signed'
    <3>1. \A k \in Node : claims'[k] \subseteq claims[k]
      <4>1. CASE UNCHANGED claims
        BY <4>1
      <4>2. CASE \E c \in claims[n] : claims' = Delivered(claims, n, c)
        BY <4>2 DEF Delivered
      <4> QED
        BY <2>6, <4>1, <4>2 DEF LoseMessage
    <3> QED
      BY <2>6, <3>1 DEF LoseMessage, claimVars, assistVars, Signed
  <2>7. ASSUME NEW n \in Node, Crash(n) PROVE Signed'
    BY <2>7 DEF Crash, Signed
  <2> QED
    BY <2>1, <2>2, <2>3, <2>4, <2>5, <2>6, <2>7 DEF Next, Contest
<1>3. ElectionInv => Held
  BY DEF ElectionInv
<1> QED
  BY <1>1, <1>2, <1>3, TypeCorrect, ElectionInvariant, PTL DEF Spec

Undisturbed == LoneReporter /\ trouble = 0

\* A round is over before its reporter begins the next one: no node is told of a
\* struggle while it waits with a claim, and a claim outlives its messages.
Paced ==
  /\ \A r \in Reporter, t \in Target : t \notin heal_cooldown[r] => RoundIsOver(t)
  /\ \A n \in Node : \A c \in waits[n] : c.target \notin signals[n]
  /\ \A n \in Node : \A c \in claims[n] : c \in waits[c.claimer]

LEMMA PacedAlways == Spec => [](Undisturbed => Paced)
<1>1. Init => (Undisturbed => Paced)
  BY DEF Init, Paced, RoundIsOver
<1>2. TypeOK /\ (Undisturbed => Paced) /\ [Next]_vars => (Undisturbed => Paced)'
  <2> SUFFICES ASSUME TypeOK, Undisturbed => Paced, [Next]_vars, Undisturbed'
               PROVE  Paced'
    OBVIOUS
  <2> USE DEF TypeOK
  <2>1. Undisturbed /\ trouble = 0 /\ trouble' = 0 /\ LoneReporter /\ ~Fault
    <3>1. trouble' = 0 /\ LoneReporter
      BY DEF Undisturbed, LoneReporter
    <3>2. ~Fault
      BY <3>1, BoundAssumption DEF Fault
    <3>3. UNCHANGED trouble \/ Fault
      BY TroubleIsFault
    <3> QED
      BY <3>1, <3>2, <3>3 DEF Undisturbed
  <2>2. Paced
    BY <2>1
  <2>3. CASE UNCHANGED vars
    BY <2>2, <2>3 DEF vars, reportVars, busVars, claimVars, Paced, RoundIsOver
  <2>4. ASSUME NEW r \in Reporter, NEW t \in Target, Report(r, t) PROVE Paced'
    <3>1. UNCHANGED <<claims, waits>>
      BY <2>4 DEF Report, HealFails, HealSucceeds, PeerAnswers, RepairElsewhere,
         HealCooldownEnds, HandleRepairResult, busVars, claimVars
    <3>2. CASE HealFails(r, t)
      <4>1. /\ heal_cooldown' = [heal_cooldown EXCEPT ![r] = @ \cup {t}]
            /\ \A k \in Node : signals'[k] \subseteq signals[k] \cup {t}
        BY <3>2, ToOthersType DEF HealFails
      <4>2. \A n \in Node : \A c \in waits[n] : c.target # t
        BY <2>2, <3>2 DEF HealFails, Paced, RoundIsOver
      <4>3. \A s \in Reporter : s = r
        BY <2>1 DEF LoneReporter
      <4> QED
        BY <2>2, <3>1, <4>1, <4>2, <4>3 DEF Paced, RoundIsOver
    <3>3. CASE ~HealFails(r, t)
      <4>1. UNCHANGED signals
        BY <2>4, <3>3 DEF Report, HealSucceeds, PeerAnswers, RepairElsewhere,
           HealCooldownEnds, HandleRepairResult, busVars
      <4>2. ASSUME NEW s \in Reporter, NEW u \in Target, u \notin heal_cooldown'[s]
            PROVE  RoundIsOver(u)
        <5>1. CASE u \notin heal_cooldown[s]
          BY <2>2, <5>1 DEF Paced
        <5>2. CASE u \in heal_cooldown[s]
          <6>1. HealCooldownEnds(r, t) /\ u = t
            BY <2>4, <3>3, <4>2, <5>2 DEF Report, HealSucceeds, PeerAnswers,
               RepairElsewhere, HealCooldownEnds, HandleRepairResult
          <6> QED
            BY <2>1, <6>1 DEF HealCooldownEnds
        <5> QED
          BY <5>1, <5>2
      <4> QED
        BY <2>2, <3>1, <4>1, <4>2 DEF Paced, RoundIsOver
    <3> QED
      BY <3>2, <3>3
  <2>5. ASSUME NEW n \in Node, NEW t \in Target, Assist(n, t) PROVE Paced'
    <3>1. CASE HandleStruggleSignal(n, t)
      <4>1. /\ t \in signals[n]
            /\ signals' = [signals EXCEPT ![n] = @ \ {t}]
            /\ UNCHANGED heal_cooldown
        BY <3>1 DEF HandleStruggleSignal, Delivered, reportVars
      <4>2. \A r \in Reporter : t \in heal_cooldown[r]
        BY <2>2, <4>1 DEF Paced, RoundIsOver
      <4>3. CASE UNCHANGED <<claims, waits>>
        BY <2>2, <4>1, <4>3 DEF Paced, RoundIsOver
      <4>4. CASE MayClaim(n, t)
        <5>1. PICK c \in Claim :
                /\ c.target = t /\ c.claimer = n
                /\ claims' = ToOthers(claims, n, c)
                /\ waits' = [waits EXCEPT ![n] = @ \cup {c}]
          BY <2>1, <3>1, <4>4, PublishEffect DEF HandleStruggleSignal
        <5>2. \A m \in Node : claims'[m] \subseteq claims[m] \cup {c}
          BY <5>1, ClaimReaches
        <5>3. ASSUME NEW s \in Reporter, NEW u \in Target, u \notin heal_cooldown'[s]
              PROVE  RoundIsOver(u)'
          BY <2>2, <4>1, <4>2, <5>1, <5>3 DEF Paced, RoundIsOver
        <5>4. ASSUME NEW m \in Node, NEW d \in waits'[m] PROVE d.target \notin signals'[m]
          BY <2>2, <4>1, <5>1, <5>4 DEF Paced
        <5>5. ASSUME NEW m \in Node, NEW d \in claims'[m] PROVE d \in waits'[d.claimer]
          <6>1. d \in Claim
            BY <5>2, <5>5
          <6>2. d.claimer \in Node
            BY <6>1 DEF Claim
          <6>3. CASE d = c
            BY <5>1, <6>3
          <6>4. CASE d \in claims[m]
            BY <2>2, <5>1, <6>2, <6>4 DEF Paced
          <6> QED
            BY <5>2, <5>5, <6>3, <6>4
        <5> QED
          BY <5>3, <5>4, <5>5 DEF Paced
      <4> QED
        BY <3>1, <4>3, <4>4 DEF HandleStruggleSignal
    <3>2. CASE ~HandleStruggleSignal(n, t)
      <4>1. UNCHANGED <<heal_cooldown, signals, claims, waits>>
        BY <2>5, <3>2 DEF Assist, RepairEnds, BackoffEnds,
           AssistCooldownEnds, reportVars, busVars, claimVars
      <4> QED
        BY <2>2, <4>1 DEF Paced, RoundIsOver
    <3> QED
      BY <3>1, <3>2
  <2>6. ASSUME NEW n \in Node, NEW c \in claims[n], HandleAssistClaim(n, c) PROVE Paced'
    <3>1. /\ UNCHANGED <<heal_cooldown, signals, waits>>
          /\ \A k \in Node : claims'[k] \subseteq claims[k]
      BY <2>6 DEF HandleAssistClaim, Delivered, reportVars
    <3> QED
      BY <2>2, <3>1 DEF Paced, RoundIsOver
  <2>7. ASSUME NEW n \in Node, NEW c \in waits[n], ExecuteAssist(n, c) PROVE Paced'
    <3>1. /\ waits' = [waits EXCEPT ![n] = @ \ {c}]
          /\ \A k \in Node : c \notin claims[k]
          /\ UNCHANGED <<heal_cooldown, signals, claims>>
      BY <2>1, <2>7 DEF ExecuteAssist, Prompt, reportVars, busVars
    <3>2. ASSUME NEW m \in Node, NEW d \in claims[m] PROVE d \in waits'[d.claimer]
      <4>1. d \in Claim
        BY <3>2
      <4>2. d.claimer \in Node
        BY <4>1 DEF Claim
      <4> QED
        BY <2>2, <3>1, <3>2, <4>2 DEF Paced
    <3> QED
      BY <2>2, <3>1, <3>2 DEF Paced, RoundIsOver
  <2> QED
    BY <2>1, <2>3, <2>4, <2>5, <2>6, <2>7 DEF Next, Contest, LoseMessage, Crash
<1> QED
  BY <1>1, <1>2, TypeCorrect, PTL DEF Spec

\* A node that holds a claim for t, or will make one as soon as it hears of it.
Open(n, t) ==
  \/ pending_claims[n][t] # None
  \/ t \in signals[n] /\ t \notin assist_backoff[n]

\* Someone holds the claim c, or one that beats it.
Backed(c) ==
  \E k \in Node :
    /\ pending_claims[k][c.target] # None
    /\ pending_claims[k][c.target] = c \/ Beats(pending_claims[k][c.target], c)

\* A claim that can still eliminate a rival has a holder, or has lost to one.
Vouched == \A n \in Node : \A c \in claims[n] : Open(n, c.target) => Backed(c)

\* A rival that gives way leaves a better claim behind.
LEMMA LoserIsBeaten ==
  ASSUME TypeOK, Held, Signed, Vouched, NEW n \in Node, NEW c \in claims[n],
         pending_claims[n][c.target] # None, ~Beats(pending_claims[n][c.target], c)
  PROVE  \E k \in Node \ {n} :
           /\ pending_claims[k][c.target] # None
           /\ Beats(pending_claims[k][c.target], pending_claims[n][c.target])
<1> USE DEF TypeOK
<1> DEFINE t == c.target
           ours == pending_claims[n][t]
<1>1. c \in Claim /\ t \in Target /\ ours \in Claim /\ ours.claimer = n /\ c.claimer # n
  BY DEF Claim, Signed
<1>2. Beats(c, ours)
  BY <1>1, BeatsIsTotal
<1>3. PICK k \in Node :
        /\ pending_claims[k][t] # None
        /\ pending_claims[k][t] = c \/ Beats(pending_claims[k][t], c)
  BY DEF Vouched, Open, Backed
<1>4. k # n
  BY <1>1, <1>3
<1>5. pending_claims[k][t] \in Claim
  BY <1>1, <1>3
<1>6. Beats(pending_claims[k][t], ours)
  BY <1>1, <1>2, <1>3, <1>5, BeatsIsTransitive
<1> QED
  BY <1>3, <1>4, <1>6

LEMMA VouchedAlways == Spec => [](Undisturbed => Vouched)
<1>1. Init => (Undisturbed => Vouched)
  BY DEF Init, Vouched
<1>2. TypeOK /\ ElectionInv /\ Signed /\ (Undisturbed => Paced) /\ (Undisturbed => Vouched)
        /\ [Next]_vars
      => (Undisturbed => Vouched)'
  <2> SUFFICES ASSUME TypeOK, ElectionInv, Signed, Undisturbed => Paced,
                      Undisturbed => Vouched, [Next]_vars, Undisturbed'
               PROVE  Vouched'
    OBVIOUS
  <2> USE DEF TypeOK
  <2>1. Undisturbed /\ trouble = 0 /\ ~Fault
    BY TroubleIsFault, BoundAssumption DEF Undisturbed, LoneReporter, Fault
  <2>2. Held /\ Known /\ Alone /\ Paced /\ Vouched
    BY <2>1 DEF ElectionInv
  <2>3. CASE UNCHANGED vars
    BY <2>2, <2>3 DEF vars, busVars, claimVars, Vouched, Open, Backed
  <2>4. ASSUME NEW r \in Reporter, NEW t \in Target, Report(r, t) PROVE Vouched'
    <3>1. UNCHANGED <<claims, pending_claims, assist_backoff>>
      BY <2>4 DEF Report, HealFails, HealSucceeds, PeerAnswers, RepairElsewhere,
         HealCooldownEnds, HandleRepairResult, busVars, claimVars
    <3>2. CASE HealFails(r, t)
      <4>1. \A k \in Node : signals'[k] \subseteq signals[k] \cup {t}
        BY <3>2, ToOthersType DEF HealFails
      <4>2. ASSUME NEW n \in Node, NEW c \in claims[n] PROVE c.target # t
        <5>1. c \in Claim
          BY <4>2
        <5>2. c.claimer \in Node /\ c \in waits[c.claimer]
          BY <2>2, <5>1 DEF Paced, Claim
        <5> QED
          BY <2>2, <3>2, <5>2 DEF HealFails, Paced, RoundIsOver
      <4> QED
        BY <2>2, <3>1, <4>1, <4>2 DEF Vouched, Open, Backed
    <3>3. CASE UNCHANGED signals
      BY <2>2, <3>1, <3>3 DEF Vouched, Open, Backed
    <3> QED
      BY <2>4, <3>2, <3>3 DEF Report, HealSucceeds, PeerAnswers,
         RepairElsewhere, HealCooldownEnds, HandleRepairResult, busVars
  <2>5. ASSUME NEW n \in Node, NEW t \in Target, Assist(n, t) PROVE Vouched'
    <3>1. CASE HandleStruggleSignal(n, t)
      <4>1. /\ t \in signals[n]
            /\ \A k \in Node : signals'[k] \subseteq signals[k]
            /\ UNCHANGED assist_backoff
        BY <3>1 DEF HandleStruggleSignal, Delivered
      <4>2. CASE UNCHANGED <<claims, pending_claims>>
        BY <2>2, <4>1, <4>2 DEF Vouched, Open, Backed
      <4>3. CASE MayClaim(n, t)
        <5>1. PICK c \in Claim :
                /\ c.target = t /\ c.claimer = n
                /\ claims' = ToOthers(claims, n, c)
                /\ pending_claims' = [pending_claims EXCEPT ![n][t] = c]
          <6> HIDE DEF TypeOK
          <6> QED
            BY <2>1, <3>1, <4>3, PublishEffect DEF HandleStruggleSignal
        <5>2. \A m \in Node : claims'[m] \subseteq claims[m] \cup {c}
          BY <5>1, ClaimReaches
        <5>3. pending_claims[n][t] = None
          BY <2>2, <4>1 DEF Held, Paced
        <5>4. Open(n, t)
          BY <4>1, <4>3 DEF Open, MayClaim
        <5>5. ASSUME NEW m \in Node, NEW d \in claims'[m], Open(m, d.target)'
              PROVE  Backed(d)'
          <6>1. CASE d = c
            BY <5>1, <6>1, NoneAssumption DEF Backed
          <6>2. CASE d \in claims[m]
            <7>1. Open(m, d.target)
              BY <4>1, <5>1, <5>4, <5>5 DEF Open
            <7>2. Backed(d)
              BY <2>2, <6>2, <7>1 DEF Vouched
            <7> QED
              BY <5>1, <5>3, <7>2 DEF Backed
          <6> QED
            BY <5>2, <5>5, <6>1, <6>2
        <5> QED
          BY <5>5 DEF Vouched
      <4> QED
        BY <3>1, <4>2, <4>3 DEF HandleStruggleSignal
    <3>2. CASE BackoffEnds(n, t)
      <4>1. /\ t \notin signals[n]
            /\ assist_backoff' = [assist_backoff EXCEPT ![n] = @ \ {t}]
            /\ UNCHANGED <<signals, claims, pending_claims>>
        BY <2>1, <3>2 DEF BackoffEnds, BackoffIsOver, busVars
      <4> QED
        BY <2>2, <4>1 DEF Vouched, Open, Backed
    <3>3. CASE HandleRepairResult(n, t) \/ RepairEnds(n, t) \/ AssistCooldownEnds(n, t)
      <4>1. UNCHANGED <<signals, claims, pending_claims, assist_backoff>>
        BY <3>3 DEF HandleRepairResult, RepairEnds, AssistCooldownEnds, busVars, claimVars
      <4> QED
        BY <2>2, <4>1 DEF Vouched, Open, Backed
    <3> QED
      BY <2>5, <3>1, <3>2, <3>3 DEF Assist
  <2>6. ASSUME NEW n \in Node, NEW c \in claims[n], HandleAssistClaim(n, c) PROVE Vouched'
    <3> DEFINE t == c.target
               ours == pending_claims[n][t]
    <3>1. c \in Claim /\ t \in Target
      BY DEF Claim
    <3>2. /\ UNCHANGED signals
          /\ \A k \in Node : claims'[k] \subseteq claims[k]
          /\ \A k \in Node : assist_backoff[k] \subseteq assist_backoff'[k]
      BY <2>6, <3>1 DEF HandleAssistClaim, Delivered
    <3>3. CASE UNCHANGED pending_claims
      BY <2>2, <3>2, <3>3 DEF Vouched, Open, Backed
    <3>4. CASE ours # None /\ ~Beats(ours, c)
      <4>1. pending_claims' = [pending_claims EXCEPT ![n][t] = None]
        BY <2>6, <3>4 DEF HandleAssistClaim, Drop
      <4>2. PICK k \in Node \ {n} :
              pending_claims[k][t] # None /\ Beats(pending_claims[k][t], ours)
        BY <2>2, <3>4, LoserIsBeaten
      <4>3. ASSUME NEW m \in Node, NEW d \in claims'[m], Open(m, d.target)'
            PROVE  Backed(d)'
        <5>1. d \in claims[m] /\ d \in Claim
          BY <3>2, <4>3
        <5>2. d.target \in Target
          BY <5>1 DEF Claim
        <5>3. Open(m, d.target)
          BY <3>1, <3>2, <4>1, <4>3, <5>2 DEF Open
        <5>4. PICK h \in Node :
                /\ pending_claims[h][d.target] # None
                /\ \/ pending_claims[h][d.target] = d
                   \/ Beats(pending_claims[h][d.target], d)
          BY <2>2, <5>1, <5>3 DEF Vouched, Backed
        <5>5. CASE h # n \/ d.target # t
          BY <3>1, <4>1, <5>2, <5>4, <5>5 DEF Backed
        <5>6. CASE h = n /\ d.target = t
          <6>1. ours = d \/ Beats(ours, d)
            BY <5>4, <5>6
          <6>2. ours \in Claim /\ pending_claims[k][t] \in Claim
            BY <3>1, <3>4, <4>2
          <6>3. Beats(pending_claims[k][t], d)
            BY <4>2, <5>1, <6>1, <6>2, BeatsIsTransitive
          <6>4. pending_claims'[k][d.target] = pending_claims[k][t]
            BY <3>1, <4>1, <4>2, <5>6
          <6> QED
            BY <4>2, <6>3, <6>4 DEF Backed
        <5> QED
          BY <5>5, <5>6
      <4> QED
        BY <4>3 DEF Vouched
    <3> QED
      BY <2>6, <3>3, <3>4 DEF HandleAssistClaim
  <2>7. ASSUME NEW n \in Node, NEW c \in waits[n], ExecuteAssist(n, c) PROVE Vouched'
    <3> DEFINE t == c.target
    <3>1. UNCHANGED <<signals, claims, assist_backoff>> /\ Prompt(n, c)
      BY <2>1, <2>7 DEF ExecuteAssist, busVars
    <3>2. CASE ~Stands(n, c)
      <4>1. UNCHANGED pending_claims
        BY <2>7, <3>2 DEF ExecuteAssist
      <4> QED
        BY <2>2, <3>1, <4>1 DEF Vouched, Open, Backed
    <3>3. CASE Stands(n, c)
      <4>1. c \in Claim /\ t \in Target
        BY DEF Claim
      <4>2. pending_claims' = [pending_claims EXCEPT ![n][t] = None]
        BY <2>7, <3>3 DEF ExecuteAssist, Drop
      <4>3. ASSUME NEW m \in Node, NEW d \in claims[m], d.target = t PROVE ~Open(m, t)'
        <5>1. m # n
          BY <3>1, <4>3 DEF Prompt
        <5>2. t \in assist_backoff[m] /\ pending_claims[m][t] = None
          BY <2>2, <3>1, <3>3, <5>1, StandingClaimIsAlone
        <5> QED
          BY <3>1, <4>2, <5>1, <5>2 DEF Open
      <4>4. ASSUME NEW m \in Node, NEW d \in claims[m], d.target # t, Open(m, d.target)'
            PROVE  Backed(d)'
        <5>1. d \in Claim
          BY <4>4
        <5>2. d.target \in Target
          BY <5>1 DEF Claim
        <5>3. \A k \in Node : pending_claims'[k][d.target] = pending_claims[k][d.target]
          BY <4>1, <4>2, <4>4, <5>2
        <5>4. Open(m, d.target)
          BY <3>1, <4>4, <5>3 DEF Open
        <5> QED
          BY <2>2, <4>4, <5>3, <5>4 DEF Vouched, Backed
      <4> QED
        BY <3>1, <4>3, <4>4 DEF Vouched
    <3> QED
      BY <3>2, <3>3
  <2> QED
    BY <2>1, <2>3, <2>4, <2>5, <2>6, <2>7 DEF Next, Contest, LoseMessage, Crash
<1> QED
  BY <1>1, <1>2, TypeCorrect, ElectionInvariant, SignedAlways, PacedAlways, PTL DEF Spec

\* With a single reporter a round never ends without a winner unless the winner is
\* busy, as long as no message, node or timer has misbehaved.
THEOREM ElectionIsWon == Spec => ElectionHasWinner
<1> DEFINE Won(t) ==
             /\ LoneReporter /\ trouble' = 0
             /\ Contenders(t) # {} /\ Contenders(t)' = {}
             => \E n \in Contenders(t) : t \in active_assists'[n] \/ ~HasRoom(n)
<1>1. TypeOK /\ ElectionInv /\ Signed /\ (Undisturbed => Vouched) /\ [Next]_vars
        => [\A t \in Target : Won(t)]_vars
  <2> SUFFICES ASSUME TypeOK, ElectionInv, Signed, Undisturbed => Vouched, [Next]_vars,
                      NEW t \in Target, LoneReporter, trouble' = 0,
                      Contenders(t) # {}, Contenders(t)' = {}
               PROVE  \E n \in Contenders(t) : t \in active_assists'[n] \/ ~HasRoom(n)
    OBVIOUS
  <2> USE DEF TypeOK
  <2>1. ~Fault /\ Undisturbed
    BY TroubleIsFault, BoundAssumption DEF Fault, Undisturbed
  <2>2. PICK h \in Node : pending_claims[h][t] # None /\ pending_claims'[h][t] = None
    BY DEF Contenders
  <2>3. \A k \in Node : pending_claims'[k][t] = None
    BY DEF Contenders
  <2>4. CASE UNCHANGED pending_claims
    BY <2>2, <2>4
  <2>5. ASSUME NEW n \in Node, NEW u \in Target, HandleStruggleSignal(n, u),
               ~UNCHANGED pending_claims
        PROVE  FALSE
    <3>1. PICK c \in Claim : pending_claims' = [pending_claims EXCEPT ![n][u] = c]
      <4> HIDE DEF TypeOK
      <4> QED
        BY <2>1, <2>5, PublishEffect DEF HandleStruggleSignal
    <3> QED
      BY <2>2, <3>1, NoneAssumption
  <2>6. ASSUME NEW n \in Node, NEW c \in claims[n], HandleAssistClaim(n, c),
               ~UNCHANGED pending_claims
        PROVE  FALSE
    <3>1. c.target \in Target
      BY DEF Claim
    <3>2. /\ pending_claims[n][c.target] # None /\ ~Beats(pending_claims[n][c.target], c)
          /\ pending_claims' = [pending_claims EXCEPT ![n][c.target] = None]
      BY <2>6 DEF HandleAssistClaim, Drop
    <3>3. c.target = t
      BY <2>2, <3>1, <3>2
    <3>4. PICK k \in Node \ {n} : pending_claims[k][t] # None
      BY <2>1, <3>2, <3>3, LoserIsBeaten DEF ElectionInv
    <3> QED
      BY <2>3, <3>2, <3>4
  <2>7. ASSUME NEW n \in Node, NEW c \in waits[n], ExecuteAssist(n, c),
               ~UNCHANGED pending_claims
        PROVE  n \in Contenders(t) /\ (t \in active_assists'[n] \/ ~HasRoom(n))
    <3>1. c \in Claim /\ c.target \in Target
      BY DEF Claim
    <3>2. /\ Stands(n, c)
          /\ pending_claims' = [pending_claims EXCEPT ![n][c.target] = None]
      BY <2>7 DEF ExecuteAssist, Drop
    <3>3. c.target = t /\ h = n
      BY <2>2, <3>1, <3>2
    <3>4. t \notin assist_rate[n]
      BY <2>2, <3>3 DEF Signed
    <3>5. HasRoom(n) => t \in active_assists'[n]
      BY <2>7, <3>2, <3>3, <3>4 DEF ExecuteAssist
    <3> QED
      BY <2>2, <3>3, <3>5 DEF Contenders
  <2>8. ASSUME ~UNCHANGED pending_claims
        PROVE  \/ \E n \in Node, u \in Target : HandleStruggleSignal(n, u)
               \/ \E n \in Node : Contest(n)
    BY <2>1, <2>8 DEF Next, vars, claimVars, Report, HealFails, HealSucceeds,
       PeerAnswers, RepairElsewhere, HealCooldownEnds, HandleRepairResult, Assist, RepairEnds, BackoffEnds,
       AssistCooldownEnds, LoseMessage, Crash
  <2> QED
    BY <2>4, <2>5, <2>6, <2>7, <2>8 DEF Contest
<1> QED
  BY <1>1, TypeCorrect, ElectionInvariant, SignedAlways, VouchedAlways, PTL
     DEF Spec, ElectionHasWinner

=============================================================================
