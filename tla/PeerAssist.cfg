\* Two rivals with equal or different scores and a third node that only reports;
\* one lost message, crash, failed publication or late delivery.
CONSTANTS
  Node <- ThreeNodes
  Target = {t1}
  Reporter <- NodeThree
  Healthy <- TwoClaimers
  Score = {1, 2}
  Stamp = {0,1}
  ClaimId = {0, 1}
  Threshold = 2
  Cap = 1
  MaxTrouble = 1
  None = None
SPECIFICATION FairSpec
INVARIANTS
  TypeOK
  OneAssisterPerTarget
PROPERTIES
  ElectionHasWinner
  StruggleIsAnswered
