---------------------------- MODULE MachineMode -----------------------------
(***************************************************************************)
(* What the coordinator of the schedulers and the pipeline that switches   *)
(* the mode have in common: the two modes of the machine and the Redis     *)
(* that both write to, which answers or does not.  Crashes, outages and    *)
(* commands are "trouble"; MaxTrouble bounds it.                           *)
(***************************************************************************)
EXTENDS Naturals

CONSTANT MaxTrouble   \* bound on crashes, outages and commands

ASSUME TroubleAssumption == MaxTrouble \in Nat

VARIABLES
  redis_up,  \* Redis answers
  trouble    \* crashes, outages and commands so far

Mode == {"lite", "heavy"}

Trouble == trouble < MaxTrouble /\ trouble' = trouble + 1

=============================================================================
