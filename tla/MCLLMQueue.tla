----------------------------- MODULE MCLLMQueue -----------------------------
(* At most one request of AARON and one of ATLAS, several of BACKGROUND; one *)
(* permit for each priority.                                                 *)
EXTENDS LLMQueue, TLC

CONSTANTS aaron, atlas

Prio ==
  [r \in Requests |-> CASE r = aaron -> Aaron [] r = atlas -> Atlas
                      [] OTHER -> Background]

OnePermitEach == [p \in Priority |-> 1]

=============================================================================
