--------------------------- MODULE MCBackpressure ---------------------------
(* The loop of the application and the one of the synchronous wrapper.       *)
EXTENDS Backpressure

CONSTANTS main, sync, s1, s2, s3

TwoLoops == [t \in Submissions |-> IF t = s1 THEN main ELSE sync]

=============================================================================
