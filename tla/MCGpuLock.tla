----------------------------- MODULE MCGpuLock ------------------------------
(* Two processes, one of them with two worker threads, and three with one each. *)
EXTENDS GpuLock, TLC

CONSTANTS p1, p2, p3, t1, t2, t3

ThreeProcesses == t1 :> p1 @@ t2 :> p2 @@ t3 :> p3
TwoWorkers     == t1 :> p1 @@ t2 :> p1 @@ t3 :> p2

=============================================================================
