--------------------------- MODULE MCThreadPool ---------------------------
(***************************************************************************)
(* Two workers and three operations, two of them of the same job.          *)
(***************************************************************************)
EXTENDS ThreadPool, TLC

CONSTANTS w1, w2, t1, t2, t3

MCWorkers  == {w1, w2}
MCTasks    == {t1, t2, t3}
MCPriority == t1 :> 1 @@ t2 :> 1 @@ t3 :> 2
=============================================================================
