---------------------------- MODULE MCThreadPool ----------------------------
(* The instances of ThreadPool that TLC checks.                            *)
EXTENDS ThreadPool, TLC

CONSTANTS c1, c2, t1, t2, t3

(* t1 and t2 have the same priority value, t3 a better one.                *)
MCPriority == (t1 :> 2 @@ t2 :> 2 @@ t3 :> 0)
=============================================================================
