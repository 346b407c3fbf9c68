--------------------------- MODULE MCSaramosMutex ---------------------------
(* Instances of the mutexes for TLC: t1 is the task that never sleeps; t2,  *)
(* t3 and t4 have rising priorities.                                        *)
EXTENDS SaramosMutex

CONSTANTS t1, t2, t3, t4, m1, m2

MCTasks == {t1, t2, t3, t4}
MCTaskId == t1 :> 0 @@ t2 :> 1 @@ t3 :> 2 @@ t4 :> 3
MCOrder == <<t1, t2, t3, t4>>
MCBasePrio == t1 :> 1 @@ t2 :> 1 @@ t3 :> 2 @@ t4 :> 3
=============================================================================
