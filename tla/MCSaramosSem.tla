---------------------------- MODULE MCSaramosSem ----------------------------
(* Instances of the semaphore for TLC: t1 is the task that never sleeps, as *)
(* the cooperative scheduler's task in main().                              *)
EXTENDS SaramosSem

CONSTANTS t1, t2, t3, t4

\* Three users, two of them above the third.
MCTasks == {t1, t2, t3, t4}
MCTaskId == t1 :> 0 @@ t2 :> 1 @@ t3 :> 2 @@ t4 :> 3
MCOrder == <<t1, t2, t3, t4>>
MCBasePrio == t1 :> 1 @@ t2 :> 2 @@ t3 :> 2 @@ t4 :> 1

\* Two users of main()'s one priority.
MCFew == {t1, t2, t3}
MCFewId == t1 :> 0 @@ t2 :> 1 @@ t3 :> 2
MCFewOrder == <<t1, t2, t3>>
MCFewPrio == [t \in MCFew |-> 100]
=============================================================================
