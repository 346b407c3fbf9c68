-------------------------- MODULE MCSaramosKernel --------------------------
(* Instances of the kernel for TLC. *)
EXTENDS SaramosKernel

CONSTANTS t1, t2, t3, t4

MCTasks == {t1, t2, t3, t4}

\* Distinct ids; four tasks, three of them of one priority.
MCTaskId == t1 :> 0 @@ t2 :> 1 @@ t3 :> 2 @@ t4 :> 3
MCBasePrio == t1 :> 1 @@ t2 :> 1 @@ t3 :> 2 @@ t4 :> 1

\* Every task at the priority main() gives all of its tasks.
MCEqualPrio == [t \in MCTasks |-> 100]

=============================================================================
