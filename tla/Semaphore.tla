----------------------------- MODULE Semaphore -----------------------------
(***************************************************************************)
(* What saramos_sem_t promises (include/os/saramos_sem.h): a post banks a  *)
(* unit, or hands it to one waiting process; only a process that was       *)
(* handed a unit returns from its wait.                                    *)
(***************************************************************************)
EXTENDS Naturals

CONSTANTS Procs, InitialCount

VARIABLES
    units,      \* the banked units
    waiting,    \* the processes a unit is still owed to
    granted     \* the processes that have one and are yet to return

Init == units = InitialCount /\ waiting = {} /\ granted = {}

Take ==
    /\ units > 0 /\ waiting = {}
    /\ units' = units - 1
    /\ UNCHANGED <<waiting, granted>>

Join(p) ==
    /\ units = 0
    /\ p \notin waiting \cup granted
    /\ waiting' = waiting \cup {p}
    /\ UNCHANGED <<units, granted>>

Bank ==
    /\ waiting = {}
    /\ units' = units + 1
    /\ UNCHANGED <<waiting, granted>>

Grant(p) ==
    /\ p \in waiting
    /\ waiting' = waiting \ {p}
    /\ granted' = granted \cup {p}
    /\ UNCHANGED units

Return(p) ==
    /\ p \in granted
    /\ granted' = granted \ {p}
    /\ UNCHANGED <<units, waiting>>

Next ==
    \/ Take
    \/ Bank
    \/ \E p \in Procs : Join(p) \/ Grant(p) \/ Return(p)

Spec == Init /\ [][Next]_<<units, waiting, granted>>
=============================================================================
