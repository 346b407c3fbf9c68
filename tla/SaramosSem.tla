----------------------------- MODULE SaramosSem -----------------------------
(***************************************************************************)
(* The counting semaphore of src/os/saramos_sem.c on top of the preemptive *)
(* kernel: any task of Users waits and posts, and SysTick_Handler posts    *)
(* too.  saramos_sem_wait() and saramos_sem_post() leave their critical    *)
(* section before they call the kernel, so each is two steps, and a        *)
(* SysTick may fall between them.                                          *)
(***************************************************************************)
EXTENDS SaramosKernel

CONSTANTS
    Users,          \* the tasks that call the semaphore
    BootOrder,      \* the order in which main() adds the tasks
    InitialCount,   \* what saramos_sem_init() is given
    MaxCount        \* bound: nobody posts when this many units are banked

ASSUME UsersAssumption == Users \subseteq Tasks
\* "the scheduler task never blocks at the TCB level" (main.c:2054)
ASSUME IdleAssumption == Users # Tasks
\* main() adds every task, and the table has room for them.
ASSUME BootAssumption ==
    /\ BootOrder \in Seq(Tasks)
    /\ \A t \in Tasks : \E i \in 1 .. Len(BootOrder) : BootOrder[i] = t
    /\ Cardinality(Tasks) <= MaxTasks
ASSUME CountAssumption == InitialCount \in Nat /\ MaxCount \in Nat

VARIABLES
    count,      \* s->count
    waiters,    \* s->waiters[0 .. waiter_count - 1]
    pc,         \* pc[t]: "run" (outside the calls), "toBlock" (registered, the
                \* critical section left), "asleep" (in block_current) or
                \* "posting" (a waiter popped, not yet unblocked)
    woken       \* woken[t]: the local variable of a saramos_sem_post() of t

semVars == <<count, waiters, pc, woken>>
-----------------------------------------------------------------------------
\* Mutant: pop_highest_waiter() compares with >=, the last of the highest wins.
BestWaiterLast(w) ==
    Max({i \in 1 .. Len(w) : \A j \in 1 .. Len(w) : prio[w[j]] <= prio[w[i]]})

\* The index pop_highest_waiter() settles on: the first of the highest.
BestWaiter(w) ==
    Min({i \in 1 .. Len(w) : \A j \in 1 .. Len(w) : prio[w[j]] <= prio[w[i]]})

\* The last waiter takes the place of the one removed.
SwapOut(w, i) == SubSeq([w EXCEPT ![i] = w[Len(w)]], 1, Len(w) - 1)

SemInit ==
    /\ Booted(BootOrder)
    /\ count = InitialCount /\ waiters = <<>>
    /\ pc = [t \in Tasks |-> "run"]
    /\ woken = [t \in Tasks |-> NULL]

Calls(where) == InTask /\ currentTcb \in Users /\ pc[currentTcb] = where
Goto(where)  == pc' = [pc EXCEPT ![currentTcb] = where]

\* saramos_sem_wait() or saramos_sem_trywait() with a unit at hand; a trywait
\* without one changes nothing.
WaitTake ==
    /\ Calls("run")
    /\ count > 0
    /\ count' = count - 1
    /\ UNCHANGED <<vars, waiters, pc, woken>>

\* saramos_sem_wait() without one, up to its irq_restore ...
WaitRegister ==
    /\ Calls("run")
    /\ count = 0
    /\ waiters' = IF Len(waiters) < MaxTasks THEN Append(waiters, currentTcb) ELSE waiters
    /\ Goto("toBlock")
    /\ UNCHANGED <<vars, count, woken>>

\* ... its call of saramos_task_block_current() ...
WaitBlock ==
    /\ Calls("toBlock")
    /\ BlockCurrentOp(currentTcb)
    /\ Goto("asleep")
    /\ UNCHANGED <<ctx, addResult, table, cpuVars, count, waiters, woken>>

\* Mutant: the unit that was handed over is taken off the count as well.
WaitReturnTakes ==
    /\ Calls("asleep")
    /\ count' = IF count > 0 THEN count - 1 ELSE count
    /\ Goto("run")
    /\ UNCHANGED <<vars, waiters, woken>>

\* ... and its return, once the caller executes again.
WaitReturn ==
    /\ Calls("asleep")
    /\ Goto("run")
    /\ UNCHANGED <<vars, count, waiters, woken>>

\* saramos_sem_post() with nobody waiting
Bank ==
    /\ waiters = <<>> /\ count < MaxCount
    /\ count' = count + 1
    /\ UNCHANGED waiters

\* Mutant: the unit handed to a waiter is banked too.
PopAndBank(w) ==
    /\ waiters # <<>>
    /\ w = waiters[BestWaiter(waiters)]
    /\ waiters' = SwapOut(waiters, BestWaiter(waiters))
    /\ count' = IF count < MaxCount THEN count + 1 ELSE count

\* saramos_sem_post() takes waiter w out
Pop(w) ==
    /\ waiters # <<>>
    /\ w = waiters[BestWaiter(waiters)]
    /\ waiters' = SwapOut(waiters, BestWaiter(waiters))
    /\ UNCHANGED count

PostBank ==
    /\ Calls("run")
    /\ Bank
    /\ UNCHANGED <<vars, pc, woken>>

PostPop(w) ==
    /\ Calls("run")
    /\ Pop(w)
    /\ woken' = [woken EXCEPT ![currentTcb] = w]
    /\ Goto("posting")
    /\ UNCHANGED vars

\* ... and unblocks it after the irq_restore.
PostUnblock ==
    /\ Calls("posting")
    /\ UnblockOp(woken[currentTcb])
    /\ woken' = [woken EXCEPT ![currentTcb] = NULL]
    /\ Goto("run")
    /\ UNCHANGED <<ctx, addResult, table, cpuVars, count, waiters>>

\* The rest of SysTick_Handler in a tick that posts: nothing interrupts it.
IsrPost ==
    /\ InIsr
    /\ \/ Bank /\ UNCHANGED kernelVars
       \/ \E w \in Tasks : Pop(w) /\ UnblockOp(w)
    /\ mode' = "thread"
    /\ UNCHANGED <<ctx, addResult, table, currentTcb, cpu, starting, pc, woken>>

KernelStep == (Tick \/ IsrReturn \/ PendSV) /\ UNCHANGED semVars
UserYield  == pc[currentTcb] = "run" /\ Yield /\ UNCHANGED semVars

SemNext ==
    \/ WaitTake \/ WaitRegister \/ WaitBlock \/ WaitReturn
    \/ PostBank \/ (\E w \in Tasks : PostPop(w)) \/ PostUnblock
    \/ IsrPost
    \/ KernelStep
    \/ UserYield

semAll == <<vars, semVars>>

SemSpec == SemInit /\ [][SemNext]_semAll
-----------------------------------------------------------------------------
(***************************************************************************)
(* Properties.                                                             *)
(***************************************************************************)
SemTypeOK ==
    /\ TypeOK
    /\ count \in 0 .. Max({MaxCount, InitialCount})
    /\ waiters \in Seq(Users)
    /\ pc \in [Tasks -> {"run", "toBlock", "asleep", "posting"}]
    /\ woken \in [Tasks -> Users \cup {NULL}]

Waiting == ToSet(waiters)
InWait  == {t \in Users : pc[t] \in {"toBlock", "asleep"}}

\* No unit is banked while somebody waits for one, whatever order waits,
\* posts and interrupts come in.
NoIdleUnits == count > 0 => waiters = <<>>

\* A unit is neither lost nor made: the module implements a semaphore whose
\* post banks a unit or grants it to one waiter, who alone returns with it.
Abstract == INSTANCE Semaphore WITH
    Procs <- Users, units <- count, waiting <- Waiting, granted <- InWait \ Waiting
ImplementsSemaphore == Abstract!Spec

\* Every step of the composed system is a step the kernel's own specification
\* allows, so what is proved of the kernel holds here.
OnlyKernelSteps == [][Next]_vars

\* A waiter is "Woken by saramos_sem_post() handing this task the unit"
\* (saramos_sem.c:72): who sleeps in a wait is still registered, or a post is
\* about to unblock it.
SleepersAreWoken ==
    \A t \in Users : pc[t] = "asleep" /\ state[t] = "BLOCKED" =>
        t \in Waiting \/ \E u \in Users : woken[u] = t

\* Fairness: pending PendSVs are taken; SysTick, which stays pending in the
\* interrupt controller while a PendSV holds it off, is taken and returns; and
\* out of endlessly many ticks endlessly many post (one in 1000 does).
SemFairSpec ==
    /\ SemSpec
    /\ SF_semAll(Tick /\ UNCHANGED semVars)
    /\ WF_semAll(PendSV /\ UNCHANGED semVars)
    /\ WF_semAll(InIsr /\ SemNext)
    /\ SF_semAll(IsrPost)

\* Of two users at the highest priority neither waits for ever: each is popped,
\* although the place of a popped waiter is refilled from the end. (A user below them
\* may wait for ever, as the code means it to.)
Served ==
    \A t \in Users : (\A u \in Users : BasePrio[u] <= BasePrio[t])
        => (t \in Waiting ~> t \notin Waiting)
=============================================================================
