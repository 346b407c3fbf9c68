---------------------------- MODULE SaramosMutex ----------------------------
(***************************************************************************)
(* The priority-inheritance mutexes of src/os/saramos_mutex.c on top of    *)
(* the preemptive kernel.  lock and unlock leave their critical section    *)
(* before they call saramos_task_block_current() and                       *)
(* saramos_task_unblock(): each is two steps and a SysTick may fall in     *)
(* between.                                                                *)
(***************************************************************************)
EXTENDS SaramosKernel

CONSTANTS
    Mutexes,        \* the saramos_mutex_t objects
    Users,          \* the tasks that lock and unlock them
    Sleepers,       \* the users that also sleep outside of the mutex calls
    BootOrder       \* the order in which main() adds the tasks

ASSUME UsersAssumption == Users \subseteq Tasks /\ Sleepers \subseteq Users
\* "the scheduler task never blocks at the TCB level" (main.c:2054)
ASSUME IdleAssumption == Users # Tasks
\* main() adds every task, and the table has room for them.
ASSUME BootAssumption ==
    /\ BootOrder \in Seq(Tasks)
    /\ \A t \in Tasks : \E i \in 1 .. Len(BootOrder) : BootOrder[i] = t
    /\ Cardinality(Tasks) <= MaxTasks

VARIABLES
    owner,      \* m->owner
    base,       \* m->owner_base_priority
    boosted,    \* m->boosted
    waiters,    \* m->waiters[0 .. waiter_count - 1]
    pc,         \* pc[t]: "run" (outside the calls), "toBlock" (registered, the
                \* critical section left), "asleep" (in block_current),
                \* "handing" (ownership passed on, the new owner not yet
                \* unblocked) or "sleeping" (asleep for another reason)
    arg,        \* arg[t]: the mutex of t's call
    nextOwner,  \* nextOwner[t]: the local variable of an unlock by t
    holding     \* holding[t]: the mutexes whose lock returned to t, and which t
                \* has not released since

mutexVars == <<owner, base, boosted, waiters, pc, arg, nextOwner, holding>>
-----------------------------------------------------------------------------
\* highest_waiter(): the first of the highest under the priorities pr
HighestWaiter(w, pr) ==
    IF w = <<>> THEN NULL
    ELSE w[Min({i \in 1 .. Len(w) : \A j \in 1 .. Len(w) : pr[w[j]] <= pr[w[i]]})]

\* waiter_remove(): the last waiter takes the place of t
WaiterRemove(w, t) ==
    LET i == Min({k \in 1 .. Len(w) : w[k] = t})
    IN  SubSeq([w EXCEPT ![i] = w[Len(w)]], 1, Len(w) - 1)

\* Mutants of reinherit(): no inheritance at all; no further raise of a boosted
\* owner; the base priority overwritten by a second raise; the priority raised
\* by assignment, the ready list left as it was.
ReinheritedNever(m, o, w, b, pr, q) ==
    [base |-> base[m], boosted |-> b, prio |-> pr, ready |-> q]
ReinheritedOnce(m, o, w, b, pr, q) ==
    LET top   == HighestWaiter(w, pr)
        raise == o # NULL /\ top # NULL /\ pr[top] > pr[o] /\ ~b
    IN  [base    |-> IF raise THEN pr[o] ELSE base[m],
         boosted |-> b \/ raise,
         prio    |-> IF raise THEN [pr EXCEPT ![o] = pr[top]] ELSE pr,
         ready   |-> IF raise THEN Repositioned(q, pr, o, pr[top]) ELSE q]

\* reinherit() of mutex m, with owner o, waiters w and boosted flag b, when the
\* priorities are pr and the ready list is q: the base priority, boosted flag,
\* priorities and list it leaves.
Reinherited(m, o, w, b, pr, q) ==
    LET top   == HighestWaiter(w, pr)
        raise == o # NULL /\ top # NULL /\ pr[top] > pr[o]
    IN  [base    |-> IF raise /\ ~b THEN pr[o] ELSE base[m],
         boosted |-> b \/ raise,
         prio    |-> IF raise THEN [pr EXCEPT ![o] = pr[top]] ELSE pr,
         ready   |-> IF raise THEN Repositioned(q, pr, o, pr[top]) ELSE q]

Inherit(m, r) ==
    /\ base' = [base EXCEPT ![m] = r.base]
    /\ boosted' = [boosted EXCEPT ![m] = r.boosted]
    /\ prio' = r.prio
    /\ ready' = r.ready
    /\ UNCHANGED <<state, nextTcb, pendsv, ctx, addResult, table, cpuVars>>

MutexInit ==
    /\ Booted(BootOrder)
    /\ owner = [m \in Mutexes |-> NULL]
    /\ base = [m \in Mutexes |-> 0]
    /\ boosted = [m \in Mutexes |-> FALSE]
    /\ waiters = [m \in Mutexes |-> <<>>]
    /\ pc = [t \in Tasks |-> "run"]
    /\ arg = [t \in Tasks |-> NULL]
    /\ nextOwner = [t \in Tasks |-> NULL]
    /\ holding = [t \in Tasks |-> {}]

Calls(where) == InTask /\ currentTcb \in Users /\ pc[currentTcb] = where
Goto(where)  == pc' = [pc EXCEPT ![currentTcb] = where]

\* saramos_mutex_lock() or saramos_mutex_trylock() of a free mutex; a trylock
\* of a locked one changes nothing.
LockFree(m) ==
    /\ Calls("run")
    /\ owner[m] = NULL
    /\ owner' = [owner EXCEPT ![m] = currentTcb]
    /\ boosted' = [boosted EXCEPT ![m] = FALSE]
    /\ holding' = [holding EXCEPT ![currentTcb] = @ \cup {m}]
    /\ UNCHANGED <<vars, base, waiters, pc, arg, nextOwner>>

\* saramos_mutex_lock() of a locked one, which may be the caller's own (it then waits
\* for itself, for ever), up to its irq_restore ...
LockRegister(m) ==
    /\ Calls("run")
    /\ owner[m] # NULL
    /\ LET w == IF Len(waiters[m]) < MaxTasks
                THEN Append(waiters[m], currentTcb) ELSE waiters[m]
       IN  /\ waiters' = [waiters EXCEPT ![m] = w]
           /\ Inherit(m, Reinherited(m, owner[m], w, boosted[m], prio, ready))
    /\ arg' = [arg EXCEPT ![currentTcb] = m]
    /\ Goto("toBlock")
    /\ UNCHANGED <<owner, nextOwner, holding>>

\* Mutant: the locker does not block.
LockNoBlock ==
    /\ Calls("toBlock")
    /\ Goto("asleep")
    /\ UNCHANGED <<vars, owner, base, boosted, waiters, arg, nextOwner, holding>>

\* ... its call of saramos_task_block_current() ...
LockBlock ==
    /\ Calls("toBlock")
    /\ BlockCurrentOp(currentTcb)
    /\ Goto("asleep")
    /\ UNCHANGED <<ctx, addResult, table, cpuVars,
                   owner, base, boosted, waiters, arg, nextOwner, holding>>

\* ... and its return, once the caller executes again.
LockReturn ==
    /\ Calls("asleep")
    /\ holding' = [holding EXCEPT ![currentTcb] = @ \cup {arg[currentTcb]}]
    /\ arg' = [arg EXCEPT ![currentTcb] = NULL]
    /\ Goto("run")
    /\ UNCHANGED <<vars, owner, base, boosted, waiters, nextOwner>>

\* saramos_mutex_unlock() up to its irq_restore: the releasing owner's base
\* priority comes back, and the highest waiter, if any, becomes the owner and
\* inherits from those still waiting.
Unlock(m) ==
    /\ Calls("run")
    /\ m \in holding[currentTcb]
    /\ LET restore == owner[m] # NULL /\ boosted[m]
           pr == IF restore THEN [prio EXCEPT ![owner[m]] = base[m]] ELSE prio
           q  == IF restore THEN Repositioned(ready, prio, owner[m], base[m]) ELSE ready
           n  == HighestWaiter(waiters[m], pr)
           w  == IF n = NULL THEN <<>> ELSE WaiterRemove(waiters[m], n)
       IN  /\ owner' = [owner EXCEPT ![m] = n]
           /\ waiters' = [waiters EXCEPT ![m] = w]
           /\ nextOwner' = [nextOwner EXCEPT ![currentTcb] = n]
           /\ pc' = IF n = NULL THEN pc ELSE [pc EXCEPT ![currentTcb] = "handing"]
           /\ Inherit(m, Reinherited(m, n, w, boosted[m] /\ ~restore, pr, q))
    /\ holding' = [holding EXCEPT ![currentTcb] = @ \ {m}]
    /\ UNCHANGED arg

\* ... and its call of saramos_task_unblock().
UnlockHandOver ==
    /\ Calls("handing")
    /\ UnblockOp(nextOwner[currentTcb])
    /\ nextOwner' = [nextOwner EXCEPT ![currentTcb] = NULL]
    /\ Goto("run")
    /\ UNCHANGED <<ctx, addResult, table, cpuVars,
                   owner, base, boosted, waiters, arg, holding>>

\* A user sleeps on something else, say a semaphore, and an interrupt wakes it.
Sleep ==
    /\ Calls("run") /\ currentTcb \in Sleepers
    /\ BlockCurrentOp(currentTcb)
    /\ Goto("sleeping")
    /\ UNCHANGED <<ctx, addResult, table, cpuVars,
                   owner, base, boosted, waiters, arg, nextOwner, holding>>

SleepReturn ==
    /\ Calls("sleeping")
    /\ Goto("run")
    /\ UNCHANGED <<vars, owner, base, boosted, waiters, arg, nextOwner, holding>>

WakeSleeper(t) == pc[t] = "sleeping" /\ IsrUnblock(t) /\ UNCHANGED mutexVars
KernelStep     == (Tick \/ IsrReturn \/ PendSV) /\ UNCHANGED mutexVars

MutexNext ==
    \/ \E m \in Mutexes : LockFree(m) \/ LockRegister(m) \/ Unlock(m)
    \/ LockBlock \/ LockReturn \/ UnlockHandOver
    \/ Sleep \/ SleepReturn
    \/ \E t \in Sleepers : WakeSleeper(t)
    \/ KernelStep

mutexAll == <<vars, mutexVars>>

MutexSpec == MutexInit /\ [][MutexNext]_mutexAll
-----------------------------------------------------------------------------
(***************************************************************************)
(* Properties.                                                             *)
(***************************************************************************)
MutexTypeOK ==
    /\ TypeOK
    /\ owner \in [Mutexes -> Users \cup {NULL}]
    /\ base \in [Mutexes -> Nat]
    /\ boosted \in [Mutexes -> BOOLEAN]
    /\ waiters \in [Mutexes -> Seq(Users)]
    /\ pc \in [Tasks -> {"run", "toBlock", "asleep", "handing", "sleeping"}]
    /\ arg \in [Tasks -> Mutexes \cup {NULL}]
    /\ nextOwner \in [Tasks -> Users \cup {NULL}]
    /\ holding \in [Tasks -> SUBSET Mutexes]

\* A task to which lock returned owns the mutex until it releases it: the
\* ownership an unlock hands over cannot be taken by anybody else before the
\* new owner runs.
HoldersOwn == \A t \in Users : \A m \in holding[t] : owner[m] = t

\* Inheritance: with one mutex its owner is never below a task that waits.
OwnersBoosted ==
    \A m \in Mutexes : owner[m] # NULL =>
        \A t \in ToSet(waiters[m]) : prio[t] <= prio[owner[m]]

\* "A still-held mutex must keep boosting its owner for as long as a
\* higher-priority task is waiting on it" (saramos_mutex.c:62): an owner that is
\* at a waiter's priority stays there while it owns and the other waits.
KeepsBoosting ==
    [][ \A m \in Mutexes : \A t \in ToSet(waiters[m]) \cap ToSet(waiters'[m]) :
          owner'[m] = owner[m] /\ prio'[t] = prio[t] /\ prio[t] <= prio[owner[m]]
            => prio'[t] <= prio'[owner[m]] ]_mutexAll

\* "The owner's original priority is restored the moment it releases the
\* mutex" (saramos_mutex.h:22): only an owner runs above its own priority.
BaseRestored ==
    \A t \in Users : prio[t] # BasePrio[t] => \E m \in Mutexes : owner[m] = t

\* Both at once: an owner runs at its most urgent waiter's priority for as long as
\* anyone waits, however locks, timeouts and wakes interleave, and no boost outlives
\* the unlock that ends it, with every variable of its type.
PrioritiesRight == MutexTypeOK /\ OwnersBoosted /\ BaseRestored

\* The fix for unbounded priority inversion: while a task sleeps on a mutex
\* whose owner is ready to run, no task below the sleeper is switched to.
NoInversion ==
    [][ ~pendsv /\ pendsv' =>
          \A m \in Mutexes : \A t \in ToSet(waiters'[m]) :
              state'[owner'[m]] = "READY" => prio'[t] <= prio'[nextTcb'] ]_mutexAll

\* A locker "only returns once saramos_mutex_unlock() has handed this task the
\* mutex" (saramos_mutex.c:112), and it does return: who sleeps in a lock is
\* still registered, or an unlock is about to unblock it.
SleepersAreWoken ==
    \A t \in Users : pc[t] = "asleep" /\ state[t] = "BLOCKED" =>
        \/ t \in ToSet(waiters[arg[t]])
        \/ \E u \in Users : nextOwner[u] = t
=============================================================================
