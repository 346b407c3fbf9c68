--------------------------- MODULE SaramosKernel ---------------------------
(***************************************************************************)
(* The preemptive kernel: src/os/saramos_kernel.c, the exception handlers  *)
(* of src/os/saramos_context.S, and the SysTick handler that drives them.  *)
(*                                                                         *)
(* Every kernel call disables interrupts (PRIMASK) for its whole body, so  *)
(* a call is one atomic step.  Between two calls of the running task a     *)
(* SysTick may be taken.  No exception priority is ever programmed, so     *)
(* PendSV (exception 14) and SysTick (15) share one priority: neither      *)
(* preempts the other, and when both are pending PendSV is taken first.    *)
(* Hence no thread code and no SysTick runs while PendSV is pending in     *)
(* thread mode.                                                            *)
(*                                                                         *)
(* Operators that end in "Op" are the bodies of the kernel calls; they     *)
(* constrain the kernel data only (kernelVars), so that the modules of the *)
(* synchronisation primitives can call them.  The actions add who calls.   *)
(***************************************************************************)
EXTENDS Integers, Sequences, FiniteSets, SequencesExt

CONSTANTS
    Tasks,              \* the saramos_tcb_t objects of the image
    NULL,               \* the null pointer
    Boot,               \* main()'s own context, on the main stack
    TaskId,             \* TaskId[t]: the task_id saramos_task_init() is given
    BasePrio,           \* BasePrio[t]: the priority it is given
    PrioArgs,           \* the values callers pass to saramos_task_set_priority()
    MaxTasks,           \* SARAMOS_MAX_TASKS
    TickInStartWindow   \* whether a SysTick may fall between kernel_start()'s
                        \* irq_restore and saramos_start_tcb() setting PSP

ASSUME ContextsAssumption ==
    NULL \notin Tasks /\ Boot \notin Tasks /\ Boot # NULL
ASSUME PriorityAssumption == BasePrio \in [Tasks -> Nat] /\ PrioArgs \subseteq Nat
ASSUME TableAssumption == IsFiniteSet(Tasks) /\ MaxTasks \in Nat

VARIABLES
    state,      \* tcb->state
    prio,       \* tcb->priority
    ctx,        \* ctx[t]: whose registers t's saved sp points at, NULL: no stack
    addResult,  \* what saramos_task_add() returned to its caller
    table,      \* the TCBs in task_table[0 .. task_table_count - 1]
    ready,      \* the ready list, from ready_head along next_ready
    currentTcb, \* saramos_current_tcb
    nextTcb,    \* saramos_next_tcb
    pendsv,     \* PendSV is pending
    cpu,        \* the context whose thread code the processor executes
    mode,       \* "boot", "thread", "isr" (in SysTick_Handler) or "halt" (wfi)
    starting    \* the argument of a saramos_start_tcb() still under way

taskVars   == <<state, prio, ctx, addResult, table>>
kernelVars == <<state, prio, ready, nextTcb, pendsv>>
cpuVars    == <<currentTcb, cpu, mode, starting>>
vars == <<state, prio, ctx, addResult, table, ready, currentTcb, nextTcb,
          pendsv, cpu, mode, starting>>

States == {"UNUSED", "READY", "RUNNING", "BLOCKED", "KILLED", "FAULTED"}
Dead   == {"KILLED", "FAULTED"}
-----------------------------------------------------------------------------
(***************************************************************************)
(* The ready list.                                                         *)
(***************************************************************************)

\* Mutant: it always appends.
InsertPosAtTail(q, pr, t) == Len(q) + 1

\* ready_insert_locked() walks past every element whose priority is at least
\* the task's own, so equals stay in FIFO order.
InsertPos(q, pr, t) ==
    Min({i \in 1 .. Len(q) + 1 : i = Len(q) + 1 \/ pr[q[i]] < pr[t]})

ReadyInsert(q, pr, t) ==
    IF Contains(q, t) THEN q ELSE InsertAt(q, InsertPos(q, pr, t), t)

ReadyRemove(q, t) == RemoveFirst(q, t)

\* The first task of the list that is READY, or NULL.
PickNext(q, st) ==
    LET eligible == {i \in 1 .. Len(q) : st[q[i]] = "READY"}
    IN  IF eligible = {} THEN NULL ELSE q[Min(eligible)]
-----------------------------------------------------------------------------
(***************************************************************************)
(* The bodies of the kernel calls.                                         *)
(***************************************************************************)

\* Mutant: the next task is not taken off the list.
SwitchOpListed(q, st) ==
    LET n == PickNext(q, st)
    IN  /\ prio' = prio /\ ready' = q
        /\ IF n = NULL THEN state' = st /\ UNCHANGED <<nextTcb, pendsv>>
           ELSE state' = [st EXCEPT ![n] = "RUNNING"] /\ nextTcb' = n /\ pendsv' = TRUE

\* The common tail of saramos_schedule() and saramos_task_block_current():
\* take the next task off the list, make it RUNNING and pend PendSV.
SwitchOp(q, st) ==
    LET n == PickNext(q, st)
    IN  /\ prio' = prio
        /\ IF n = NULL
           THEN state' = st /\ ready' = q /\ UNCHANGED <<nextTcb, pendsv>>
           ELSE /\ state' = [st EXCEPT ![n] = "RUNNING"]
                /\ ready' = ReadyRemove(q, n)
                /\ nextTcb' = n
                /\ pendsv' = TRUE

\* saramos_schedule() on behalf of the current task c (NULL: none)
ScheduleOp(c) ==
    IF c # NULL /\ state[c] = "RUNNING"
    THEN SwitchOp(ReadyInsert(ready, prio, c), [state EXCEPT ![c] = "READY"])
    ELSE SwitchOp(ready, state)

\* saramos_task_block_current().  When nothing else is ready PendSV stays
\* clear and the caller goes on executing although its state is BLOCKED.
BlockCurrentOp(c) ==
    IF c # NULL
    THEN SwitchOp(ReadyRemove(ready, c), [state EXCEPT ![c] = "BLOCKED"])
    ELSE SwitchOp(ready, state)

\* saramos_task_unblock()
UnblockOp(t) ==
    /\ IF state[t] = "BLOCKED"
       THEN /\ state' = [state EXCEPT ![t] = "READY"]
            /\ ready' = ReadyInsert(ready, prio, t)
       ELSE UNCHANGED <<state, ready>>
    /\ UNCHANGED <<prio, nextTcb, pendsv>>

\* The list after saramos_task_set_priority(): a listed task is taken off
\* and inserted again at its new priority, behind its equals.
Repositioned(q, pr, t, p) ==
    IF Contains(q, t)
    THEN ReadyInsert(ReadyRemove(q, t), [pr EXCEPT ![t] = p], t)
    ELSE q

SetPriorityOp(t, p) ==
    /\ prio' = [prio EXCEPT ![t] = p]
    /\ ready' = Repositioned(ready, prio, t, p)
    /\ UNCHANGED <<state, nextTcb, pendsv>>
-----------------------------------------------------------------------------
(***************************************************************************)
(* Who executes.                                                           *)
(***************************************************************************)

InBoot == mode = "boot"
InTask == mode = "thread" /\ ~pendsv /\ cpu \in Tasks
InIsr  == mode = "isr"

Init ==
    /\ state = [t \in Tasks |-> "UNUSED"]
    /\ prio = [t \in Tasks |-> 0]
    /\ ctx = [t \in Tasks |-> NULL]
    /\ addResult = [t \in Tasks |-> "none"]
    /\ table = {}
    /\ ready = <<>>
    /\ currentTcb = NULL /\ nextTcb = NULL /\ pendsv = FALSE
    /\ cpu = Boot /\ mode = "boot" /\ starting = NULL

\* The ready list when main() has added the tasks of the sequence order.
BootList(order) ==
    LET added[n \in 0 .. Len(order)] ==
          IF n = 0 THEN <<>> ELSE ReadyInsert(added[n - 1], BasePrio, order[n])
    IN  added[Len(order)]

\* The state main() hands over when saramos_kernel_start() has started the first
\* of them: where the modules of the synchronisation primitives begin.
Booted(order) ==
    LET q == BootList(order)
    IN  /\ state = [t \in Tasks |-> IF t = Head(q) THEN "RUNNING" ELSE "READY"]
        /\ prio = BasePrio
        /\ ctx = [t \in Tasks |-> t]
        /\ addResult = [t \in Tasks |-> "ok"]
        /\ table = Tasks
        /\ ready = Tail(q)
        /\ currentTcb = Head(q) /\ nextTcb = Head(q) /\ pendsv = FALSE
        /\ cpu = Head(q) /\ mode = "thread" /\ starting = NULL

\* saramos_task_init(): every TCB of the image is a static object that one
\* caller initialises once.
TaskInit(t) ==
    /\ InBoot \/ InTask
    /\ state[t] = "UNUSED"
    /\ state' = [state EXCEPT ![t] = "READY"]
    /\ prio' = [prio EXCEPT ![t] = BasePrio[t]]
    /\ ctx' = [ctx EXCEPT ![t] = t]
    /\ UNCHANGED <<addResult, table, ready, nextTcb, pendsv, cpuVars>>

\* saramos_task_find()
IdInUse(id) == \E u \in table : TaskId[u] = id

\* saramos_task_add(), called right after saramos_task_init().  Every caller
\* in the repository ignores the result.
TaskAdd(t) ==
    /\ InBoot \/ InTask
    /\ state[t] # "UNUSED" /\ addResult[t] = "none"
    /\ IF Cardinality(table) >= MaxTasks \/ IdInUse(TaskId[t])
       THEN /\ addResult' = [addResult EXCEPT ![t] = "failed"]
            /\ UNCHANGED <<state, table, ready>>
       ELSE /\ addResult' = [addResult EXCEPT ![t] = "ok"]
            /\ table' = table \cup {t}
            /\ state' = [state EXCEPT ![t] = "READY"]
            /\ ready' = ReadyInsert(ready, prio, t)
    /\ UNCHANGED <<prio, ctx, nextTcb, pendsv, cpuVars>>

\* saramos_kernel_start() up to its irq_restore
KernelStart ==
    /\ InBoot
    /\ LET n == PickNext(ready, state)
       IN  IF n = NULL
           THEN /\ mode' = "halt"
                /\ UNCHANGED <<state, ready, currentTcb, nextTcb, starting>>
           ELSE /\ state' = [state EXCEPT ![n] = "RUNNING"]
                /\ ready' = ReadyRemove(ready, n)
                /\ currentTcb' = n /\ nextTcb' = n /\ starting' = n
                /\ mode' = "thread"
    /\ UNCHANGED <<prio, ctx, addResult, table, pendsv, cpu>>

\* saramos_start_tcb(): loads the first task's stack and never returns.
StartTcb ==
    /\ mode = "thread" /\ ~pendsv /\ starting # NULL
    /\ cpu' = ctx[starting]
    /\ starting' = NULL
    /\ UNCHANGED <<taskVars, ready, currentTcb, nextTcb, pendsv, mode>>
-----------------------------------------------------------------------------
(***************************************************************************)
(* Exceptions.                                                             *)
(***************************************************************************)

\* SysTick_Handler entered while a task is current: it calls
\* saramos_schedule().  With no current task it only counts.
Tick ==
    /\ mode = "thread" /\ ~pendsv /\ currentTcb # NULL
    /\ starting # NULL => TickInStartWindow
    /\ ScheduleOp(currentTcb)
    /\ mode' = "isr"
    /\ UNCHANGED <<ctx, addResult, table, currentTcb, cpu, starting>>

\* The rest of the handler: it may wake one task (saramos_sem_post(), in one
\* tick of 1000) before it returns.
IsrUnblock(t) ==
    /\ InIsr
    /\ state[t] = "BLOCKED"
    /\ UnblockOp(t)
    /\ mode' = "thread"
    /\ UNCHANGED <<ctx, addResult, table, currentTcb, cpu, starting>>

IsrReturn ==
    /\ InIsr
    /\ mode' = "thread"
    /\ UNCHANGED <<taskVars, ready, currentTcb, nextTcb, pendsv, cpu, starting>>

\* Mutant: saramos_current_tcb is replaced before the registers are saved.
PendSVSwapped ==
    /\ mode = "thread" /\ pendsv
    /\ pendsv' = FALSE
    /\ ctx' = [ctx EXCEPT ![nextTcb] = cpu]
    /\ currentTcb' = nextTcb
    /\ cpu' = IF cpu = Boot THEN Boot ELSE ctx'[nextTcb]
    /\ UNCHANGED <<state, prio, addResult, table, ready, nextTcb, mode, starting>>

\* PendSV_Handler.  The registers go to the stack of whoever executes, and
\* its sp to the current TCB; the exception return uses PSP only when the
\* handler was entered from a task: Boot still runs on the main stack.
PendSV ==
    /\ mode = "thread" /\ pendsv
    /\ pendsv' = FALSE
    /\ LET saved == IF currentTcb = NULL THEN ctx
                    ELSE [ctx EXCEPT ![currentTcb] = cpu]
       IN  /\ ctx' = saved
           /\ IF nextTcb = NULL
              THEN UNCHANGED <<currentTcb, cpu>>
              ELSE /\ currentTcb' = nextTcb
                   /\ cpu' = IF cpu = Boot THEN Boot ELSE saved[nextTcb]
    /\ UNCHANGED <<state, prio, addResult, table, ready, nextTcb, mode, starting>>

\* saramos_hardfault_dispatch(): evict the current task, switch at once to
\* the next ready one, or stop in wfi at HardFault priority.
HardFault ==
    /\ InTask
    /\ LET f  == currentTcb
           st == IF f = NULL THEN state ELSE [state EXCEPT ![f] = "FAULTED"]
           q  == IF f = NULL THEN ready ELSE ReadyRemove(ready, f)
           cx == IF f = NULL THEN ctx ELSE [ctx EXCEPT ![f] = NULL]
           n  == PickNext(q, st)
       IN  /\ ctx' = cx
           /\ IF n = NULL
              THEN /\ state' = st /\ ready' = q
                   /\ currentTcb' = NULL
                   /\ mode' = "halt"
                   /\ UNCHANGED <<nextTcb, cpu>>
              ELSE /\ state' = [st EXCEPT ![n] = "RUNNING"]
                   /\ ready' = ReadyRemove(q, n)
                   /\ currentTcb' = n /\ nextTcb' = n
                   /\ cpu' = cx[n]
                   /\ mode' = mode
    /\ UNCHANGED <<prio, addResult, table, pendsv, starting>>
-----------------------------------------------------------------------------
(***************************************************************************)
(* Calls of the running task.                                              *)
(***************************************************************************)

Yield ==
    /\ InTask
    /\ ScheduleOp(currentTcb)
    /\ UNCHANGED <<ctx, addResult, table, cpuVars>>

BlockCurrent ==
    /\ InTask
    /\ BlockCurrentOp(currentTcb)
    /\ UNCHANGED <<ctx, addResult, table, cpuVars>>

Unblock(t) ==
    /\ InTask
    /\ state[t] = "BLOCKED"
    /\ UnblockOp(t)
    /\ UNCHANGED <<ctx, addResult, table, cpuVars>>

SetPriority(t, p) ==
    /\ InTask
    /\ t \in table
    /\ SetPriorityOp(t, p)
    /\ UNCHANGED <<ctx, addResult, table, cpuVars>>

\* saramos_task_kill_and_reclaim() of another task, found by its id.
Kill(t) ==
    /\ InTask
    /\ t \in table /\ t # currentTcb
    /\ ready' = ReadyRemove(ready, t)
    /\ state' = [state EXCEPT ![t] = "KILLED"]
    /\ ctx' = [ctx EXCEPT ![t] = NULL]
    /\ UNCHANGED <<prio, addResult, table, nextTcb, pendsv, cpuVars>>

\* Mutant: saramos_current_tcb still points at the task that has exited.
ExitCurrent ==
    /\ InTask
    /\ SwitchOp(ReadyRemove(ready, currentTcb), [state EXCEPT ![currentTcb] = "KILLED"])
    /\ ctx' = [ctx EXCEPT ![currentTcb] = NULL]
    /\ UNCHANGED <<addResult, table, cpuVars>>

\* saramos_task_exit(): kill_and_reclaim of the caller, which clears
\* saramos_current_tcb, then saramos_schedule(), then wfi.  No other context
\* can act in between: with no current task SysTick does nothing.
Exit ==
    /\ InTask
    /\ LET st == [state EXCEPT ![currentTcb] = "KILLED"]
           q  == ReadyRemove(ready, currentTcb)
       IN  /\ SwitchOp(q, st)
           /\ mode' = IF PickNext(q, st) = NULL THEN "halt" ELSE mode
    /\ ctx' = [ctx EXCEPT ![currentTcb] = NULL]
    /\ currentTcb' = NULL
    /\ UNCHANGED <<addResult, table, cpu, starting>>
-----------------------------------------------------------------------------
Next ==
    \/ \E t \in Tasks : TaskInit(t) \/ TaskAdd(t)
    \/ KernelStart
    \/ StartTcb
    \/ Tick
    \/ \E t \in Tasks : IsrUnblock(t)
    \/ IsrReturn
    \/ PendSV
    \/ HardFault
    \/ Yield
    \/ BlockCurrent
    \/ \E t \in Tasks : Unblock(t) \/ Kill(t)
    \/ \E t \in Tasks, p \in PrioArgs : SetPriority(t, p)
    \/ Exit

Spec == Init /\ [][Next]_vars
-----------------------------------------------------------------------------
(***************************************************************************)
(* Properties.                                                             *)
(***************************************************************************)

\* Every variable has its type.
TypeOK ==
    /\ state \in [Tasks -> States]
    /\ prio \in [Tasks -> Nat]
    /\ ctx \in [Tasks -> Tasks \cup {NULL, Boot}]
    /\ addResult \in [Tasks -> {"none", "ok", "failed"}]
    /\ table \subseteq Tasks
    /\ ready \in Seq(Tasks)
    /\ currentTcb \in Tasks \cup {NULL}
    /\ nextTcb \in Tasks \cup {NULL}
    /\ pendsv \in BOOLEAN
    /\ cpu \in Tasks \cup {NULL, Boot}
    /\ mode \in {"boot", "thread", "isr", "halt"}
    /\ starting \in Tasks \cup {NULL}

\* The list q holds each READY task of the table tab once, and nothing else.
Exact(q, st, tab) ==
    /\ \A i, j \in 1 .. Len(q) : q[i] = q[j] => i = j
    /\ \A i \in 1 .. Len(q) : q[i] \in tab
    /\ \A t \in tab : st[t] = "READY" <=> Contains(q, t)

SortedBy(q, pr) ==
    \A i, j \in 1 .. Len(q) : i < j => pr[q[i]] >= pr[q[j]]

\* A task of the table is READY exactly when it is on the ready list, once: no
\* wakeup is forgotten and no sleeping or dead task can be picked.
ReadyListExact == Exact(ready, state, table)

\* The list stays in descending priority order through every insertion,
\* removal and priority change, so its head is the task to run.
ReadySorted == SortedBy(ready, prio)

\* The task PendSV has yet to switch to, or else the current one.
Chosen == IF pendsv THEN nextTcb ELSE currentTcb

\* At most one task is RUNNING: the chosen one; and a task that is chosen is
\* alive.
OneRunner ==
    /\ \A t \in Tasks : state[t] = "RUNNING" => t = Chosen
    /\ Chosen # NULL => Chosen \in table /\ state[Chosen] \notin Dead
    /\ pendsv => nextTcb # NULL /\ state[nextTcb] = "RUNNING"

\* Registers are saved to and restored from the right stack: while a task is
\* current the processor executes that task (or boot code not yet left), and a
\* live task's saved stack holds its own registers, so PendSV never loads a
\* reclaimed stack or another task's.
ContextsIntact ==
    /\ cpu \in Tasks /\ currentTcb # NULL => cpu = currentTcb
    /\ starting = NULL /\ currentTcb # NULL => cpu = currentTcb
    /\ \A t \in table : state[t] \notin Dead => ctx[t] = t

\* The rest of the inductive invariant: which states a task has before and
\* after saramos_task_add(), and that outside the boot code either a switch is
\* pending or a live task is current.
TaskStates ==
    /\ \A t \in table : state[t] # "UNUSED"
    /\ \A t \in Tasks \ table : state[t] \in {"UNUSED", "READY"}
Occupied ==
    /\ mode = "boot" => currentTcb = NULL /\ ~pendsv
    /\ mode \in {"thread", "isr"} /\ ~pendsv => currentTcb # NULL
    /\ currentTcb # NULL => currentTcb \in table /\ state[currentTcb] \notin Dead

\* The scheduler's inductive invariant.
KernelInv ==
    TypeOK /\ ReadyListExact /\ ReadySorted /\ OneRunner /\ TaskStates /\ Occupied

\* What ContextsIntact needs to be inductive: an initialised task has its own
\* stack before it is added too, and the processor leaves boot code exactly
\* when saramos_start_tcb() loads the current task.
Contexts ==
    /\ ContextsIntact
    /\ \A t \in Tasks \ table : state[t] # "UNUSED" => ctx[t] = t
    /\ mode = "boot" => starting = NULL /\ cpu = Boot
    /\ mode \in {"thread", "isr"} /\ starting = NULL => cpu \in Tasks
    /\ starting # NULL => starting = currentTcb /\ cpu = Boot
    /\ pendsv \/ mode = "isr" => starting = NULL

\* A scheduling decision never passes over a ready task of higher priority.
DispatchStep ==
    ~pendsv /\ (pendsv' \/ currentTcb' \notin {currentTcb, NULL})
      => \A i \in 1 .. Len(ready') : prio'[ready'[i]] <= prio'[nextTcb']
DispatchesHighest == [][DispatchStep]_vars

\* A killed or faulted task is never scheduled, listed or resumed again.
DeadStep ==
    \A t \in Tasks : state[t] \in Dead =>
        /\ state'[t] \in Dead
        /\ ~ Contains(ready', t)
        /\ cpu' = t => cpu = t
DeadStayDead == [][DeadStep]_vars

\* PendSV_Handler "installs the next TCB, and returns through the PSP"
\* (README.md:466): after it the processor executes the task it installed.
PendSVReturnsToNext ==
    [][ pendsv /\ ~pendsv' => cpu' = currentTcb' ]_vars

\* A task handed to saramos_task_add() is accepted by the kernel.
AddsAccepted == \A t \in Tasks : addResult[t] # "failed"

\* Fairness: the timer keeps ticking, exceptions are taken and return, and the
\* boot sequence goes through.
FairSpec ==
    /\ Spec
    /\ WF_vars(Tick) /\ WF_vars(PendSV)
    /\ WF_vars(IsrReturn \/ \E t \in Tasks : IsrUnblock(t))
    /\ WF_vars(KernelStart) /\ WF_vars(StartTcb)

\* Round robin: among tasks of one priority every listed task gets the
\* processor, whatever the running one does, unless it is killed first.
RoundRobin ==
    \A t \in Tasks : Contains(ready, t) ~> (currentTcb = t \/ state[t] \in Dead)
=============================================================================
