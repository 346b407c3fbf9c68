-------------------------- MODULE SaramosSemProofs --------------------------
(***************************************************************************)
(* The semaphore over the kernel: its count and its waiters, that the      *)
(* composed system takes none but the kernel's steps, so that what         *)
(* SaramosKernelProofs shows of the kernel's steps holds under it, and     *)
(* that it implements Semaphore.                                           *)
(***************************************************************************)
EXTENDS SaramosSem, SaramosKernelProofs

\* A unit is banked only where nobody waits, and only waiters are taken out.
LEMMA StepNoIdleUnits == NoIdleUnits /\ [SemNext]_semAll => NoIdleUnits'
<1> SUFFICES ASSUME NoIdleUnits, [SemNext]_semAll PROVE NoIdleUnits'
  OBVIOUS
<1> USE DEF NoIdleUnits
<1>1. ASSUME UNCHANGED <<count, waiters>> PROVE NoIdleUnits'
  BY <1>1
<1>2. ASSUME Bank PROVE NoIdleUnits'
  BY <1>2 DEF Bank
<1>3. ASSUME NEW w, Pop(w) PROVE NoIdleUnits'
  BY <1>3 DEF Pop
<1>4. CASE WaitTake
  BY <1>4 DEF WaitTake
<1>5. CASE WaitRegister
  BY <1>5 DEF WaitRegister
<1>6. CASE WaitBlock \/ WaitReturn \/ PostUnblock \/ KernelStep \/ UserYield
  BY <1>1, <1>6 DEF WaitBlock, WaitReturn, PostUnblock, KernelStep, UserYield, semVars
<1>7. CASE PostBank
  BY <1>2, <1>7 DEF PostBank
<1>8. CASE \E w \in Tasks : PostPop(w)
  BY <1>3, <1>8 DEF PostPop
<1>9. CASE IsrPost
  BY <1>2, <1>3, <1>9 DEF IsrPost
<1>10. CASE UNCHANGED semAll
  BY <1>1, <1>10 DEF semAll, semVars
<1> QED
  BY <1>4, <1>5, <1>6, <1>7, <1>8, <1>9, <1>10 DEF SemNext

\* No unit is banked while somebody waits for one (saramos_sem_post() hands it to
\* a waiter instead), for any users, priorities, boot order and initial count.
THEOREM NoIdleUnitsCorrect == SemSpec => []NoIdleUnits
<1>1. SemInit => NoIdleUnits
  BY DEF SemInit, NoIdleUnits
<1> QED
  BY <1>1, StepNoIdleUnits, PTL DEF SemSpec
-----------------------------------------------------------------------------
\* Who is about to unblock a waiter knows a task to unblock.
PostersHold ==
    /\ pc \in [Tasks -> {"run", "toBlock", "asleep", "posting"}]
    /\ woken \in [Tasks -> Tasks \cup {NULL}]
    /\ \A t \in Tasks : pc[t] = "posting" => woken[t] \in Tasks

LEMMA StepPostersHold == PostersHold /\ [SemNext]_semAll => PostersHold'
<1> SUFFICES ASSUME PostersHold, [SemNext]_semAll PROVE PostersHold'
  OBVIOUS
<1> USE UsersAssumption DEF PostersHold
<1>1. ASSUME UNCHANGED <<pc, woken>> PROVE PostersHold'
  BY <1>1
<1>2. CASE WaitTake \/ PostBank \/ IsrPost \/ KernelStep \/ UserYield \/ UNCHANGED semAll
  BY <1>1, <1>2 DEF WaitTake, PostBank, IsrPost, KernelStep, UserYield, semAll, semVars
<1>3. CASE WaitRegister \/ WaitBlock \/ WaitReturn
  BY <1>3 DEF WaitRegister, WaitBlock, WaitReturn, Calls, Goto
<1>4. ASSUME NEW w \in Tasks, PostPop(w) PROVE PostersHold'
  BY <1>4 DEF PostPop, Calls, Goto
<1>5. CASE PostUnblock
  BY <1>5 DEF PostUnblock, Calls, Goto
<1> QED
  BY <1>2, <1>3, <1>4, <1>5 DEF SemNext

\* Waking a task that does not sleep changes nothing.
LEMMA UnblockOrNot ==
    ASSUME NEW t, UnblockOp(t)
    PROVE  state[t] = "BLOCKED" \/ UNCHANGED kernelVars
BY DEF UnblockOp, kernelVars

LEMMA StepIsKernelStep == PostersHold /\ [SemNext]_semAll => [Next]_vars
<1> SUFFICES ASSUME PostersHold, [SemNext]_semAll PROVE [Next]_vars
  OBVIOUS
<1>1. CASE WaitTake \/ WaitRegister \/ WaitReturn \/ PostBank \/ UNCHANGED semAll
  BY <1>1 DEF WaitTake, WaitRegister, WaitReturn, PostBank, semAll
<1>2. CASE WaitBlock
  BY <1>2 DEF WaitBlock, Calls, BlockCurrent, Next
<1>3. ASSUME NEW w \in Tasks, PostPop(w) PROVE [Next]_vars
  BY <1>3 DEF PostPop
<1>4. CASE PostUnblock
  <2> DEFINE w == woken[currentTcb]
  <2>1. /\ w \in Tasks /\ InTask /\ UnblockOp(w)
        /\ UNCHANGED <<ctx, addResult, table, cpuVars>>
    BY <1>4, UsersAssumption DEF PostUnblock, Calls, PostersHold
  <2> HIDE DEF w
  <2>2. CASE state[w] = "BLOCKED"
    <3>1. Unblock(w)
      BY <2>1, <2>2 DEF Unblock
    <3> QED
      BY <2>1, <3>1 DEF Next
  <2>3. CASE UNCHANGED kernelVars
    BY <2>1, <2>3 DEF vars, kernelVars, cpuVars
  <2> QED
    BY <2>1, <2>2, <2>3, UnblockOrNot
<1>5. CASE IsrPost
  <2>1. /\ InIsr /\ mode' = "thread"
        /\ UNCHANGED <<ctx, addResult, table, currentTcb, cpu, starting>>
    BY <1>5 DEF IsrPost
  <2>2. CASE UNCHANGED kernelVars
    <3>1. IsrReturn
      BY <2>1, <2>2 DEF IsrReturn, taskVars, kernelVars
    <3> QED
      BY <3>1 DEF Next
  <2>3. ASSUME NEW w \in Tasks, UnblockOp(w), state[w] = "BLOCKED"
        PROVE  [Next]_vars
    <3>1. IsrUnblock(w)
      BY <2>1, <2>3 DEF IsrUnblock
    <3> QED
      BY <3>1 DEF Next
  <2>4. UNCHANGED kernelVars \/ \E w \in Tasks : UnblockOp(w)
    BY <1>5 DEF IsrPost
  <2> QED
    BY <2>2, <2>3, <2>4, UnblockOrNot
<1>6. CASE KernelStep \/ UserYield
  BY <1>6 DEF KernelStep, UserYield, Next
<1> QED
  BY <1>1, <1>2, <1>3, <1>4, <1>5, <1>6 DEF SemNext

\* Every step of the composed system, its interrupts between two critical sections of
\* one call included, is a step SaramosKernel allows.
THEOREM OnlyKernelStepsCorrect == SemSpec => OnlyKernelSteps
<1>1. SemInit => PostersHold
  BY DEF SemInit, PostersHold
<1> QED
  BY <1>1, StepPostersHold, StepIsKernelStep, PTL DEF SemSpec, OnlyKernelSteps

-----------------------------------------------------------------------------
(***************************************************************************)
(* From boot on: who waits, who is about to be woken, and the semaphore    *)
(* that this implements.                                                   *)
(***************************************************************************)

\* The tasks that never block.
Idle == Tasks \ Users

SemTypes ==
    /\ count \in 0 .. Max({MaxCount, InitialCount})
    /\ waiters \in Seq(Users)
    /\ pc \in [Tasks -> {"run", "toBlock", "asleep", "posting"}]
    /\ woken \in [Tasks -> Users \cup {NULL}]

\* In wait, and not unblocked since it went to sleep there.
Sleeping(t) == pc[t] \in {"toBlock", "asleep"} /\ (pc[t] = "asleep" => state[t] = "BLOCKED")

\* Who is registered, once, is in its wait.
WaitersRight == Distinct(waiters) /\ \A t \in ToSet(waiters) : Sleeping(t)

\* Who is about to be unblocked is in its wait, no longer registered, and known to one
\* poster only.
PostersRight ==
    /\ \A u \in Users : pc[u] = "posting" =>
          woken[u] \in Users /\ Sleeping(woken[u]) /\ woken[u] \notin ToSet(waiters)
    /\ \A u, v \in Users :
          pc[u] = "posting" /\ pc[v] = "posting" /\ woken[u] = woken[v] => u = v

\* The inductive invariant.
SemInv == Live(Idle) /\ SemTypes /\ NoIdleUnits /\ WaitersRight /\ PostersRight

LEMMA IdleFacts == Idle # {} /\ Idle \subseteq Tasks /\ Users \subseteq Tasks /\ NULL \notin Tasks
BY UsersAssumption, IdleAssumption, ContextsAssumption DEF Idle

LEMMA InitSemInv == SemInit => SemInv
<1> SUFFICES ASSUME SemInit PROVE SemInv
  OBVIOUS
<1>1. Live(Idle)
  BY IdleFacts, BootedLive, BootAssumption DEF SemInit
<1>2. <<>> \in Seq(Users) /\ Len(<<>>) = 0
  OBVIOUS
<1>3. waiters = <<>> /\ ToSet(waiters) = {} /\ Distinct(waiters)
  BY <1>2, ToSetFacts DEF SemInit, Distinct
<1>4. count \in 0 .. Max({MaxCount, InitialCount})
  <2>1. \E x \in {MaxCount, InitialCount} : \A y \in {MaxCount, InitialCount} : x >= y
    BY CountAssumption
  <2>2. /\ Max({MaxCount, InitialCount}) \in {MaxCount, InitialCount}
        /\ Max({MaxCount, InitialCount}) >= InitialCount
    BY <2>1 DEF Max
  <2> QED
    BY <2>2, CountAssumption DEF SemInit
<1>5. SemTypes
  BY <1>2, <1>4 DEF SemInit, SemTypes
<1>6. \A t \in Tasks : pc[t] = "run"
  BY DEF SemInit
<1> QED
  BY <1>1, <1>3, <1>5, <1>6, UsersAssumption
     DEF SemInv, NoIdleUnits, WaitersRight, PostersRight

LEMMA SemFacts ==
    ASSUME SemInv
    PROVE  /\ Live(Idle) /\ SemTypes /\ NoIdleUnits /\ WaitersRight /\ PostersRight
           /\ waiters \in Seq(Users) /\ ToSet(waiters) \subseteq Users
           /\ waiters = <<>> <=> ToSet(waiters) = {}
           /\ Users \subseteq Tasks /\ NULL \notin Tasks
           /\ prio \in [Tasks -> Nat] /\ state \in [Tasks -> States]
BY IdleFacts, LiveFacts, ToSetFacts DEF SemInv, SemTypes

LEMMA CallFacts ==
    ASSUME Live(Idle), NEW where, Calls(where)
    PROVE  /\ currentTcb \in Users /\ currentTcb \in Tasks /\ currentTcb # NULL
           /\ currentTcb \notin Idle
           /\ state[currentTcb] = "RUNNING" /\ pendsv = FALSE
           /\ pc[currentTcb] = where /\ InTask
BY IdleFacts, LiveFacts DEF Calls, InTask, Idle

\* The waiter a post takes out is registered, and the others stay.
LEMMA PopFacts ==
    ASSUME SemInv, NEW w, Pop(w)
    PROVE  /\ w \in ToSet(waiters) /\ w \in Users
           /\ waiters' \in Seq(Users) /\ Distinct(waiters')
           /\ ToSet(waiters') = ToSet(waiters) \ {w}
<1> DEFINE i == BestWaiter(waiters)
<1>0. waiters \in Seq(Users) /\ Distinct(waiters) /\ prio \in [Tasks -> Nat] /\ waiters # <<>>
  BY SemFacts DEF WaitersRight, Pop
<1>1. waiters \in Seq(Tasks)
  <2>1. Len(waiters) \in Nat /\ \A j \in 1 .. Len(waiters) : waiters[j] \in Tasks
    BY <1>0, LenProperties, ElementOfSeq, UsersAssumption
  <2> QED
    BY <1>0, <2>1, UsersAssumption
<1>2. i \in 1 .. Len(waiters)
  BY <1>0, <1>1, HighestExists DEF BestWaiter
<1>3. w = waiters[i] /\ waiters' = SubSeq([waiters EXCEPT ![i] = waiters[Len(waiters)]], 1, Len(waiters) - 1)
  BY DEF Pop, SwapOut
<1> HIDE DEF i
<1>4. w \in Users /\ w \in ToSet(waiters)
  BY <1>0, <1>2, <1>3, ElementOfSeq, ToSetFacts
<1> QED
  <2> DEFINE r == SubSeq([waiters EXCEPT ![i] = waiters[Len(waiters)]], 1, Len(waiters) - 1)
  <2>1. r \in Seq(Users) /\ Distinct(r) /\ ToSet(r) = ToSet(waiters) \ {waiters[i]}
    BY <1>0, <1>2, SwappedOutFacts
  <2> HIDE DEF r
  <2>2. waiters' = r
    BY <1>3 DEF r
  <2> QED
    BY <1>3, <1>4, <2>1, <2>2

\* What banking leaves.
LEMMA BankFacts ==
    ASSUME SemInv, Bank
    PROVE  waiters' = waiters /\ waiters = <<>> /\ count' = count + 1
           /\ count' \in 0 .. Max({MaxCount, InitialCount})
<1>1. \E x \in {MaxCount, InitialCount} : \A y \in {MaxCount, InitialCount} : x >= y
  BY CountAssumption
<1>2. Max({MaxCount, InitialCount}) \in Nat /\ Max({MaxCount, InitialCount}) >= MaxCount
  BY <1>1, CountAssumption DEF Max
<1> QED
  BY <1>2, CountAssumption DEF Bank, SemInv, SemTypes

\* A step that registers nobody, pops nobody, and moves nobody into or out of its sleep.
LEMMA KeepWaiters ==
    ASSUME SemInv, UNCHANGED <<waiters, woken>>,
           \A t \in Users : Sleeping(t)' <=> Sleeping(t),
           \A t \in Users : pc'[t] = "posting" => pc[t] = "posting"
    PROVE  WaitersRight' /\ PostersRight'
<1>0. WaitersRight /\ PostersRight /\ ToSet(waiters) \subseteq Users
  BY SemFacts
<1>1. WaitersRight'
  BY <1>0 DEF WaitersRight
<1>2. PostersRight'
  BY <1>0 DEF PostersRight
<1> QED
  BY <1>1, <1>2

\* saramos_sem_wait() and saramos_sem_post() where the kernel is not called.
LEMMA StepSemOnly ==
    ASSUME SemInv, WaitTake \/ WaitReturn \/ PostBank PROVE SemInv'
<1>c. PICK c : c = currentTcb
  OBVIOUS
<1>0. /\ Live(Idle) /\ SemTypes /\ Users \subseteq Tasks
  BY SemFacts
<1>1. UNCHANGED vars /\ UNCHANGED <<waiters, woken>> /\ state' = state
  BY BankFacts DEF WaitTake, WaitReturn, PostBank, vars
<1>2. Live(Idle)'
  BY <1>0, <1>1, LiveStutter
<1>3. SemTypes' /\ \A t \in Users : (Sleeping(t)' <=> Sleeping(t)) /\ (pc'[t] = "posting" => pc[t] = "posting")
  <2>1. CASE WaitTake
    <3>1. pc' = pc /\ count' = count - 1 /\ count > 0
      BY <2>1 DEF WaitTake
    <3>2. Max({MaxCount, InitialCount}) \in Nat
      <4>1. \E x \in {MaxCount, InitialCount} : \A y \in {MaxCount, InitialCount} : x >= y
        BY CountAssumption
      <4> QED
        BY <4>1, CountAssumption DEF Max
    <3>3. SemTypes'
      BY <1>0, <1>1, <3>1, <3>2 DEF SemTypes
    <3>4. \A t \in Users : Sleeping(t)' <=> Sleeping(t)
      BY <1>1, <3>1 DEF Sleeping
    <3> QED
      BY <3>1, <3>3, <3>4
  <2>2. CASE WaitReturn
    <3>1. /\ c \in Users /\ pc[c] = "asleep" /\ state[c] = "RUNNING"
      BY <1>0, <1>c, <2>2, CallFacts DEF WaitReturn
    <3>2. pc' = [pc EXCEPT ![c] = "run"] /\ count' = count
      BY <1>c, <2>2 DEF WaitReturn, Goto
    <3>3. SemTypes'
      BY <1>0, <1>1, <3>1, <3>2 DEF SemTypes
    <3>4. pc'[c] = "run" /\ \A t \in Tasks \ {c} : pc'[t] = pc[t]
      BY <1>0, <3>1, <3>2 DEF SemTypes
    <3>5. ~ Sleeping(c) /\ ~ (Sleeping(c))'
      BY <3>1, <3>4 DEF Sleeping
    <3>6. \A t \in Users \ {c} : Sleeping(t)' <=> Sleeping(t)
      BY <1>0, <1>1, <3>4 DEF Sleeping
    <3>7. \A t \in Users : (t = c => (Sleeping(t)' <=> Sleeping(t)))
      BY <3>5
    <3> QED
      BY <1>0, <3>3, <3>4, <3>6, <3>7
  <2>3. CASE PostBank
    <3>1. pc' = pc /\ count' \in 0 .. Max({MaxCount, InitialCount})
      BY <2>3, BankFacts DEF PostBank
    <3>2. SemTypes'
      BY <1>0, <1>1, <3>1 DEF SemTypes
    <3>3. \A t \in Users : Sleeping(t)' <=> Sleeping(t)
      BY <1>1, <3>1 DEF Sleeping
    <3> QED
      BY <3>1, <3>2, <3>3
  <2> QED
    BY <2>1, <2>2, <2>3
<1>4. NoIdleUnits'
  BY SemFacts, StepNoIdleUnits DEF SemNext
<1>5. WaitersRight' /\ PostersRight'
  BY <1>1, <1>3, KeepWaiters
<1> QED
  BY <1>2, <1>3, <1>4, <1>5 DEF SemInv

\* A waiter finds room in the array: it is not in there yet.
LEMMA RegisterFacts ==
    ASSUME SemInv, WaitRegister
    PROVE  /\ currentTcb \in Users /\ pc[currentTcb] = "run" /\ currentTcb \notin ToSet(waiters)
           /\ waiters' \in Seq(Users) /\ Distinct(waiters')
           /\ ToSet(waiters') = ToSet(waiters) \cup {currentTcb}
<1> DEFINE c == currentTcb
<1>0. /\ Live(Idle) /\ WaitersRight /\ waiters \in Seq(Users) /\ Users \subseteq Tasks
  BY SemFacts
<1>1. c \in Users /\ pc[c] = "run"
  BY <1>0, CallFacts DEF WaitRegister
<1>2. c \notin ToSet(waiters) /\ Distinct(waiters)
  BY <1>0, <1>1 DEF WaitersRight, Sleeping
<1>3. Len(waiters) < MaxTasks
  <2>1. IsFiniteSet(Users) /\ Cardinality(Users) <= Cardinality(Tasks)
    BY <1>0, TableAssumption, FS_Subset
  <2>2. Len(waiters) < Cardinality(Users)
    BY <1>0, <1>1, <1>2, <2>1, DistinctShort
  <2>3. Len(waiters) \in Nat /\ Cardinality(Users) \in Nat /\ Cardinality(Tasks) \in Nat
    BY <1>0, <2>1, TableAssumption, LenProperties, FS_CardinalityType
  <2> QED
    BY <2>1, <2>2, <2>3, BootAssumption, TableAssumption
<1>4. waiters' = Append(waiters, c)
  BY <1>3 DEF WaitRegister
<1> QED
  BY <1>0, <1>1, <1>2, <1>4, AppendFacts

LEMMA StepWaitRegister ==
    ASSUME SemInv, WaitRegister PROVE SemInv'
<1>c. PICK c : c = currentTcb
  OBVIOUS
<1>0. /\ Live(Idle) /\ SemTypes /\ Users \subseteq Tasks /\ WaitersRight /\ PostersRight
      /\ ToSet(waiters) \subseteq Users
  BY SemFacts
<1>1. /\ c \in Users /\ pc[c] = "run"
      /\ waiters' \in Seq(Users) /\ Distinct(waiters')
      /\ ToSet(waiters') = ToSet(waiters) \cup {c}
  BY <1>c, RegisterFacts
<1>2. /\ pc' = [pc EXCEPT ![c] = "toBlock"] /\ UNCHANGED <<vars, count, woken>> /\ state' = state
  BY <1>c DEF WaitRegister, Goto, vars
<1>3. Live(Idle)'
  BY <1>0, <1>2, LiveStutter
<1>4. SemTypes'
  BY <1>0, <1>1, <1>2 DEF SemTypes
<1>5. pc'[c] = "toBlock" /\ \A t \in Tasks \ {c} : pc'[t] = pc[t]
  BY <1>0, <1>1, <1>2 DEF SemTypes
<1>6. /\ ~ Sleeping(c) /\ (Sleeping(c))'
      /\ \A t \in Users \ {c} : Sleeping(t)' <=> Sleeping(t)
  BY <1>0, <1>1, <1>2, <1>5 DEF Sleeping
<1>7. NoIdleUnits'
  BY SemFacts, StepNoIdleUnits DEF SemNext
<1>8. WaitersRight'
  BY <1>0, <1>1, <1>6 DEF WaitersRight
<1>9. PostersRight'
  <2>1. \A u \in Users : pc'[u] = "posting" => u # c /\ pc[u] = "posting"
    BY <1>0, <1>5
  <2>2. \A u \in Users : pc[u] = "posting" => woken[u] # c
    BY <1>0, <1>6 DEF PostersRight
  <2> QED
    BY <1>0, <1>1, <1>2, <1>6, <2>1, <2>2 DEF PostersRight
<1> QED
  BY <1>3, <1>4, <1>7, <1>8, <1>9 DEF SemInv

LEMMA StepWaitBlock ==
    ASSUME SemInv, WaitBlock PROVE SemInv'
<1>c. PICK c : c = currentTcb
  OBVIOUS
<1>0. /\ Live(Idle) /\ SemTypes /\ Users \subseteq Tasks
  BY SemFacts
<1>1. c \in Users /\ c \in Tasks /\ pc[c] = "toBlock" /\ c \notin Idle /\ InTask
  BY <1>0, <1>c, CallFacts DEF WaitBlock
<1>2. /\ BlockCurrentOp(currentTcb)
      /\ pc' = [pc EXCEPT ![c] = "asleep"]
      /\ UNCHANGED <<ctx, addResult, table, cpuVars>>
      /\ UNCHANGED <<waiters, woken>> /\ count' = count
  BY <1>c DEF WaitBlock, Goto
<1>3. /\ Live(Idle)'
      /\ \A t \in Tasks : state'[t] = "BLOCKED" <=> state[t] = "BLOCKED" \/ t = c
  BY <1>0, <1>1, <1>2, <1>c, LiveBlock
<1>4. SemTypes'
  BY <1>0, <1>1, <1>2 DEF SemTypes
<1>5. pc'[c] = "asleep" /\ \A t \in Tasks \ {c} : pc'[t] = pc[t]
  BY <1>0, <1>1, <1>2 DEF SemTypes
<1>6. \A t \in Users : (Sleeping(t)' <=> Sleeping(t)) /\ (pc'[t] = "posting" => pc[t] = "posting")
  <2>1. \A t \in Users \ {c} : (Sleeping(t)' <=> Sleeping(t)) /\ (pc'[t] = "posting" => pc[t] = "posting")
    BY <1>0, <1>3, <1>5 DEF Sleeping
  <2>2. Sleeping(c) /\ (Sleeping(c))' /\ pc'[c] # "posting"
    BY <1>1, <1>3, <1>5 DEF Sleeping
  <2> QED
    BY <2>1, <2>2
<1>7. NoIdleUnits'
  BY SemFacts, StepNoIdleUnits DEF SemNext
<1>8. WaitersRight' /\ PostersRight'
  BY <1>2, <1>6, KeepWaiters
<1> QED
  BY <1>3, <1>4, <1>7, <1>8 DEF SemInv

LEMMA StepPostPop ==
    ASSUME SemInv, NEW w \in Tasks, PostPop(w) PROVE SemInv'
<1>c. PICK c : c = currentTcb
  OBVIOUS
<1>0. /\ Live(Idle) /\ SemTypes /\ Users \subseteq Tasks /\ WaitersRight /\ PostersRight
      /\ ToSet(waiters) \subseteq Users
  BY SemFacts
<1>1. /\ c \in Users /\ pc[c] = "run"
  BY <1>0, <1>c, CallFacts DEF PostPop
<1>2. /\ w \in ToSet(waiters) /\ w \in Users
      /\ waiters' \in Seq(Users) /\ Distinct(waiters')
      /\ ToSet(waiters') = ToSet(waiters) \ {w}
  BY PopFacts DEF PostPop
<1>3. /\ pc' = [pc EXCEPT ![c] = "posting"] /\ woken' = [woken EXCEPT ![c] = w]
      /\ UNCHANGED vars /\ state' = state /\ count' = count
  BY <1>c DEF PostPop, Pop, Goto, vars
<1>4. Live(Idle)'
  BY <1>0, <1>3, LiveStutter
<1>5. SemTypes'
  BY <1>0, <1>1, <1>2, <1>3 DEF SemTypes
<1>6. /\ pc'[c] = "posting" /\ woken'[c] = w
      /\ \A t \in Tasks \ {c} : pc'[t] = pc[t] /\ woken'[t] = woken[t]
  BY <1>0, <1>1, <1>3 DEF SemTypes
<1>7. \A t \in Users : Sleeping(t)' <=> Sleeping(t)
  <2>1. \A t \in Users \ {c} : Sleeping(t)' <=> Sleeping(t)
    BY <1>0, <1>3, <1>6 DEF Sleeping
  <2>2. ~ Sleeping(c) /\ ~ (Sleeping(c))'
    BY <1>1, <1>6 DEF Sleeping
  <2> QED
    BY <2>1, <2>2
<1>8. NoIdleUnits'
  BY SemFacts, StepNoIdleUnits DEF SemNext
<1>9. WaitersRight'
  BY <1>0, <1>2, <1>7 DEF WaitersRight
<1>10. PostersRight'
  <2>1. \A u \in Users \ {c} : pc'[u] = "posting" => pc[u] = "posting" /\ woken'[u] = woken[u] /\ woken'[u] # w
    BY <1>0, <1>2, <1>6 DEF PostersRight
  <2>2. ASSUME NEW u \in Users, pc'[u] = "posting"
        PROVE  woken'[u] \in Users /\ (Sleeping(woken[u]))' /\ woken'[u] \notin ToSet(waiters')
    <3>1. woken'[u] \in Users /\ Sleeping(woken'[u]) /\ woken'[u] \notin ToSet(waiters')
      <4>1. CASE u = c
        BY <1>0, <1>2, <1>6, <4>1 DEF WaitersRight
      <4>2. CASE u # c
        BY <1>0, <1>2, <2>1, <2>2, <4>2 DEF PostersRight
      <4> QED
        BY <4>1, <4>2
    <3>2. PICK x \in Users : x = woken'[u]
      BY <3>1
    <3>3. (Sleeping(x))'
      BY <1>7, <3>1, <3>2
    <3>4. (Sleeping(woken[u]))'
      BY <3>2, <3>3 DEF Sleeping
    <3> QED
      BY <3>1, <3>3, <3>4
  <2>3. ASSUME NEW u \in Users, NEW v \in Users,
               pc'[u] = "posting", pc'[v] = "posting", woken'[u] = woken'[v]
        PROVE  u = v
    <3>1. CASE u # c /\ v # c
      BY <1>0, <2>1, <2>3, <3>1 DEF PostersRight
    <3>2. CASE u = c \/ v = c
      BY <1>6, <2>1, <2>3, <3>2
    <3> QED
      BY <3>1, <3>2
  <2> QED
    BY <2>2, <2>3 DEF PostersRight
<1> QED
  BY <1>4, <1>5, <1>8, <1>9, <1>10 DEF SemInv

LEMMA StepPostUnblock ==
    ASSUME SemInv, PostUnblock PROVE SemInv'
<1>c. PICK c : c = currentTcb
  OBVIOUS
<1>n. PICK n : n = woken[c]
  OBVIOUS
<1>0. /\ Live(Idle) /\ SemTypes /\ Users \subseteq Tasks /\ WaitersRight /\ PostersRight
      /\ ToSet(waiters) \subseteq Users
  BY SemFacts
<1>1. c \in Users /\ pc[c] = "posting" /\ InTask
  BY <1>0, <1>c, CallFacts DEF PostUnblock
<1>2. n \in Users /\ n \in Tasks /\ Sleeping(n) /\ n \notin ToSet(waiters)
  BY <1>0, <1>1, <1>n DEF PostersRight
<1>3. /\ UnblockOp(n)
      /\ pc' = [pc EXCEPT ![c] = "run"] /\ woken' = [woken EXCEPT ![c] = NULL]
      /\ waiters' = waiters /\ count' = count
      /\ UNCHANGED <<ctx, addResult, table, currentTcb, cpu, starting>> /\ mode' = mode
  BY <1>c, <1>n DEF PostUnblock, Goto, cpuVars
<1>4. Live(Idle)' /\ \A u \in Tasks \ {n} : state'[u] = state[u]
  <2>1. UNCHANGED <<ctx, addResult, table, currentTcb, cpu, starting>> /\ mode' = mode /\ UnblockOp(n)
    BY <1>3
  <2> QED
    BY <1>0, <1>1, <1>2, <2>1, LiveUnblock
<1>5. SemTypes'
  BY <1>0, <1>1, <1>3 DEF SemTypes
<1>6. /\ pc'[c] = "run" /\ \A t \in Tasks \ {c} : pc'[t] = pc[t] /\ woken'[t] = woken[t]
  BY <1>0, <1>1, <1>3 DEF SemTypes
<1>7. \A t \in Users \ {n} : Sleeping(t)' <=> Sleeping(t)
  <2>1. \A t \in Users \ {n, c} : Sleeping(t)' <=> Sleeping(t)
    BY <1>0, <1>4, <1>6 DEF Sleeping
  <2>2. ~ Sleeping(c) /\ ~ (Sleeping(c))'
    BY <1>1, <1>6 DEF Sleeping
  <2> QED
    BY <2>1, <2>2
<1>8. NoIdleUnits'
  BY SemFacts, StepNoIdleUnits DEF SemNext
<1>9. WaitersRight'
  BY <1>0, <1>2, <1>3, <1>7 DEF WaitersRight
<1>10. PostersRight'
  <2>1. \A u \in Users : pc'[u] = "posting" =>
          u # c /\ pc[u] = "posting" /\ woken'[u] = woken[u] /\ woken[u] # n /\ woken[u] \in Users
    BY <1>0, <1>1, <1>6, <1>n DEF PostersRight
  <2>2. ASSUME NEW u \in Users, pc'[u] = "posting"
        PROVE  woken'[u] \in Users /\ (Sleeping(woken[u]))' /\ woken'[u] \notin ToSet(waiters')
    <3>1. PICK x \in Users : x = woken[u] /\ x = woken'[u] /\ x # n
      BY <2>1, <2>2
    <3>2. Sleeping(x) /\ x \notin ToSet(waiters')
      BY <1>0, <1>3, <2>1, <2>2, <3>1 DEF PostersRight
    <3>3. (Sleeping(x))'
      BY <1>7, <3>1, <3>2
    <3>4. (Sleeping(woken[u]))'
      BY <3>1, <3>3 DEF Sleeping
    <3> QED
      BY <3>1, <3>2, <3>3, <3>4
  <2>3. \A u, v \in Users :
          pc'[u] = "posting" /\ pc'[v] = "posting" /\ woken'[u] = woken'[v] => u = v
    BY <1>0, <2>1 DEF PostersRight
  <2> QED
    BY <2>2, <2>3 DEF PostersRight
<1> QED
  BY <1>4, <1>5, <1>8, <1>9, <1>10 DEF SemInv

\* The SysTick handler pops and unblocks in one.
LEMMA StepIsrPost ==
    ASSUME SemInv, IsrPost PROVE SemInv'
<1>0. /\ Live(Idle) /\ SemTypes /\ Users \subseteq Tasks /\ WaitersRight /\ PostersRight
      /\ ToSet(waiters) \subseteq Users
  BY SemFacts
<1>1. /\ InIsr /\ mode' = "thread"
      /\ UNCHANGED <<ctx, addResult, table, currentTcb, cpu, starting>>
      /\ pc' = pc /\ woken' = woken
  BY DEF IsrPost
<1>2. NoIdleUnits'
  BY SemFacts, StepNoIdleUnits DEF SemNext
<1>3. CASE Bank /\ UNCHANGED kernelVars
  <2>1. UNCHANGED waiters /\ count' \in 0 .. Max({MaxCount, InitialCount})
    BY <1>3, BankFacts
  <2>2. IsrReturn
    BY <1>1, <1>3 DEF IsrReturn, taskVars, kernelVars
  <2>3. Live(Idle)' /\ state' = state
    BY <1>0, <2>2, LiveIsrReturn
  <2>4. \A t \in Users : Sleeping(t)' <=> Sleeping(t)
    BY <1>1, <2>3 DEF Sleeping
  <2>5. WaitersRight' /\ PostersRight'
    BY <1>1, <2>1, <2>4, KeepWaiters
  <2>6. SemTypes'
    BY <1>0, <1>1, <2>1 DEF SemTypes
  <2> QED
    BY <1>2, <2>3, <2>5, <2>6 DEF SemInv
<1>4. ASSUME NEW w \in Tasks, Pop(w), UnblockOp(w) PROVE SemInv'
  <2>1. /\ w \in ToSet(waiters) /\ w \in Users
        /\ waiters' \in Seq(Users) /\ Distinct(waiters')
        /\ ToSet(waiters') = ToSet(waiters) \ {w}
    BY <1>4, PopFacts
  <2>2. count' = count
    BY <1>4 DEF Pop
  <2>3. Live(Idle)' /\ \A u \in Tasks \ {w} : state'[u] = state[u]
    BY <1>0, <1>1, <1>4, LiveUnblock
  <2>4. \A t \in Users \ {w} : Sleeping(t)' <=> Sleeping(t)
    BY <1>0, <1>1, <2>3 DEF Sleeping
  <2>5. SemTypes'
    BY <1>0, <1>1, <2>1, <2>2 DEF SemTypes
  <2>6. WaitersRight'
    BY <1>0, <2>1, <2>4 DEF WaitersRight
  <2>7. PostersRight'
    <3>1. \A u \in Users : pc[u] = "posting" => woken[u] \in Users \ {w}
      BY <1>0, <2>1 DEF PostersRight
    <3> QED
      BY <1>0, <1>1, <2>1, <2>4, <3>1 DEF PostersRight
  <2> QED
    BY <1>2, <2>3, <2>5, <2>6, <2>7 DEF SemInv
<1> QED
  BY <1>3, <1>4 DEF IsrPost

LEMMA StepSemKernel ==
    ASSUME SemInv, KernelStep \/ UserYield \/ UNCHANGED semAll PROVE SemInv'
<1>0. /\ Live(Idle) /\ SemTypes /\ Users \subseteq Tasks
  BY SemFacts
<1>1. waiters' = waiters /\ woken' = woken /\ pc' = pc /\ count' = count
  BY DEF KernelStep, UserYield, semAll, semVars
<1>2. Live(Idle)' /\ SameSleepers
  BY <1>0, LiveSchedule, LivePendSV, LiveIsrReturn, LiveStutter
     DEF KernelStep, UserYield, semAll
<1>3. \A t \in Users : Sleeping(t)' <=> Sleeping(t)
  BY <1>0, <1>1, <1>2 DEF Sleeping, SameSleepers
<1>4. WaitersRight' /\ PostersRight'
  BY <1>1, <1>3, KeepWaiters
<1>5. SemTypes' /\ NoIdleUnits'
  BY <1>0, <1>1, SemFacts DEF SemTypes, NoIdleUnits
<1> QED
  BY <1>2, <1>4, <1>5 DEF SemInv

LEMMA StepSemInv == SemInv /\ [SemNext]_semAll => SemInv'
BY StepSemOnly, StepWaitRegister, StepWaitBlock, StepPostPop, StepPostUnblock,
   StepIsrPost, StepSemKernel DEF SemNext

\* The inductive invariant of the semaphore holds of every behaviour: a waiter is
\* registered, granted or about to sleep, each in one way only.
THEOREM SemInvariant == SemSpec => []SemInv
BY InitSemInv, StepSemInv, PTL DEF SemSpec

\* Every variable of the semaphore and of the kernel under it keeps its type, the count
\* within what was put in and what may be banked.
THEOREM SemTypeCorrect == SemSpec => []SemTypeOK
<1>1. SemInv => SemTypeOK
  BY DEF SemInv, Live, KernelInv, SemTypes, SemTypeOK
<1> QED
  BY <1>1, SemInvariant, PTL

\* The kernel's inductive invariant stays true under the semaphore, from the boot on.
THEOREM KernelUnderSem == SemSpec => []KernelInv
BY SemInvariant, PTL DEF SemInv, Live

\* So does its dispatch order: no waiter that is woken, and no other READY task, is
\* passed over by one of lower priority.
THEOREM DispatchUnderSem == SemSpec => DispatchesHighest
BY KernelUnderSem, OnlyKernelStepsCorrect, StepDispatch, PTL DEF OnlyKernelSteps, DispatchesHighest
-----------------------------------------------------------------------------
(***************************************************************************)
(* The refinement: a unit is neither lost nor made.                        *)
(***************************************************************************)

\* A step that changes nothing the abstract semaphore sees.
LEMMA AbstractStutter ==
    ASSUME UNCHANGED <<count, waiters>>, InWait' = InWait
    PROVE  UNCHANGED <<count, Waiting, InWait \ Waiting>>
BY DEF Waiting

LEMMA StepAbstract ==
    SemInv /\ [SemNext]_semAll => [Abstract!Next]_<<count, Waiting, InWait \ Waiting>>
<1> SUFFICES ASSUME SemInv, [SemNext]_semAll
             PROVE  [Abstract!Next]_<<count, Waiting, InWait \ Waiting>>
  OBVIOUS
<1>c. PICK c : c = currentTcb
  OBVIOUS
<1>0. /\ Live(Idle) /\ SemTypes /\ NoIdleUnits /\ WaitersRight /\ Users \subseteq Tasks
      /\ Waiting \subseteq InWait
      /\ waiters = <<>> <=> Waiting = {}
  <2>1. Waiting \subseteq InWait
    BY SemFacts DEF WaitersRight, Sleeping, Waiting, InWait
  <2> QED
    BY <2>1, SemFacts DEF Waiting
<1>1. ASSUME Bank, pc' = pc PROVE Abstract!Bank
  <2>1. waiters = <<>> /\ waiters' = waiters /\ count' = count + 1
    BY <1>1, BankFacts
  <2>2. Waiting = {} /\ Waiting' = Waiting /\ InWait' = InWait
    BY <1>0, <1>1, <2>1 DEF Waiting, InWait
  <2> QED
    BY <2>1, <2>2 DEF Abstract!Bank
<1>2. ASSUME NEW w, Pop(w), InWait' = InWait PROVE w \in Users /\ Abstract!Grant(w)
  <2>1. w \in Waiting /\ w \in Users /\ Waiting' = Waiting \ {w}
    BY <1>2, PopFacts DEF Waiting
  <2>2. count' = count
    BY <1>2 DEF Pop
  <2>3. (InWait \ Waiting)' = (InWait \ Waiting) \cup {w}
    BY <1>0, <1>2, <2>1
  <2> QED
    BY <2>1, <2>2, <2>3 DEF Abstract!Grant
<1>3. CASE WaitTake
  <2>1. count > 0 /\ count' = count - 1 /\ pc' = pc /\ waiters' = waiters
    BY <1>3 DEF WaitTake
  <2>2. Waiting = {} /\ Waiting' = Waiting /\ InWait' = InWait
    BY <1>0, <2>1 DEF Waiting, InWait, NoIdleUnits
  <2>3. Abstract!Take
    BY <2>1, <2>2 DEF Abstract!Take
  <2> QED
    BY <2>3 DEF Abstract!Next
<1>4. CASE WaitRegister
  <2>1. /\ c \in Users /\ pc[c] = "run"
        /\ Waiting' = Waiting \cup {c}
    BY <1>4, <1>c, RegisterFacts DEF Waiting
  <2>2. count = 0 /\ count' = count /\ pc' = [pc EXCEPT ![c] = "toBlock"]
    BY <1>4, <1>c DEF WaitRegister, Goto
  <2>3. pc'[c] = "toBlock" /\ \A t \in Tasks \ {c} : pc'[t] = pc[t]
    BY <1>0, <2>1, <2>2 DEF SemTypes
  <2>4. c \notin InWait /\ InWait' = InWait \cup {c}
    BY <1>0, <2>1, <2>3 DEF InWait
  <2>5. Abstract!Join(c)
    BY <1>0, <2>1, <2>2, <2>4 DEF Abstract!Join
  <2> QED
    BY <2>1, <2>5 DEF Abstract!Next
<1>5. CASE WaitBlock
  <2>1. c \in Users /\ pc[c] = "toBlock"
    BY <1>0, <1>5, <1>c, CallFacts DEF WaitBlock
  <2>2. pc' = [pc EXCEPT ![c] = "asleep"] /\ UNCHANGED <<count, waiters>>
    BY <1>5, <1>c DEF WaitBlock, Goto
  <2>3. pc'[c] = "asleep" /\ \A t \in Tasks \ {c} : pc'[t] = pc[t]
    BY <1>0, <2>1, <2>2 DEF SemTypes
  <2>4. InWait' = InWait
    BY <1>0, <2>1, <2>3 DEF InWait
  <2> QED
    BY <2>2, <2>4, AbstractStutter
<1>6. CASE WaitReturn
  <2>1. c \in Users /\ pc[c] = "asleep" /\ state[c] = "RUNNING"
    BY <1>0, <1>6, <1>c, CallFacts DEF WaitReturn
  <2>2. pc' = [pc EXCEPT ![c] = "run"] /\ count' = count /\ waiters' = waiters
    BY <1>6, <1>c DEF WaitReturn, Goto
  <2>3. pc'[c] = "run" /\ \A t \in Tasks \ {c} : pc'[t] = pc[t]
    BY <1>0, <2>1, <2>2 DEF SemTypes
  <2>4. c \in InWait /\ c \notin Waiting /\ InWait' = InWait \ {c} /\ Waiting' = Waiting
    BY <1>0, <2>1, <2>2, <2>3 DEF InWait, Waiting, WaitersRight, Sleeping
  <2>5. Abstract!Return(c)
    BY <1>0, <2>2, <2>4 DEF Abstract!Return
  <2> QED
    BY <2>1, <2>5 DEF Abstract!Next
<1>7. CASE PostBank
  <2>1. Abstract!Bank
    BY <1>1, <1>7 DEF PostBank
  <2> QED
    BY <2>1 DEF Abstract!Next
<1>8. ASSUME NEW w \in Tasks, PostPop(w) PROVE Abstract!Next
  <2>1. c \in Users /\ pc[c] = "run"
    BY <1>0, <1>8, <1>c, CallFacts DEF PostPop
  <2>2. pc' = [pc EXCEPT ![c] = "posting"] /\ Pop(w)
    BY <1>8, <1>c DEF PostPop, Goto
  <2>3. pc'[c] = "posting" /\ \A t \in Tasks \ {c} : pc'[t] = pc[t]
    BY <1>0, <2>1, <2>2 DEF SemTypes
  <2>4. InWait' = InWait
    BY <1>0, <2>1, <2>3 DEF InWait
  <2>5. w \in Users /\ Abstract!Grant(w)
    BY <1>2, <2>2, <2>4
  <2> QED
    BY <2>5 DEF Abstract!Next
<1>9. CASE PostUnblock
  <2>1. c \in Users /\ pc[c] = "posting"
    BY <1>0, <1>9, <1>c, CallFacts DEF PostUnblock
  <2>2. pc' = [pc EXCEPT ![c] = "run"] /\ UNCHANGED <<count, waiters>>
    BY <1>9, <1>c DEF PostUnblock, Goto
  <2>3. pc'[c] = "run" /\ \A t \in Tasks \ {c} : pc'[t] = pc[t]
    BY <1>0, <2>1, <2>2 DEF SemTypes
  <2>4. InWait' = InWait
    BY <1>0, <2>1, <2>3 DEF InWait
  <2> QED
    BY <2>2, <2>4, AbstractStutter
<1>10. CASE IsrPost
  <2>1. pc' = pc /\ InWait' = InWait
    BY <1>10 DEF IsrPost, InWait
  <2>2. CASE Bank
    BY <1>1, <2>1, <2>2 DEF Abstract!Next
  <2>3. ASSUME NEW w \in Tasks, Pop(w) PROVE Abstract!Next
    <3>1. w \in Users /\ Abstract!Grant(w)
      BY <1>2, <2>1, <2>3
    <3> QED
      BY <3>1 DEF Abstract!Next
  <2> QED
    BY <1>10, <2>2, <2>3 DEF IsrPost
<1>11. CASE KernelStep \/ UserYield \/ UNCHANGED semAll
  <2>1. UNCHANGED <<count, waiters>> /\ InWait' = InWait
    BY <1>11 DEF KernelStep, UserYield, semAll, semVars, InWait
  <2> QED
    BY <2>1, AbstractStutter
<1> QED
  BY <1>3, <1>4, <1>5, <1>6, <1>7, <1>8, <1>9, <1>10, <1>11 DEF SemNext

\* The semaphore implements the one its header promises: whatever interrupt falls between
\* the two halves of a wait or a post, a unit is banked or granted to one waiter, who
\* alone returns with it.
THEOREM ImplementsSemaphoreCorrect == SemSpec => ImplementsSemaphore
<1>1. SemInit => Abstract!Init
  <2> SUFFICES ASSUME SemInit PROVE Abstract!Init
    OBVIOUS
  <2>1. count = InitialCount /\ waiters = <<>> /\ \A t \in Tasks : pc[t] = "run"
    BY DEF SemInit
  <2>2. Waiting = {} /\ InWait = {}
    BY <2>1, InitSemInv, SemFacts DEF Waiting, InWait
  <2> QED
    BY <2>1, <2>2 DEF Abstract!Init
<1> QED
  BY <1>1, SemInvariant, StepAbstract, PTL DEF SemSpec, ImplementsSemaphore, Abstract!Spec
=============================================================================
