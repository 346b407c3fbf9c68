------------------------- MODULE SaramosMutexProofs -------------------------
(***************************************************************************)
(* The mutexes over the kernel, checked by TLAPS: that ownership is not    *)
(* stolen between an unlock and the new owner's return, for any number of  *)
(* mutexes; and, for a mutex that is the only one of its users, priority   *)
(* inheritance.                                                            *)
(***************************************************************************)
EXTENDS SaramosMutex, SaramosKernelProofs

\* The tasks that never block.
Idle == Tasks \ Users

MutexTypes ==
    /\ owner \in [Mutexes -> Users \cup {NULL}]
    /\ base \in [Mutexes -> Nat]
    /\ boosted \in [Mutexes -> BOOLEAN]
    /\ waiters \in [Mutexes -> Seq(Users)]
    /\ pc \in [Tasks -> {"run", "toBlock", "asleep", "handing", "sleeping"}]
    /\ arg \in [Tasks -> Mutexes \cup {NULL}]
    /\ nextOwner \in [Tasks -> Users \cup {NULL}]
    /\ holding \in [Tasks -> SUBSET Mutexes]

InLock(t) == pc[t] \in {"toBlock", "asleep"}

\* In lock, and not unblocked since it went to sleep there.
Sleeping(t) == InLock(t) /\ (pc[t] = "asleep" => state[t] = "BLOCKED")

\* Who is registered is in the lock of that mutex, which somebody owns: another one, or
\* itself when it locked it twice.
WaitersRight ==
    \A m \in Mutexes :
        /\ Distinct(waiters[m])
        /\ \A t \in ToSet(waiters[m]) : Sleeping(t) /\ arg[t] = m /\ (owner[m] = t => m \in holding[t])
        /\ waiters[m] # <<>> => owner[m] # NULL

\* The task an unlock is about to unblock owns the mutex, from this hand-over, and has
\* not been unblocked by anybody else.
HandOversRight ==
    /\ \A u \in Users : pc[u] = "handing" =>
         /\ nextOwner[u] \in Users /\ Sleeping(nextOwner[u])
         /\ owner[arg[nextOwner[u]]] = nextOwner[u]
         /\ arg[nextOwner[u]] \notin holding[nextOwner[u]]
    /\ \A u, v \in Users :
         pc[u] = "handing" /\ pc[v] = "handing" /\ nextOwner[u] = nextOwner[v] => u = v

\* Who has been unblocked in a lock owns the mutex; who owns a mutex has returned from
\* its lock or is still in it.
OwnersRight ==
    /\ \A t \in Users : InLock(t) => arg[t] \in Mutexes
    /\ \A t \in Users : pc[t] = "asleep" /\ state[t] # "BLOCKED" => owner[arg[t]] = t
    /\ \A t \in Users, m \in Mutexes :
         owner[m] = t => m \in holding[t] \/ (InLock(t) /\ arg[t] = m)
    /\ \A t \in Idle : pc[t] = "run"

OwnershipInv ==
    MutexTypes /\ WaitersRight /\ HandOversRight /\ OwnersRight /\ HoldersOwn

\* The inductive invariant of any number of mutexes.
MutexInv == Live(Idle) /\ OwnershipInv
-----------------------------------------------------------------------------
(***************************************************************************)
(* The helpers of saramos_mutex.c.                                         *)
(***************************************************************************)

\* highest_waiter() finds a waiter of the highest priority when there is one.
LEMMA HighestWaiterFacts ==
    ASSUME NEW w \in Seq(Users), NEW pr \in [Tasks -> Nat]
    PROVE  /\ HighestWaiter(w, pr) = NULL <=> w = <<>>
           /\ w # <<>> => /\ HighestWaiter(w, pr) \in ToSet(w)
                          /\ HighestWaiter(w, pr) \in Users
                          /\ \A t \in ToSet(w) : pr[t] <= pr[HighestWaiter(w, pr)]
<1> DEFINE B == {i \in 1 .. Len(w) : \A j \in 1 .. Len(w) : pr[w[j]] <= pr[w[i]]}
           k == Min(B)
<1>1. w \in Seq(Tasks)
  <2>1. /\ Len(w) \in Nat /\ \A i \in 1 .. Len(w) : w[i] \in Tasks
    BY LenProperties, ElementOfSeq, UsersAssumption
  <2> QED
    BY <2>1, UsersAssumption
<1>2. CASE w = <<>>
  BY <1>2 DEF HighestWaiter
<1>3. CASE w # <<>>
  <2>1. k \in 1 .. Len(w) /\ \A j \in 1 .. Len(w) : pr[w[j]] <= pr[w[k]]
    BY <1>1, <1>3, HighestExists
  <2>2. HighestWaiter(w, pr) = w[k]
    BY <1>3 DEF HighestWaiter
  <2> HIDE DEF k
  <2>3. w[k] \in Users /\ w[k] # NULL
    BY <2>1, ElementOfSeq, UsersAssumption, ContextsAssumption
  <2>4. \A u : u \in ToSet(w) <=> \E i \in 1 .. Len(w) : w[i] = u
    BY ToSetFacts
  <2> QED
    BY <1>3, <2>1, <2>2, <2>3, <2>4
<1> QED
  BY <1>2, <1>3

\* waiter_remove() takes that waiter out and no other.
LEMMA WaiterRemoveFacts ==
    ASSUME NEW w \in Seq(Users), Distinct(w), NEW t \in ToSet(w)
    PROVE  /\ WaiterRemove(w, t) \in Seq(Users)
           /\ Distinct(WaiterRemove(w, t))
           /\ ToSet(WaiterRemove(w, t)) = ToSet(w) \ {t}
<1> DEFINE I == {k \in 1 .. Len(w) : w[k] = t}
           i == Min(I)
<1>1. i \in 1 .. Len(w) /\ w[i] = t
  <2>1. I \in SUBSET Nat /\ I # {}
    BY ToSetFacts
  <2>2. i \in I
    <3> HIDE DEF I
    <3> QED
      BY <2>1, MinOfNats
  <2> HIDE DEF i
  <2> QED
    BY <2>2
<1>2. WaiterRemove(w, t) = SubSeq([w EXCEPT ![i] = w[Len(w)]], 1, Len(w) - 1)
  BY DEF WaiterRemove
<1> HIDE DEF i
<1> DEFINE r == SubSeq([w EXCEPT ![i] = w[Len(w)]], 1, Len(w) - 1)
<1>3. r \in Seq(Users) /\ Distinct(r) /\ ToSet(r) = ToSet(w) \ {w[i]}
  BY <1>1, SwappedOutFacts
<1> HIDE DEF r
<1>4. WaiterRemove(w, t) = r
  BY <1>2 DEF r
<1> QED
  BY <1>1, <1>3, <1>4

\* reinherit(): the owner alone may be raised, to no less than any waiter.
LEMMA ReinheritedFacts ==
    ASSUME NEW m \in Mutexes, NEW o \in Users \cup {NULL}, NEW w \in Seq(Users),
           NEW b \in BOOLEAN, NEW pr, NEW q, base[m] \in Nat,
           Coherent(q, pr, state, Tasks),
           NEW r, r = Reinherited(m, o, w, b, pr, q)
    PROVE  /\ r.base \in Nat /\ r.boosted \in BOOLEAN
           /\ Coherent(r.ready, r.prio, state, Tasks)
           /\ \A t \in Tasks : t # o => r.prio[t] = pr[t]
           /\ o # NULL => pr[o] <= r.prio[o]
           /\ o # NULL => \A t \in ToSet(w) : r.prio[t] <= r.prio[o]
<1> DEFINE top   == HighestWaiter(w, pr)
           raise == o # NULL /\ top # NULL /\ pr[top] > pr[o]
<1>1. /\ r.base = IF raise /\ ~b THEN pr[o] ELSE base[m]
      /\ r.boosted = (b \/ raise)
      /\ r.prio = IF raise THEN [pr EXCEPT ![o] = pr[top]] ELSE pr
      /\ r.ready = IF raise THEN Repositioned(q, pr, o, pr[top]) ELSE q
  BY DEF Reinherited
<1>2. /\ pr \in [Tasks -> Nat] /\ NULL \notin Users /\ Users \subseteq Tasks
      /\ ToSet(w) \subseteq Users
      /\ w = <<>> <=> ToSet(w) = {}
  BY UsersAssumption, ContextsAssumption, ToSetFacts DEF Coherent
<1>3. /\ top = NULL <=> w = <<>>
      /\ w # <<>> => top \in ToSet(w) /\ top \in Users /\ \A t \in ToSet(w) : pr[t] <= pr[top]
  BY <1>2, HighestWaiterFacts
<1> HIDE DEF top
<1>4. CASE raise
  <2>1. o \in Tasks /\ top \in Tasks /\ pr[top] \in Nat /\ pr[o] \in Nat /\ pr[top] > pr[o]
    BY <1>2, <1>3, <1>4
  <2>2. Coherent(Repositioned(q, pr, o, pr[top]), [pr EXCEPT ![o] = pr[top]], state, Tasks)
    BY <2>1, RepositionProperties
  <2>3. /\ r.prio = [pr EXCEPT ![o] = pr[top]] /\ r.boosted = TRUE
        /\ r.prio[o] = pr[top]
        /\ \A t \in Tasks : t # o => r.prio[t] = pr[t]
        /\ r.base = IF ~b THEN pr[o] ELSE base[m]
        /\ r.ready = Repositioned(q, pr, o, pr[top])
    BY <1>1, <1>2, <1>4, <2>1
  <2>4. \A t \in ToSet(w) : t \in Tasks /\ pr[t] <= pr[top]
    BY <1>2, <1>3, <1>4
  <2>5. r.base \in Nat /\ Coherent(r.ready, r.prio, state, Tasks)
    BY <2>1, <2>2, <2>3
  <2>6. pr[o] <= r.prio[o] /\ \A t \in ToSet(w) : r.prio[t] <= r.prio[o]
    <3>1. \A t \in ToSet(w) : t # o => r.prio[t] <= r.prio[o]
      BY <2>1, <2>3, <2>4
    <3>2. r.prio[o] <= r.prio[o]
      BY <2>1, <2>3
    <3> QED
      BY <2>1, <2>3, <3>1, <3>2
  <2> QED
    BY <1>4, <2>3, <2>5, <2>6
<1>5. CASE ~raise
  <2>1. r.prio = pr /\ r.boosted = b /\ r.base = base[m] /\ r.ready = q
    BY <1>1, <1>5
  <2>2. ASSUME o # NULL, NEW t \in ToSet(w) PROVE pr[t] <= pr[o]
    <3>1. /\ top # NULL /\ top \in Tasks /\ t \in Tasks /\ o \in Tasks
          /\ pr[t] <= pr[top] /\ ~ (pr[top] > pr[o])
      BY <1>2, <1>3, <1>5, <2>2
    <3>2. pr[t] \in Nat /\ pr[top] \in Nat /\ pr[o] \in Nat
      BY <1>2, <3>1
    <3> QED
      BY <3>1, <3>2
  <2>3. o # NULL => pr[o] <= pr[o]
    <3>1. o # NULL => pr[o] \in Nat
      BY <1>2
    <3> QED
      BY <3>1
  <2> QED
    BY <2>1, <2>2, <2>3
<1> QED
  BY <1>4, <1>5

-----------------------------------------------------------------------------
(***************************************************************************)
(* Boot, and what a call finds.                                            *)
(***************************************************************************)
LEMMA IdleFacts == Idle # {} /\ Idle \subseteq Tasks /\ Users \subseteq Tasks /\ NULL \notin Tasks
BY UsersAssumption, IdleAssumption, ContextsAssumption DEF Idle

LEMMA EmptyWaiters ==
    <<>> \in Seq(Users) /\ Len(<<>>) = 0 /\ ToSet(<<>>) = {} /\ Distinct(<<>>)
<1>1. <<>> \in Seq(Users) /\ Len(<<>>) = 0
  OBVIOUS
<1>2. ToSet(<<>>) = {}
  BY <1>1, ToSetFacts
<1> QED
  BY <1>1, <1>2 DEF Distinct

LEMMA InitMutexInv == MutexInit => MutexInv /\ prio = BasePrio
<1> SUFFICES ASSUME MutexInit PROVE MutexInv /\ prio = BasePrio
  OBVIOUS
<1>1. Live(Idle) /\ prio = BasePrio
  BY IdleFacts, BootedLive, BootAssumption DEF MutexInit
<1>2. \A m \in Mutexes : waiters[m] = <<>> /\ owner[m] = NULL
  BY DEF MutexInit
<1>3. MutexTypes
  BY DEF MutexInit, MutexTypes
<1>4. \A t \in Tasks : pc[t] = "run" /\ holding[t] = {}
  BY DEF MutexInit
<1>5. WaitersRight
  BY <1>2, EmptyWaiters DEF WaitersRight
<1>6. HandOversRight /\ OwnersRight /\ HoldersOwn
  BY <1>2, <1>4, IdleFacts DEF HandOversRight, OwnersRight, InLock, HoldersOwn
<1> QED
  BY <1>1, <1>3, <1>5, <1>6 DEF MutexInv, OwnershipInv

LEMMA CallFacts ==
    ASSUME Live(Idle), NEW where, Calls(where)
    PROVE  /\ currentTcb \in Users /\ currentTcb \in Tasks /\ currentTcb # NULL
           /\ currentTcb \notin Idle
           /\ state[currentTcb] = "RUNNING" /\ pendsv = FALSE
           /\ pc[currentTcb] = where /\ InTask
BY IdleFacts, LiveFacts DEF Calls, InTask, Idle

LEMMA WaiterFacts ==
    ASSUME MutexTypes
    PROVE  \A m \in Mutexes :
             /\ waiters[m] \in Seq(Users) /\ ToSet(waiters[m]) \subseteq Users
             /\ waiters[m] = <<>> <=> ToSet(waiters[m]) = {}
BY ToSetFacts DEF MutexTypes
-----------------------------------------------------------------------------
(***************************************************************************)
(* Every step keeps the ownership right.                                   *)
(***************************************************************************)

\* A step that moves nobody into or out of a lock, and no sleeper that is in one.
LEMMA KeepOwnership ==
    ASSUME OwnershipInv,
           UNCHANGED <<owner, base, boosted, waiters, arg, nextOwner, holding>>,
           MutexTypes',
           \A t \in Tasks : InLock(t)' <=> InLock(t),
           \A t \in Tasks : InLock(t) => pc'[t] = pc[t] /\ (state'[t] = "BLOCKED" <=> state[t] = "BLOCKED"),
           \A t \in Tasks : pc'[t] = "handing" <=> pc[t] = "handing",
           \A t \in Idle : pc'[t] = pc[t]
    PROVE  OwnershipInv'
<1>0. MutexTypes /\ WaitersRight /\ HandOversRight /\ OwnersRight /\ HoldersOwn /\ Users \subseteq Tasks
  BY UsersAssumption DEF OwnershipInv
<1>1. \A t \in Tasks : Sleeping(t)' <=> Sleeping(t)
  BY DEF Sleeping, InLock
<1>2. WaitersRight'
  BY <1>0, <1>1, WaiterFacts DEF WaitersRight
<1>3. HandOversRight'
  BY <1>0, <1>1 DEF HandOversRight
<1>4. OwnersRight'
  BY <1>0, <1>1 DEF OwnersRight, InLock
<1>5. HoldersOwn'
  BY <1>0 DEF HoldersOwn
<1> QED
  BY <1>2, <1>3, <1>4, <1>5 DEF OwnershipInv

LEMMA StepLockFree ==
    ASSUME MutexInv, NEW m \in Mutexes, LockFree(m) PROVE MutexInv'
<1>c. PICK c : c = currentTcb
  OBVIOUS
<1>0. /\ Live(Idle) /\ MutexTypes /\ WaitersRight /\ HandOversRight /\ OwnersRight /\ HoldersOwn
      /\ Users \subseteq Tasks /\ NULL \notin Users
  BY UsersAssumption, ContextsAssumption DEF MutexInv, OwnershipInv
<1>1. c \in Users /\ c \in Tasks /\ c # NULL /\ pc[c] = "run" /\ state[c] = "RUNNING"
  BY <1>0, <1>c, CallFacts DEF LockFree
<1>2. /\ owner[m] = NULL
      /\ owner' = [owner EXCEPT ![m] = c]
      /\ boosted' = [boosted EXCEPT ![m] = FALSE]
      /\ holding' = [holding EXCEPT ![c] = @ \cup {m}]
      /\ UNCHANGED <<vars, base, waiters, pc, arg, nextOwner>>
      /\ state' = state
  BY <1>c DEF LockFree, vars
<1>3. Live(Idle)'
  BY <1>0, <1>2, LiveStutter
<1>4. MutexTypes'
  BY <1>0, <1>1, <1>2 DEF MutexTypes
<1>5. /\ owner'[m] = c /\ \A x \in Mutexes \ {m} : owner'[x] = owner[x]
      /\ holding'[c] = holding[c] \cup {m} /\ \A t \in Tasks \ {c} : holding'[t] = holding[t]
  BY <1>0, <1>1, <1>2 DEF MutexTypes
<1>6. \A t \in Tasks : Sleeping(t)' <=> Sleeping(t)
  BY <1>2 DEF Sleeping, InLock
<1>7. WaitersRight'
  <2>1. ToSet(waiters[m]) = {} /\ waiters[m] = <<>>
    BY <1>0, <1>2, WaiterFacts DEF WaitersRight
  <2>2. \A x \in Mutexes : waiters'[x] = waiters[x] /\ arg' = arg
    BY <1>2
  <2>3. \A x \in Mutexes \ {m} : owner'[x] = owner[x]
    BY <1>5
  <2>4. \A x \in Mutexes \ {m} : \A t \in ToSet(waiters[x]) :
          /\ t \in Tasks /\ Sleeping(t) /\ arg[t] = x
          /\ (owner[x] = t => x \in holding[t])
    BY <1>0, WaiterFacts DEF WaitersRight
  <2>5. \A x \in Mutexes : Distinct(waiters'[x])
    BY <1>0, <2>2 DEF WaitersRight
  <2>6. \A x \in Mutexes : \A t \in ToSet(waiters'[x]) :
          Sleeping(t)' /\ arg'[t] = x /\ (owner'[x] = t => x \in holding'[t])
    <3>1. \A t \in Tasks : holding[t] \subseteq holding'[t]
      BY <1>5
    <3> QED
      BY <1>6, <2>1, <2>2, <2>3, <2>4, <3>1
  <2>7. \A x \in Mutexes : waiters'[x] # <<>> => owner'[x] # NULL
    BY <1>0, <2>1, <2>2, <2>3 DEF WaitersRight
  <2> QED
    BY <2>5, <2>6, <2>7 DEF WaitersRight, Distinct
<1>8. HandOversRight'
  <2>1. \A u \in Users : pc[u] = "handing" =>
          arg[nextOwner[u]] \in Mutexes \ {m} /\ nextOwner[u] \in Tasks \ {c}
    BY <1>0, <1>1, <1>2 DEF HandOversRight, OwnersRight, Sleeping, InLock
  <2> QED
    BY <1>0, <1>2, <1>5, <1>6, <2>1 DEF HandOversRight
<1>9. OwnersRight'
  <2>1. \A t \in Users : InLock(t)' <=> InLock(t)
    BY <1>2 DEF InLock
  <2>2. \A t \in Users : pc[t] = "asleep" => arg[t] \in Mutexes
    BY <1>0 DEF OwnersRight, InLock
  <2> QED
    BY <1>0, <1>1, <1>2, <1>5, <2>1, <2>2 DEF OwnersRight
<1>10. HoldersOwn'
  <2>1. \A t \in Users : m \notin holding[t] /\ holding[t] \subseteq Mutexes
    BY <1>0, <1>2 DEF HoldersOwn, MutexTypes
  <2> QED
    BY <1>0, <1>1, <1>5, <2>1 DEF HoldersOwn
<1> QED
  BY <1>3, <1>4, <1>7, <1>8, <1>9, <1>10 DEF MutexInv, OwnershipInv

\* What a registering locker leaves.
LEMMA RegisterFacts ==
    ASSUME MutexInv, NEW m \in Mutexes, LockRegister(m)
    PROVE  LET c == currentTcb
               r == Reinherited(m, owner[m], waiters'[m], boosted[m], prio, ready)
           IN  /\ owner[m] \in Users /\ (owner[m] = c => m \in holding[c])
               /\ waiters'[m] \in Seq(Users) /\ Distinct(waiters'[m])
               /\ c \notin ToSet(waiters[m])
               /\ ToSet(waiters'[m]) \subseteq ToSet(waiters[m]) \cup {c}
               /\ waiters' = [waiters EXCEPT ![m] = waiters'[m]]
               /\ Inherit(m, r)
<1> DEFINE c == currentTcb
           w == IF Len(waiters[m]) < MaxTasks THEN Append(waiters[m], c) ELSE waiters[m]
<1>0. /\ Live(Idle) /\ MutexTypes /\ WaitersRight /\ OwnersRight
      /\ Users \subseteq Tasks /\ NULL \notin Users
  BY UsersAssumption, ContextsAssumption DEF MutexInv, OwnershipInv
<1>1. c \in Users /\ pc[c] = "run"
  BY <1>0, CallFacts DEF LockRegister
<1>2. /\ owner[m] # NULL
      /\ waiters' = [waiters EXCEPT ![m] = w]
      /\ Inherit(m, Reinherited(m, owner[m], w, boosted[m], prio, ready))
  BY DEF LockRegister
<1>3. waiters[m] \in Seq(Users) /\ Distinct(waiters[m])
  BY <1>0 DEF MutexTypes, WaitersRight
<1>4. c \notin ToSet(waiters[m])
  BY <1>0, <1>1 DEF WaitersRight, Sleeping, InLock
<1>5. owner[m] \in Users /\ (owner[m] = c => m \in holding[c])
  BY <1>0, <1>1, <1>2 DEF MutexTypes, OwnersRight, InLock
<1>6. w \in Seq(Users) /\ Distinct(w) /\ ToSet(w) \subseteq ToSet(waiters[m]) \cup {c}
  BY <1>1, <1>3, <1>4, AppendFacts
<1> HIDE DEF w
<1>7. waiters'[m] = w
  BY <1>0, <1>2 DEF MutexTypes
<1> QED
  BY <1>2, <1>4, <1>5, <1>6, <1>7

LEMMA StepLockRegister ==
    ASSUME MutexInv, NEW m \in Mutexes, LockRegister(m) PROVE MutexInv'
<1>c. PICK c : c = currentTcb
  OBVIOUS
<1> DEFINE r == Reinherited(m, owner[m], waiters'[m], boosted[m], prio, ready)
<1>0. /\ Live(Idle) /\ MutexTypes /\ WaitersRight /\ HandOversRight /\ OwnersRight /\ HoldersOwn
      /\ Users \subseteq Tasks /\ NULL \notin Users
  BY UsersAssumption, ContextsAssumption DEF MutexInv, OwnershipInv
<1>1. c \in Users /\ c \in Tasks /\ c # NULL /\ pc[c] = "run" /\ state[c] = "RUNNING" /\ c \notin Idle
  BY <1>0, <1>c, CallFacts DEF LockRegister
<1>2. /\ owner[m] \in Users /\ (owner[m] = c => m \in holding[c])
      /\ waiters'[m] \in Seq(Users) /\ Distinct(waiters'[m])
      /\ waiters' = [waiters EXCEPT ![m] = waiters'[m]]
      /\ ToSet(waiters'[m]) \subseteq ToSet(waiters[m]) \cup {c}
      /\ Inherit(m, r)
  BY <1>c, RegisterFacts
<1>3. /\ arg' = [arg EXCEPT ![c] = m]
      /\ pc' = [pc EXCEPT ![c] = "toBlock"]
      /\ UNCHANGED <<owner, nextOwner, holding>>
  BY <1>c DEF LockRegister, Goto
<1>4. /\ r.base \in Nat /\ r.boosted \in BOOLEAN
      /\ Coherent(r.ready, r.prio, state, Tasks)
  <2>1. boosted[m] \in BOOLEAN /\ base[m] \in Nat /\ Coherent(ready, prio, state, Tasks)
    BY <1>0, LiveFacts DEF MutexTypes
  <2>2. owner[m] \in Users \cup {NULL}
    BY <1>2
  <2>3. r = Reinherited(m, owner[m], waiters'[m], boosted[m], prio, ready)
    OBVIOUS
  <2> HIDE DEF r
  <2>4. waiters'[m] \in Seq(Users)
    BY <1>2
  <2> QED
    BY <2>1, <2>2, <2>3, <2>4, ReinheritedFacts
<1> HIDE DEF r
<1>5. /\ base' = [base EXCEPT ![m] = r.base]
      /\ boosted' = [boosted EXCEPT ![m] = r.boosted]
      /\ prio' = r.prio /\ ready' = r.ready
      /\ UNCHANGED <<state, nextTcb, pendsv, ctx, addResult, table, cpuVars>>
  BY <1>2 DEF Inherit
<1>6. Live(Idle)'
  BY <1>0, <1>4, <1>5, LiveReposition
<1>7. MutexTypes'
  BY <1>0, <1>1, <1>2, <1>3, <1>4, <1>5 DEF MutexTypes
<1>8. /\ arg'[c] = m /\ pc'[c] = "toBlock"
      /\ \A t \in Tasks \ {c} : arg'[t] = arg[t] /\ pc'[t] = pc[t]
      /\ \A x \in Mutexes \ {m} : waiters'[x] = waiters[x]
      /\ state' = state
  BY <1>0, <1>1, <1>2, <1>3, <1>5 DEF MutexTypes
<1>9. /\ \A t \in Tasks \ {c} : (Sleeping(t)' <=> Sleeping(t)) /\ (InLock(t)' <=> InLock(t))
      /\ Sleeping(c)' /\ InLock(c)'
      /\ ~ Sleeping(c) /\ ~ InLock(c)
  BY <1>1, <1>8 DEF Sleeping, InLock
<1>10. WaitersRight'
  <2>1. \A x \in Mutexes : ToSet(waiters[x]) \subseteq Tasks \ {c} /\ ToSet(waiters[x]) \subseteq Users
    BY <1>0, <1>9, WaiterFacts DEF WaitersRight
  <2>2. ASSUME NEW x \in Mutexes
        PROVE  /\ Distinct(waiters'[x])
               /\ \A t \in ToSet(waiters'[x]) : /\ Sleeping(t)' /\ arg'[t] = x
                                                /\ (owner'[x] = t => x \in holding'[t])
               /\ waiters'[x] # <<>> => owner'[x] # NULL
    <3>1. CASE x = m
      <4>1. \A t \in ToSet(waiters'[m]) : t = c \/ (t \in ToSet(waiters[m]) /\ t \in Tasks \ {c})
        BY <1>2, <2>1
      <4>2. \A t \in ToSet(waiters[m]) : Sleeping(t) /\ arg[t] = m /\ (owner[m] = t => m \in holding[t])
        BY <1>0 DEF WaitersRight
      <4> QED
        BY <1>0, <1>2, <1>3, <1>8, <1>9, <3>1, <4>1, <4>2
    <3>2. CASE x # m
      <4>1. waiters'[x] = waiters[x] /\ owner'[x] = owner[x]
        BY <1>3, <1>8, <3>2
      <4> QED
        BY <1>0, <1>3, <1>8, <1>9, <2>1, <4>1 DEF WaitersRight
    <3> QED
      BY <3>1, <3>2
  <2> QED
    BY <2>2 DEF WaitersRight
<1>11. HandOversRight'
  <2>1. \A u \in Users : pc'[u] = "handing" => /\ pc[u] = "handing" /\ nextOwner[u] \in Tasks \ {c}
    BY <1>0, <1>8, <1>9 DEF HandOversRight
  <2> QED
    BY <1>0, <1>3, <1>8, <1>9, <2>1 DEF HandOversRight
<1>12. OwnersRight'
  <2>1. \A t \in Users : InLock(t)' => arg'[t] \in Mutexes
    BY <1>0, <1>8, <1>9 DEF OwnersRight
  <2>2. \A t \in Users : pc'[t] = "asleep" /\ state'[t] # "BLOCKED" => owner'[arg'[t]] = t
    BY <1>0, <1>3, <1>8 DEF OwnersRight
  <2>3. \A t \in Users, x \in Mutexes :
           owner'[x] = t => x \in holding'[t] \/ (InLock(t)' /\ arg'[t] = x)
    BY <1>0, <1>3, <1>8, <1>9 DEF OwnersRight
  <2>4. \A t \in Idle : pc'[t] = "run"
    BY <1>0, <1>1, <1>8 DEF OwnersRight, Idle
  <2> QED
    BY <2>1, <2>2, <2>3, <2>4 DEF OwnersRight
<1>13. HoldersOwn'
  BY <1>0, <1>3 DEF HoldersOwn
<1> QED
  BY <1>6, <1>7, <1>10, <1>11, <1>12, <1>13 DEF MutexInv, OwnershipInv

LEMMA StepLockBlock ==
    ASSUME MutexInv, LockBlock PROVE MutexInv' /\ prio' = prio
<1>c. PICK c : c = currentTcb
  OBVIOUS
<1>0. /\ Live(Idle) /\ OwnershipInv
      /\ MutexTypes /\ WaitersRight /\ HandOversRight /\ OwnersRight /\ HoldersOwn
      /\ Users \subseteq Tasks
  BY UsersAssumption DEF MutexInv, OwnershipInv
<1>1. c \in Users /\ c \in Tasks /\ pc[c] = "toBlock" /\ c \notin Idle /\ InTask
  BY <1>0, <1>c, CallFacts DEF LockBlock
<1>2. /\ BlockCurrentOp(currentTcb)
      /\ pc' = [pc EXCEPT ![c] = "asleep"]
      /\ UNCHANGED <<ctx, addResult, table, cpuVars,
                     owner, base, boosted, waiters, arg, nextOwner, holding>>
  BY <1>c DEF LockBlock, Goto
<1>3. /\ Live(Idle)' /\ prio' = prio
      /\ \A t \in Tasks : state'[t] = "BLOCKED" <=> state[t] = "BLOCKED" \/ t = c
  BY <1>0, <1>1, <1>2, <1>c, LiveBlock
<1>4. MutexTypes'
  BY <1>0, <1>1, <1>2 DEF MutexTypes
<1>5. pc'[c] = "asleep" /\ \A t \in Tasks \ {c} : pc'[t] = pc[t]
  BY <1>0, <1>1, <1>2 DEF MutexTypes
<1>6. /\ \A t \in Tasks : InLock(t)' <=> InLock(t)
      /\ \A t \in Tasks : Sleeping(t)' <=> Sleeping(t)
  <2>1. \A t \in Tasks \ {c} : (InLock(t)' <=> InLock(t)) /\ (Sleeping(t)' <=> Sleeping(t))
    BY <1>3, <1>5 DEF InLock, Sleeping
  <2>2. InLock(c) /\ Sleeping(c) /\ InLock(c)' /\ Sleeping(c)'
    BY <1>1, <1>3, <1>5 DEF InLock, Sleeping
  <2> QED
    BY <2>1, <2>2
<1>7. WaitersRight'
  BY <1>0, <1>2, <1>6, WaiterFacts DEF WaitersRight
<1>8. HandOversRight'
  BY <1>0, <1>1, <1>2, <1>5, <1>6 DEF HandOversRight
<1>9. OwnersRight'
  BY <1>0, <1>1, <1>2, <1>3, <1>5, <1>6 DEF OwnersRight, Idle
<1>10. HoldersOwn'
  BY <1>0, <1>2 DEF HoldersOwn
<1> QED
  BY <1>3, <1>4, <1>7, <1>8, <1>9, <1>10 DEF MutexInv, OwnershipInv

LEMMA StepLockReturn ==
    ASSUME MutexInv, LockReturn PROVE MutexInv' /\ prio' = prio
<1>c. PICK c : c = currentTcb
  OBVIOUS
<1>0. /\ Live(Idle) /\ MutexTypes /\ WaitersRight /\ HandOversRight /\ OwnersRight /\ HoldersOwn
      /\ Users \subseteq Tasks
  BY UsersAssumption DEF MutexInv, OwnershipInv
<1>1. c \in Users /\ c \in Tasks /\ pc[c] = "asleep" /\ state[c] = "RUNNING" /\ c \notin Idle
  BY <1>0, <1>c, CallFacts DEF LockReturn
<1>2. /\ holding' = [holding EXCEPT ![c] = @ \cup {arg[c]}]
      /\ arg' = [arg EXCEPT ![c] = NULL]
      /\ pc' = [pc EXCEPT ![c] = "run"]
      /\ UNCHANGED <<vars, owner, base, boosted, waiters, nextOwner>>
      /\ state' = state /\ prio' = prio
  BY <1>c DEF LockReturn, Goto, vars
<1>3. Live(Idle)'
  BY <1>0, <1>2, LiveStutter
<1>4. arg[c] \in Mutexes /\ owner[arg[c]] = c
  BY <1>0, <1>1 DEF OwnersRight, InLock
<1>5. MutexTypes'
  BY <1>0, <1>1, <1>2, <1>4 DEF MutexTypes
<1>6. /\ pc'[c] = "run" /\ \A t \in Tasks \ {c} : pc'[t] = pc[t] /\ arg'[t] = arg[t]
      /\ holding'[c] = holding[c] \cup {arg[c]}
      /\ \A t \in Tasks \ {c} : holding'[t] = holding[t]
  BY <1>0, <1>1, <1>2 DEF MutexTypes
<1>7. /\ \A t \in Tasks \ {c} : (InLock(t)' <=> InLock(t)) /\ (Sleeping(t)' <=> Sleeping(t))
      /\ ~ Sleeping(c) /\ ~ Sleeping(c)' /\ ~ InLock(c)'
  <2>1. \A t \in Tasks \ {c} : (InLock(t)' <=> InLock(t)) /\ (Sleeping(t)' <=> Sleeping(t))
    BY <1>2, <1>6 DEF InLock, Sleeping
  <2> QED
    BY <1>1, <1>6, <2>1 DEF InLock, Sleeping
<1>8. WaitersRight'
  <2>1. \A m \in Mutexes : ToSet(waiters[m]) \subseteq Tasks \ {c}
    BY <1>0, <1>7, WaiterFacts DEF WaitersRight
  <2> QED
    BY <1>0, <1>2, <1>6, <1>7, <2>1 DEF WaitersRight
<1>9. HandOversRight'
  <2>1. \A u \in Users : pc'[u] = "handing" => pc[u] = "handing" /\ nextOwner[u] \in Tasks \ {c}
    BY <1>0, <1>6, <1>7 DEF HandOversRight
  <2> QED
    BY <1>0, <1>2, <1>6, <1>7, <2>1 DEF HandOversRight
<1>10. OwnersRight'
  <2>1. \A t \in Users : InLock(t)' => arg'[t] \in Mutexes
    BY <1>0, <1>6, <1>7 DEF OwnersRight
  <2>2. \A t \in Users : pc'[t] = "asleep" /\ state'[t] # "BLOCKED" => owner'[arg'[t]] = t
    BY <1>0, <1>2, <1>6 DEF OwnersRight
  <2>3. \A t \in Users, x \in Mutexes :
           owner'[x] = t => x \in holding'[t] \/ (InLock(t)' /\ arg'[t] = x)
    BY <1>0, <1>2, <1>6, <1>7 DEF OwnersRight
  <2>4. \A t \in Idle : pc'[t] = "run"
    BY <1>0, <1>1, <1>6 DEF OwnersRight, Idle
  <2> QED
    BY <2>1, <2>2, <2>3, <2>4 DEF OwnersRight
<1>11. HoldersOwn'
  BY <1>0, <1>2, <1>4, <1>6 DEF HoldersOwn
<1> QED
  BY <1>2, <1>3, <1>5, <1>8, <1>9, <1>10, <1>11 DEF MutexInv, OwnershipInv

\* The priorities and the list once the releasing owner has its own priority back.
RestoredPrio(m) == IF boosted[m] THEN [prio EXCEPT ![owner[m]] = base[m]] ELSE prio
RestoredList(m) == IF boosted[m] THEN Repositioned(ready, prio, owner[m], base[m]) ELSE ready

\* What an unlock leaves: the mutex is free, or it belongs to its highest waiter,
\* who is no longer registered.
LEMMA UnlockFacts ==
    ASSUME MutexInv, NEW m \in Mutexes, Unlock(m)
    PROVE  LET c == currentTcb
               n == owner'[m]
               r == Reinherited(m, n, waiters'[m], FALSE, RestoredPrio(m), RestoredList(m))
           IN  /\ owner[m] = c /\ m \in holding[c]
               /\ Coherent(RestoredList(m), RestoredPrio(m), state, Tasks)
               /\ owner' = [owner EXCEPT ![m] = n]
               /\ waiters' = [waiters EXCEPT ![m] = waiters'[m]]
               /\ waiters'[m] \in Seq(Users) /\ Distinct(waiters'[m])
               /\ \/ /\ n = NULL
                     /\ waiters[m] = <<>> /\ waiters'[m] = <<>> /\ ToSet(waiters'[m]) = {}
                     /\ pc' = pc
                  \/ /\ n \in ToSet(waiters[m]) /\ n \in Users /\ n # c
                     /\ \A t \in ToSet(waiters[m]) : RestoredPrio(m)[t] <= RestoredPrio(m)[n]
                     /\ ToSet(waiters'[m]) = ToSet(waiters[m]) \ {n}
                     /\ pc' = [pc EXCEPT ![c] = "handing"]
               /\ nextOwner' = [nextOwner EXCEPT ![c] = n]
               /\ Inherit(m, r)
<1>c. PICK c : c = currentTcb
  OBVIOUS
<1> DEFINE pr == RestoredPrio(m)
           q  == RestoredList(m)
           h  == HighestWaiter(waiters[m], pr)
           w  == IF h = NULL THEN <<>> ELSE WaiterRemove(waiters[m], h)
<1>0. /\ Live(Idle) /\ MutexTypes /\ WaitersRight /\ OwnersRight /\ HoldersOwn
      /\ Users \subseteq Tasks /\ NULL \notin Users
      /\ Coherent(ready, prio, state, Tasks)
  BY UsersAssumption, ContextsAssumption, LiveFacts DEF MutexInv, OwnershipInv
<1>1. c \in Users /\ c \in Tasks /\ c # NULL /\ pc[c] = "run" /\ m \in holding[c]
  BY <1>0, <1>c, CallFacts DEF Unlock
<1>2. owner[m] = c
  BY <1>0, <1>1 DEF HoldersOwn
<1>3. Coherent(q, pr, state, Tasks)
  <2>1. base[m] \in Nat
    BY <1>0 DEF MutexTypes
  <2> QED
    BY <1>0, <1>1, <1>2, <2>1, RepositionProperties DEF RestoredPrio, RestoredList
<1>4. pr \in [Tasks -> Nat]
  BY <1>3 DEF Coherent
<1>5. /\ owner' = [owner EXCEPT ![m] = h]
      /\ waiters' = [waiters EXCEPT ![m] = w]
      /\ nextOwner' = [nextOwner EXCEPT ![c] = h]
      /\ pc' = IF h = NULL THEN pc ELSE [pc EXCEPT ![c] = "handing"]
      /\ Inherit(m, Reinherited(m, h, w, FALSE, pr, q))
  <2> DEFINE restore == owner[m] # NULL /\ boosted[m]
  <2>1. boosted[m] \in BOOLEAN /\ owner[m] # NULL
    BY <1>0, <1>1, <1>2 DEF MutexTypes
  <2> DEFINE pr2 == IF restore THEN [prio EXCEPT ![owner[m]] = base[m]] ELSE prio
             q2  == IF restore THEN Repositioned(ready, prio, owner[m], base[m]) ELSE ready
             b2  == boosted[m] /\ ~restore
             n2  == HighestWaiter(waiters[m], pr2)
             w2  == IF n2 = NULL THEN <<>> ELSE WaiterRemove(waiters[m], n2)
  <2>2. /\ owner' = [owner EXCEPT ![m] = n2]
        /\ waiters' = [waiters EXCEPT ![m] = w2]
        /\ nextOwner' = [nextOwner EXCEPT ![c] = n2]
        /\ pc' = IF n2 = NULL THEN pc ELSE [pc EXCEPT ![c] = "handing"]
        /\ Inherit(m, Reinherited(m, n2, w2, b2, pr2, q2))
    BY <1>c DEF Unlock
  <2>3. pr2 = pr /\ q2 = q /\ b2 = FALSE
    BY <2>1 DEF RestoredPrio, RestoredList
  <2> HIDE DEF pr2, q2, b2, pr, q
  <2> QED
    BY <2>2, <2>3
<1>6. waiters[m] \in Seq(Users) /\ Distinct(waiters[m])
  BY <1>0 DEF MutexTypes, WaitersRight
<1>7. /\ h = NULL <=> waiters[m] = <<>>
      /\ waiters[m] # <<>> => /\ h \in ToSet(waiters[m]) /\ h \in Users
                              /\ \A t \in ToSet(waiters[m]) : pr[t] <= pr[h]
  <2> HIDE DEF pr
  <2> QED
    BY <1>4, <1>6, HighestWaiterFacts
<1> HIDE DEF pr, q, h
<1>8. owner'[m] = h /\ waiters'[m] = w
  <2> HIDE DEF w
  <2> QED
    BY <1>0, <1>5 DEF MutexTypes
<1>9. CASE h = NULL
  <2>1. w = <<>>
    BY <1>9
  <2>2. <<>> \in Seq(Users) /\ Len(<<>>) = 0 /\ ToSet(<<>>) = {} /\ Distinct(<<>>)
    BY EmptyWaiters
  <2> QED
    BY <1>1, <1>2, <1>3, <1>5, <1>7, <1>8, <1>9, <1>c, <2>1, <2>2 DEF pr, q
<1>10. CASE h # NULL
  <2>1. w = WaiterRemove(waiters[m], h)
    BY <1>10
  <2> HIDE DEF w
  <2>2. w \in Seq(Users) /\ Distinct(w) /\ ToSet(w) = ToSet(waiters[m]) \ {h}
    BY <1>6, <1>7, <1>10, <2>1, WaiterRemoveFacts
  <2>3. h # c
    BY <1>0, <1>1, <1>7, <1>10 DEF WaitersRight, Sleeping, InLock
  <2> QED
    BY <1>1, <1>2, <1>3, <1>5, <1>7, <1>8, <1>10, <1>c, <2>2, <2>3 DEF pr, q
<1> QED
  BY <1>9, <1>10

LEMMA StepUnlock ==
    ASSUME MutexInv, NEW m \in Mutexes, Unlock(m) PROVE MutexInv'
<1>c. PICK c : c = currentTcb
  OBVIOUS
<1>n. PICK n : n = owner'[m]
  OBVIOUS
<1> DEFINE r == Reinherited(m, n, waiters'[m], FALSE, RestoredPrio(m), RestoredList(m))
<1>0. /\ Live(Idle) /\ MutexTypes /\ WaitersRight /\ HandOversRight /\ OwnersRight /\ HoldersOwn
      /\ Users \subseteq Tasks /\ NULL \notin Users
  BY UsersAssumption, ContextsAssumption DEF MutexInv, OwnershipInv
<1>1. c \in Users /\ c \in Tasks /\ c # NULL /\ pc[c] = "run" /\ state[c] = "RUNNING" /\ c \notin Idle
  BY <1>0, <1>c, CallFacts DEF Unlock
<1>2. /\ owner[m] = c /\ m \in holding[c]
      /\ Coherent(RestoredList(m), RestoredPrio(m), state, Tasks)
      /\ owner' = [owner EXCEPT ![m] = n]
      /\ waiters' = [waiters EXCEPT ![m] = waiters'[m]]
      /\ waiters'[m] \in Seq(Users) /\ Distinct(waiters'[m])
      /\ \/ /\ n = NULL
            /\ waiters[m] = <<>> /\ waiters'[m] = <<>> /\ ToSet(waiters'[m]) = {}
            /\ pc' = pc
         \/ /\ n \in ToSet(waiters[m]) /\ n \in Users /\ n # c
            /\ ToSet(waiters'[m]) = ToSet(waiters[m]) \ {n}
            /\ pc' = [pc EXCEPT ![c] = "handing"]
      /\ nextOwner' = [nextOwner EXCEPT ![c] = n]
      /\ Inherit(m, r)
  BY <1>c, <1>n, UnlockFacts
<1>3. arg' = arg /\ holding' = [holding EXCEPT ![c] = @ \ {m}]
  BY <1>c DEF Unlock
<1>4. /\ r.base \in Nat /\ r.boosted \in BOOLEAN
      /\ Coherent(r.ready, r.prio, state, Tasks)
  <2>1. base[m] \in Nat /\ FALSE \in BOOLEAN /\ n \in Users \cup {NULL}
    BY <1>0, <1>2 DEF MutexTypes
  <2>2. r = Reinherited(m, n, waiters'[m], FALSE, RestoredPrio(m), RestoredList(m))
    OBVIOUS
  <2> HIDE DEF r
  <2>3. waiters'[m] \in Seq(Users)
    BY <1>2
  <2> QED
    BY <1>2, <2>1, <2>2, <2>3, ReinheritedFacts
<1> HIDE DEF r
<1>5. /\ base' = [base EXCEPT ![m] = r.base]
      /\ boosted' = [boosted EXCEPT ![m] = r.boosted]
      /\ prio' = r.prio /\ ready' = r.ready
      /\ UNCHANGED <<state, nextTcb, pendsv, ctx, addResult, table, cpuVars>>
      /\ state' = state
  BY <1>2 DEF Inherit
<1>6. Live(Idle)'
  BY <1>0, <1>4, <1>5, LiveReposition
<1>7. MutexTypes'
  <2>1. n \in Users \cup {NULL}
    BY <1>2
  <2>2. owner' \in [Mutexes -> Users \cup {NULL}] /\ waiters' \in [Mutexes -> Seq(Users)]
    <3>1. PICK w \in Seq(Users) : waiters' = [waiters EXCEPT ![m] = w]
      BY <1>2
    <3> QED
      BY <1>0, <1>2, <2>1, <3>1 DEF MutexTypes
  <2>3. base' \in [Mutexes -> Nat] /\ boosted' \in [Mutexes -> BOOLEAN]
    BY <1>0, <1>4, <1>5 DEF MutexTypes
  <2>4. pc' \in [Tasks -> {"run", "toBlock", "asleep", "handing", "sleeping"}]
    BY <1>0, <1>2 DEF MutexTypes
  <2>5. /\ arg' \in [Tasks -> Mutexes \cup {NULL}]
        /\ nextOwner' \in [Tasks -> Users \cup {NULL}]
        /\ holding' \in [Tasks -> SUBSET Mutexes]
    BY <1>0, <1>2, <1>3, <2>1 DEF MutexTypes
  <2> QED
    BY <2>2, <2>3, <2>4, <2>5 DEF MutexTypes
<1>8. /\ owner'[m] = n /\ \A x \in Mutexes \ {m} : owner'[x] = owner[x] /\ waiters'[x] = waiters[x]
      /\ nextOwner'[c] = n /\ \A t \in Tasks \ {c} : nextOwner'[t] = nextOwner[t] /\ pc'[t] = pc[t]
      /\ holding'[c] = holding[c] \ {m} /\ \A t \in Tasks \ {c} : holding'[t] = holding[t]
      /\ n = NULL => pc'[c] = "run"
      /\ n # NULL => pc'[c] = "handing"
  BY <1>0, <1>1, <1>2, <1>3 DEF MutexTypes
<1>9. /\ \A t \in Tasks : (InLock(t)' <=> InLock(t)) /\ (Sleeping(t)' <=> Sleeping(t))
      /\ ~ Sleeping(c) /\ ~ InLock(c)
  <2>1. pc'[c] \in {"run", "handing"}
    BY <1>8
  <2>2. ~ InLock(c) /\ ~ (InLock(c))' /\ ~ Sleeping(c) /\ ~ (Sleeping(c))'
    BY <1>1, <2>1 DEF InLock, Sleeping
  <2>3. \A t \in Tasks \ {c} : pc'[t] = pc[t] /\ state'[t] = state[t]
    BY <1>5, <1>8
  <2>4. \A t \in Tasks \ {c} : (InLock(t)' <=> InLock(t)) /\ (Sleeping(t)' <=> Sleeping(t))
    BY <2>3 DEF InLock, Sleeping
  <2>5. \A t \in Tasks : t = c => (InLock(t)' <=> InLock(t)) /\ (Sleeping(t)' <=> Sleeping(t))
    BY <2>2
  <2> QED
    BY <2>2, <2>4, <2>5
<1>10. n # NULL => /\ n \in Users /\ n \in Tasks /\ n # c /\ n \in ToSet(waiters[m])
                   /\ Sleeping(n) /\ InLock(n) /\ arg[n] = m
                   /\ ToSet(waiters'[m]) = ToSet(waiters[m]) \ {n}
  <2> SUFFICES ASSUME n # NULL
               PROVE  /\ n \in Users /\ n \in Tasks /\ n # c /\ n \in ToSet(waiters[m])
                      /\ Sleeping(n) /\ InLock(n) /\ arg[n] = m
                      /\ ToSet(waiters'[m]) = ToSet(waiters[m]) \ {n}
    OBVIOUS
  <2>1. /\ n \in ToSet(waiters[m]) /\ n \in Users /\ n # c
        /\ ToSet(waiters'[m]) = ToSet(waiters[m]) \ {n}
    BY <1>2
  <2>2. Sleeping(n) /\ arg[n] = m
    BY <1>0, <2>1 DEF WaitersRight
  <2> QED
    BY <1>0, <2>1, <2>2 DEF Sleeping
<1>11. WaitersRight'
  <2> SUFFICES ASSUME NEW x \in Mutexes
               PROVE  /\ Distinct(waiters'[x])
                      /\ \A t \in ToSet(waiters'[x]) : /\ Sleeping(t)' /\ arg'[t] = x
                                                       /\ (owner'[x] = t => x \in holding'[t])
                      /\ waiters'[x] # <<>> => owner'[x] # NULL
    BY DEF WaitersRight
  <2>1. CASE x = m
    <3>1. CASE n = NULL
      BY <1>0, <1>2, <1>8, <2>1, <3>1
    <3>2. CASE n # NULL
      <4>1. \A t \in ToSet(waiters'[m]) : t \in Tasks /\ t # n /\ Sleeping(t) /\ arg[t] = m
        BY <1>0, <1>10, <3>2, WaiterFacts DEF WaitersRight
      <4> QED
        BY <1>2, <1>3, <1>8, <1>9, <2>1, <3>2, <4>1
    <3> QED
      BY <3>1, <3>2
  <2>2. CASE x # m
    <3>1. waiters'[x] = waiters[x] /\ owner'[x] = owner[x] /\ ToSet(waiters[x]) \subseteq Tasks
      BY <1>0, <1>8, <2>2, WaiterFacts
    <3> QED
      BY <1>0, <1>3, <1>9, <3>1 DEF WaitersRight
  <2> QED
    BY <2>1, <2>2
<1>12. HandOversRight'
  <2>1. ASSUME NEW u \in Users \ {c}, pc'[u] = "handing"
        PROVE  /\ nextOwner'[u] \in Users /\ Sleeping(nextOwner[u])'
               /\ owner'[arg'[nextOwner'[u]]] = nextOwner'[u]
               /\ arg'[nextOwner'[u]] \notin holding'[nextOwner'[u]]
               /\ nextOwner'[u] # n
    <3>1. pc[u] = "handing" /\ nextOwner'[u] = nextOwner[u] /\ u \in Tasks
      BY <1>0, <1>8, <2>1
    <3>2. /\ nextOwner[u] \in Users /\ Sleeping(nextOwner[u]) /\ InLock(nextOwner[u])
          /\ owner[arg[nextOwner[u]]] = nextOwner[u]
          /\ arg[nextOwner[u]] \notin holding[nextOwner[u]]
      BY <1>0, <3>1 DEF HandOversRight, Sleeping
    <3>3. nextOwner[u] # c /\ arg[nextOwner[u]] \in Mutexes
      BY <1>0, <1>9, <3>2 DEF OwnersRight
    <3>4. arg[nextOwner[u]] # m
      BY <1>2, <3>2, <3>3
    <3>5. nextOwner[u] # n
      BY <1>0, <1>10, <3>2, <3>4
    <3> QED
      BY <1>0, <1>3, <1>8, <1>9, <3>1, <3>2, <3>3, <3>4, <3>5
  <2>2. ASSUME pc'[c] = "handing"
        PROVE  /\ nextOwner'[c] = n /\ n \in Users /\ Sleeping(n)'
               /\ owner'[arg'[n]] = n /\ arg'[n] \notin holding'[n]
    <3>1. n # NULL
      BY <1>8, <2>2
    <3>2. m \notin holding[n]
      BY <1>2, <1>10, <3>1, <1>0 DEF HoldersOwn
    <3> QED
      BY <1>3, <1>8, <1>9, <1>10, <2>2, <3>1, <3>2
  <2>3. \A u \in Users : pc'[u] = "handing" =>
          /\ nextOwner'[u] \in Users /\ (Sleeping(nextOwner[u]))'
          /\ owner'[arg'[nextOwner'[u]]] = nextOwner'[u]
          /\ arg'[nextOwner'[u]] \notin holding'[nextOwner'[u]]
    <3> SUFFICES ASSUME NEW u \in Users, pc'[u] = "handing"
                 PROVE  /\ nextOwner'[u] \in Users /\ (Sleeping(nextOwner[u]))'
                        /\ owner'[arg'[nextOwner'[u]]] = nextOwner'[u]
                        /\ arg'[nextOwner'[u]] \notin holding'[nextOwner'[u]]
      OBVIOUS
    <3>1. CASE u = c
      <4>1. Sleeping(nextOwner[u])'
        BY <2>2, <3>1 DEF Sleeping, InLock
      <4> QED
        BY <2>2, <3>1, <4>1
    <3>2. CASE u # c
      BY <2>1, <3>2
    <3> QED
      BY <3>1, <3>2
  <2>4. \A u, v \in Users :
          pc'[u] = "handing" /\ pc'[v] = "handing" /\ nextOwner'[u] = nextOwner'[v] => u = v
    <3> SUFFICES ASSUME NEW u \in Users, NEW v \in Users,
                        pc'[u] = "handing", pc'[v] = "handing", nextOwner'[u] = nextOwner'[v]
                 PROVE  u = v
      OBVIOUS
    <3>1. CASE u # c /\ v # c
      BY <1>0, <1>8, <3>1 DEF HandOversRight
    <3>2. CASE u = c /\ v # c
      BY <1>8, <2>1, <3>2
    <3>3. CASE u # c /\ v = c
      BY <1>8, <2>1, <3>3
    <3> QED
      BY <3>1, <3>2, <3>3
  <2> QED
    BY <2>3, <2>4 DEF HandOversRight
<1>13. OwnersRight'
  <2>1. \A t \in Users : InLock(t)' => arg'[t] \in Mutexes
    BY <1>0, <1>3, <1>9 DEF OwnersRight
  <2>2. ASSUME NEW t \in Users, pc'[t] = "asleep", state'[t] # "BLOCKED"
        PROVE  owner'[arg'[t]] = t
    <3>1. t # c /\ t \in Tasks /\ pc[t] = "asleep" /\ state[t] # "BLOCKED"
      BY <1>0, <1>5, <1>8, <2>2
    <3>2. owner[arg[t]] = t /\ arg[t] \in Mutexes
      BY <1>0, <3>1 DEF OwnersRight, InLock
    <3>3. arg[t] # m
      BY <1>2, <3>1, <3>2
    <3> QED
      BY <1>3, <1>8, <3>2, <3>3
  <2>3. ASSUME NEW t \in Users, NEW x \in Mutexes, owner'[x] = t
        PROVE  x \in holding'[t] \/ (InLock(t)' /\ arg'[t] = x)
    <3>1. CASE x = m
      <4>1. t = n /\ n # NULL
        BY <1>0, <1>8, <2>3, <3>1
      <4> QED
        BY <1>3, <1>9, <1>10, <3>1, <4>1
    <3>2. CASE x # m
      <4>1. owner[x] = t /\ t \in Tasks
        BY <1>0, <1>8, <2>3, <3>2
      <4>2. x \in holding[t] \/ (InLock(t) /\ arg[t] = x)
        BY <1>0, <4>1 DEF OwnersRight
      <4> QED
        BY <1>3, <1>8, <1>9, <3>2, <4>1, <4>2
    <3> QED
      BY <3>1, <3>2
  <2>4. \A t \in Idle : pc'[t] = "run"
    BY <1>0, <1>1, <1>8 DEF OwnersRight, Idle
  <2> QED
    BY <2>1, <2>2, <2>3, <2>4 DEF OwnersRight
<1>14. HoldersOwn'
  <2> SUFFICES ASSUME NEW t \in Users, NEW x \in holding'[t] PROVE owner'[x] = t
    BY DEF HoldersOwn
  <2>1. t \in Tasks /\ x \in holding[t] /\ holding[t] \subseteq Mutexes /\ (t = c => x # m)
    BY <1>0, <1>8 DEF MutexTypes
  <2>2. owner[x] = t
    BY <1>0, <2>1 DEF HoldersOwn
  <2>3. x # m
    BY <1>2, <2>1, <2>2
  <2> QED
    BY <1>8, <2>1, <2>2, <2>3
<1> QED
  BY <1>6, <1>7, <1>11, <1>12, <1>13, <1>14 DEF MutexInv, OwnershipInv

LEMMA StepUnlockHandOver ==
    ASSUME MutexInv, UnlockHandOver PROVE MutexInv' /\ prio' = prio /\ pendsv' = pendsv
<1>c. PICK c : c = currentTcb
  OBVIOUS
<1>n. PICK n : n = nextOwner[c]
  OBVIOUS
<1>0. /\ Live(Idle) /\ MutexTypes /\ WaitersRight /\ HandOversRight /\ OwnersRight /\ HoldersOwn
      /\ Users \subseteq Tasks /\ NULL \notin Users
  BY UsersAssumption, ContextsAssumption DEF MutexInv, OwnershipInv
<1>1. c \in Users /\ c \in Tasks /\ pc[c] = "handing" /\ InTask /\ c \notin Idle
  BY <1>0, <1>c, CallFacts DEF UnlockHandOver
<1>2. /\ UnblockOp(n)
      /\ nextOwner' = [nextOwner EXCEPT ![c] = NULL]
      /\ pc' = [pc EXCEPT ![c] = "run"]
      /\ UNCHANGED <<ctx, addResult, table, cpuVars,
                     owner, base, boosted, waiters, arg, holding>>
  BY <1>c, <1>n DEF UnlockHandOver, Goto
<1>3. /\ n \in Users /\ n \in Tasks /\ Sleeping(n) /\ InLock(n)
      /\ owner[arg[n]] = n /\ arg[n] \in Mutexes /\ arg[n] \notin holding[n]
  <2>1. n \in Users /\ Sleeping(n) /\ owner[arg[n]] = n /\ arg[n] \notin holding[n]
    BY <1>0, <1>1, <1>n DEF HandOversRight
  <2> QED
    BY <1>0, <2>1 DEF Sleeping, OwnersRight
<1>4. /\ Live(Idle)' /\ prio' = prio /\ pendsv' = pendsv
      /\ state'[n] # "BLOCKED"
      /\ \A u \in Tasks \ {n} : state'[u] = state[u]
  <2>1. mode' = mode /\ UNCHANGED <<ctx, addResult, table, currentTcb, cpu, starting>>
    BY <1>2 DEF cpuVars
  <2>2. Live(Idle) /\ n \in Tasks /\ UnblockOp(n) /\ InTask
    BY <1>0, <1>1, <1>2, <1>3
  <2>3. /\ Live(Idle)'
        /\ prio' = prio /\ pendsv' = pendsv
        /\ state'[n] # "BLOCKED"
        /\ \A u \in Tasks \ {n} : state'[u] = state[u]
    BY <2>1, <2>2, LiveUnblock
  <2> QED
    BY <2>3
<1>5. MutexTypes'
  BY <1>0, <1>1, <1>2 DEF MutexTypes
<1>6. /\ pc'[c] = "run" /\ \A t \in Tasks \ {c} : pc'[t] = pc[t] /\ nextOwner'[t] = nextOwner[t]
  BY <1>0, <1>1, <1>2 DEF MutexTypes
<1>7. /\ \A t \in Tasks : InLock(t)' <=> InLock(t)
      /\ \A t \in Tasks \ {n} : Sleeping(t)' <=> Sleeping(t)
  <2>1. \A t \in Tasks \ {c} : InLock(t)' <=> InLock(t)
    BY <1>6 DEF InLock
  <2>2. ~ InLock(c) /\ ~ InLock(c)'
    BY <1>1, <1>6 DEF InLock
  <2>3. \A t \in Tasks \ {c, n} : Sleeping(t)' <=> Sleeping(t)
    BY <1>4, <1>6, <2>1 DEF Sleeping
  <2>4. ~ Sleeping(c) /\ ~ Sleeping(c)'
    BY <2>2 DEF Sleeping
  <2> QED
    BY <2>1, <2>2, <2>3, <2>4
<1>8. WaitersRight'
  <2>1. \A m \in Mutexes : ToSet(waiters[m]) \subseteq Tasks \ {n}
    BY <1>0, <1>3, WaiterFacts DEF WaitersRight
  <2> QED
    BY <1>0, <1>2, <1>7, <2>1 DEF WaitersRight
<1>9. HandOversRight'
  <2>1. \A u \in Users : pc'[u] = "handing" => u # c /\ u \in Tasks /\ pc[u] = "handing" /\ nextOwner'[u] = nextOwner[u]
    BY <1>0, <1>6
  <2>2. \A u \in Users : u # c /\ pc[u] = "handing" => nextOwner[u] # n
    BY <1>0, <1>1, <1>n DEF HandOversRight
  <2>3. ASSUME NEW u \in Users, pc'[u] = "handing"
        PROVE  /\ nextOwner'[u] \in Users /\ (Sleeping(nextOwner[u]))'
               /\ owner'[arg'[nextOwner'[u]]] = nextOwner'[u]
               /\ arg'[nextOwner'[u]] \notin holding'[nextOwner'[u]]
    <3>1. /\ nextOwner[u] \in Users /\ Sleeping(nextOwner[u])
          /\ owner[arg[nextOwner[u]]] = nextOwner[u]
          /\ arg[nextOwner[u]] \notin holding[nextOwner[u]]
      BY <1>0, <2>1, <2>3 DEF HandOversRight
    <3>2. PICK x : x = nextOwner[u]
      OBVIOUS
    <3>3. x # n /\ x \in Tasks /\ nextOwner'[u] = x
      BY <1>0, <2>1, <2>2, <2>3, <3>1, <3>2
    <3>4. Sleeping(x)'
      BY <1>7, <3>1, <3>2, <3>3
    <3> QED
      BY <1>2, <3>1, <3>2, <3>3, <3>4
  <2> QED
    BY <1>0, <2>1, <2>3 DEF HandOversRight
<1>10. OwnersRight'
  <2>1. \A t \in Users : InLock(t)' => arg'[t] \in Mutexes
    BY <1>0, <1>2, <1>7 DEF OwnersRight
  <2>2. \A t \in Users : pc'[t] = "asleep" /\ state'[t] # "BLOCKED" => owner'[arg'[t]] = t
    BY <1>0, <1>2, <1>3, <1>4, <1>6 DEF OwnersRight
  <2>3. \A t \in Users, x \in Mutexes :
           owner'[x] = t => x \in holding'[t] \/ (InLock(t)' /\ arg'[t] = x)
    BY <1>0, <1>2, <1>7 DEF OwnersRight
  <2>4. \A t \in Idle : pc'[t] = "run"
    BY <1>0, <1>1, <1>6 DEF OwnersRight, Idle
  <2> QED
    BY <2>1, <2>2, <2>3, <2>4 DEF OwnersRight
<1>11. HoldersOwn'
  BY <1>0, <1>2 DEF HoldersOwn
<1> QED
  BY <1>4, <1>5, <1>8, <1>9, <1>10, <1>11 DEF MutexInv, OwnershipInv

\* The steps that leave owners and waiters alone: sleeping on something else, and
\* what the kernel and the interrupts do.
LEMMA StepAside ==
    ASSUME MutexInv,
           Sleep \/ SleepReturn \/ (\E t \in Sleepers : WakeSleeper(t)) \/ KernelStep
             \/ UNCHANGED mutexAll
    PROVE  MutexInv' /\ prio' = prio
<1>0. Live(Idle) /\ OwnershipInv /\ MutexTypes /\ Users \subseteq Tasks /\ Sleepers \subseteq Tasks
  BY UsersAssumption DEF MutexInv, OwnershipInv
<1>1. CASE Sleep
  <2>c. PICK c : c = currentTcb
    OBVIOUS
  <2>1. c \in Users /\ c \in Tasks /\ pc[c] = "run" /\ c \notin Idle /\ InTask
    BY <1>0, <1>1, <2>c, CallFacts DEF Sleep
  <2>2. /\ BlockCurrentOp(currentTcb)
        /\ pc' = [pc EXCEPT ![c] = "sleeping"]
        /\ UNCHANGED <<ctx, addResult, table, cpuVars,
                       owner, base, boosted, waiters, arg, nextOwner, holding>>
    BY <1>1, <2>c DEF Sleep, Goto
  <2>3. /\ Live(Idle)' /\ prio' = prio
        /\ \A t \in Tasks : state'[t] = "BLOCKED" <=> state[t] = "BLOCKED" \/ t = c
    BY <1>0, <2>1, <2>2, <2>c, LiveBlock
  <2>4. MutexTypes' /\ pc'[c] = "sleeping" /\ \A t \in Tasks \ {c} : pc'[t] = pc[t]
    BY <1>0, <2>1, <2>2 DEF MutexTypes
  <2>5. OwnershipInv'
    BY <1>0, <2>1, <2>2, <2>3, <2>4, KeepOwnership DEF InLock, Idle
  <2> QED
    BY <2>3, <2>5 DEF MutexInv
<1>2. CASE SleepReturn
  <2>c. PICK c : c = currentTcb
    OBVIOUS
  <2>1. c \in Users /\ c \in Tasks /\ pc[c] = "sleeping" /\ c \notin Idle
    BY <1>0, <1>2, <2>c, CallFacts DEF SleepReturn
  <2>2. /\ pc' = [pc EXCEPT ![c] = "run"] /\ state' = state /\ prio' = prio
        /\ UNCHANGED <<vars, owner, base, boosted, waiters, arg, nextOwner, holding>>
    BY <1>2, <2>c DEF SleepReturn, Goto, vars
  <2>3. Live(Idle)'
    BY <1>0, <2>2, LiveStutter
  <2>4. MutexTypes' /\ pc'[c] = "run" /\ \A t \in Tasks \ {c} : pc'[t] = pc[t]
    BY <1>0, <2>1, <2>2 DEF MutexTypes
  <2>5. OwnershipInv'
    BY <1>0, <2>1, <2>2, <2>4, KeepOwnership DEF InLock, Idle
  <2> QED
    BY <2>2, <2>3, <2>5 DEF MutexInv
<1>a. ASSUME UNCHANGED mutexVars PROVE MutexTypes'
  BY <1>0, <1>a DEF MutexTypes, mutexVars
<1>3. ASSUME NEW t \in Sleepers, WakeSleeper(t) PROVE MutexInv' /\ prio' = prio
  <2>1. /\ pc[t] = "sleeping" /\ UnblockOp(t) /\ InIsr /\ mode' = "thread"
        /\ UNCHANGED <<ctx, addResult, table, currentTcb, cpu, starting>>
        /\ UNCHANGED mutexVars
    BY <1>3 DEF WakeSleeper, IsrUnblock
  <2>2. /\ Live(Idle)' /\ prio' = prio
        /\ \A u \in Tasks \ {t} : state'[u] = state[u]
    BY <1>0, <2>1, LiveUnblock
  <2>3. OwnershipInv'
    BY <1>0, <1>a, <2>1, <2>2, KeepOwnership DEF InLock, mutexVars
  <2> QED
    BY <2>2, <2>3 DEF MutexInv
<1>4. CASE KernelStep \/ UNCHANGED mutexAll
  <2>1. UNCHANGED mutexVars
    BY <1>4 DEF KernelStep, mutexAll
  <2>2. Live(Idle)' /\ SameSleepers
    BY <1>0, <1>4, LiveSchedule, LivePendSV, LiveIsrReturn, LiveStutter DEF KernelStep, mutexAll
  <2>3. OwnershipInv'
    BY <1>0, <1>a, <2>1, <2>2, KeepOwnership DEF InLock, mutexVars, SameSleepers
  <2> QED
    BY <2>2, <2>3 DEF MutexInv, SameSleepers
<1> QED
  BY <1>1, <1>2, <1>3, <1>4

LEMMA StepMutexInv == MutexInv /\ [MutexNext]_mutexAll => MutexInv'
<1> SUFFICES ASSUME MutexInv, [MutexNext]_mutexAll PROVE MutexInv'
  OBVIOUS
<1>1. ASSUME NEW m \in Mutexes, LockFree(m) \/ LockRegister(m) \/ Unlock(m) PROVE MutexInv'
  BY <1>1, StepLockFree, StepLockRegister, StepUnlock
<1>2. CASE LockBlock \/ LockReturn \/ UnlockHandOver
  BY <1>2, StepLockBlock, StepLockReturn, StepUnlockHandOver
<1>3. CASE Sleep \/ SleepReturn \/ (\E t \in Sleepers : WakeSleeper(t)) \/ KernelStep
             \/ UNCHANGED mutexAll
  BY <1>3, StepAside
<1> QED
  BY <1>1, <1>2, <1>3 DEF MutexNext

\* The inductive invariant of any number of mutexes holds of every behaviour.
THEOREM MutexInvariant == MutexSpec => []MutexInv
<1>1. MutexInit => MutexInv
  BY InitMutexInv
<1> QED
  BY <1>1, StepMutexInv, PTL DEF MutexSpec

\* A task to which lock returned owns that mutex until it unlocks it: no other locker
\* takes it between an unlock that passes it on and the new owner's return, for any
\* number of mutexes and users, nested as they like.
THEOREM HoldersOwnCorrect == MutexSpec => []HoldersOwn
BY MutexInvariant, PTL DEF MutexInv, OwnershipInv

\* The kernel's own inductive invariant holds under the mutexes, whose inheritance moves
\* priorities and ready list places that the kernel's actions alone do not.
THEOREM KernelUnderMutex == MutexSpec => []KernelInv
BY MutexInvariant, PTL DEF MutexInv, Live
-----------------------------------------------------------------------------
(***************************************************************************)
(* Priority inheritance, for any number of mutexes that nobody nests: with *)
(* nested ones the code gives back a boost that another mutex still needs. *)
(***************************************************************************)

\* Nobody owns one mutex while it owns another or is in the lock of another.
NoNesting ==
    \A t \in Users, x, y \in Mutexes :
        owner[x] = t /\ (owner[y] = t \/ (InLock(t) /\ arg[t] = y)) => x = y

\* A boosted mutex remembers its owner's own priority.
BasesRight ==
    \A m \in Mutexes : boosted[m] => owner[m] # NULL /\ base[m] = BasePrio[owner[m]]

\* Who runs above its own priority owns a boosted mutex.
BoostsRight ==
    \A t \in Tasks : prio[t] # BasePrio[t] => \E m \in Mutexes : owner[m] = t /\ boosted[m]

BoostInv == BasesRight /\ BoostsRight /\ OwnersBoosted

\* A step that moves neither priorities nor mutexes.
LEMMA KeepBoosts ==
    ASSUME BoostInv, UNCHANGED <<prio, owner, base, boosted, waiters>>
    PROVE  BoostInv'
BY DEF BoostInv, BasesRight, BoostsRight, OwnersBoosted

\* An owner whose one mutex is not boosted runs at its own priority.
LEMMA OwnPriority ==
    ASSUME BoostInv, NoNesting, NEW m \in Mutexes, NEW t \in Users, ~ boosted[m],
           owner[m] = t \/ (InLock(t) /\ arg[t] = m /\ owner[m] # t)
    PROVE  prio[t] = BasePrio[t]
<1>1. ASSUME prio[t] # BasePrio[t] PROVE FALSE
  <2>1. PICK x \in Mutexes : owner[x] = t /\ boosted[x]
    BY <1>1, UsersAssumption DEF BoostInv, BoostsRight
  <2>2. x = m
    BY <2>1 DEF NoNesting
  <2> QED
    BY <2>1, <2>2
<1> QED
  BY <1>1

LEMMA BoostLockFree ==
    ASSUME MutexInv, BoostInv, NEW m \in Mutexes, LockFree(m) PROVE BoostInv'
<1>c. PICK c : c = currentTcb
  OBVIOUS
<1>0. MutexTypes /\ WaitersRight /\ BasesRight /\ BoostsRight /\ OwnersBoosted
  BY DEF MutexInv, OwnershipInv, BoostInv
<1>1. /\ owner[m] = NULL
      /\ owner' = [owner EXCEPT ![m] = c]
      /\ boosted' = [boosted EXCEPT ![m] = FALSE]
      /\ UNCHANGED <<vars, base, waiters>>
      /\ prio' = prio
  BY <1>c DEF LockFree, vars
<1>2. /\ owner'[m] = c /\ boosted'[m] = FALSE
      /\ \A x \in Mutexes \ {m} : owner'[x] = owner[x] /\ boosted'[x] = boosted[x]
  BY <1>0, <1>1 DEF MutexTypes
<1>3. BasesRight'
  BY <1>0, <1>1, <1>2 DEF BasesRight
<1>4. BoostsRight'
  <2> SUFFICES ASSUME NEW t \in Tasks, prio'[t] # BasePrio[t]
               PROVE  \E x \in Mutexes : owner'[x] = t /\ boosted'[x]
    BY DEF BoostsRight
  <2>1. PICK x \in Mutexes : owner[x] = t /\ boosted[x]
    BY <1>0, <1>1 DEF BoostsRight
  <2>2. x # m
    BY <1>1, <2>1, ContextsAssumption
  <2> QED
    BY <1>2, <2>1, <2>2
<1>5. OwnersBoosted'
  <2>1. ToSet(waiters[m]) = {}
    BY <1>0, <1>1, WaiterFacts DEF WaitersRight
  <2> QED
    BY <1>0, <1>1, <1>2, <2>1 DEF OwnersBoosted
<1> QED
  BY <1>3, <1>4, <1>5 DEF BoostInv

LEMMA BoostLockRegister ==
    ASSUME MutexInv, BoostInv, NoNesting, NEW m \in Mutexes, LockRegister(m) PROVE BoostInv'
<1>c. PICK c : c = currentTcb
  OBVIOUS
<1>o. PICK o : o = owner[m]
  OBVIOUS
<1>b. PICK b : b = boosted[m]
  OBVIOUS
<1>w. PICK w : w = waiters'[m]
  OBVIOUS
<1>r. PICK r : r = Reinherited(m, o, w, b, prio, ready)
  OBVIOUS
<1>0. /\ Live(Idle) /\ MutexTypes /\ WaitersRight
      /\ BasesRight /\ BoostsRight /\ OwnersBoosted
      /\ Users \subseteq Tasks /\ NULL \notin Users
      /\ Coherent(ready, prio, state, Tasks) /\ prio \in [Tasks -> Nat]
  BY UsersAssumption, ContextsAssumption, LiveFacts DEF MutexInv, OwnershipInv, BoostInv
<1>1. /\ o \in Users /\ o # NULL
      /\ w \in Seq(Users)
      /\ waiters' = [waiters EXCEPT ![m] = w]
      /\ ToSet(w) \subseteq ToSet(waiters[m]) \cup {c}
      /\ Inherit(m, r)
      /\ owner' = owner
  BY <1>0, <1>b, <1>c, <1>o, <1>r, <1>w, RegisterFacts DEF LockRegister
<1>2. b \in BOOLEAN /\ base[m] \in Nat
  BY <1>0, <1>b DEF MutexTypes
<1>3. /\ r.boosted \in BOOLEAN
      /\ \A t \in Tasks : t # o => r.prio[t] = prio[t]
      /\ r.prio[o] # prio[o] => r.boosted = TRUE
      /\ \A t \in ToSet(w) : r.prio[t] <= r.prio[o]
  <2>1. o \in Users \cup {NULL}
    BY <1>1
  <2>2. /\ r.boosted \in BOOLEAN
        /\ o # NULL => \A t \in ToSet(w) : r.prio[t] <= r.prio[o]
    BY <1>0, <1>1, <1>2, <1>r, <2>1, ReinheritedFacts
  <2>3. r.prio[o] # prio[o] => r.boosted = TRUE
    BY <1>r DEF Reinherited
  <2>4. \A t \in Tasks : t # o => r.prio[t] = prio[t]
    BY <1>0, <1>r DEF Reinherited
  <2> QED
    BY <1>1, <1>2, <2>2, <2>3, <2>4
<1>4. b = TRUE => r.boosted = TRUE /\ r.base = base[m]
  BY <1>r DEF Reinherited
<1>5. b = FALSE /\ r.boosted = TRUE => r.base = prio[o]
  BY <1>r DEF Reinherited
<1>6. /\ prio' = r.prio
      /\ base' = [base EXCEPT ![m] = r.base] /\ boosted' = [boosted EXCEPT ![m] = r.boosted]
  BY <1>1 DEF Inherit
<1>7. /\ base'[m] = r.base /\ boosted'[m] = r.boosted
      /\ \A x \in Mutexes \ {m} :
            base'[x] = base[x] /\ boosted'[x] = boosted[x] /\ waiters'[x] = waiters[x]
  BY <1>0, <1>1, <1>6 DEF MutexTypes
<1>8. b = FALSE => prio[o] = BasePrio[o]
  BY <1>1, <1>b, <1>o, OwnPriority
<1>9. BasesRight'
  <2>1. boosted'[m] => owner'[m] # NULL /\ base'[m] = BasePrio[owner'[m]]
    <3>1. CASE b = TRUE
      BY <1>0, <1>1, <1>4, <1>7, <1>b, <1>o, <3>1 DEF BasesRight
    <3>2. CASE b = FALSE
      BY <1>1, <1>3, <1>5, <1>7, <1>8, <1>o, <3>2
    <3> QED
      BY <1>2, <3>1, <3>2
  <2> QED
    BY <1>0, <1>1, <1>7, <2>1 DEF BasesRight
<1>10. BoostsRight'
  <2> SUFFICES ASSUME NEW t \in Tasks, prio'[t] # BasePrio[t]
               PROVE  \E x \in Mutexes : owner'[x] = t /\ boosted'[x]
    BY DEF BoostsRight
  <2>1. CASE t = o
    <3>1. r.boosted = TRUE
      BY <1>2, <1>3, <1>4, <1>6, <1>8, <2>1
    <3> QED
      BY <1>1, <1>7, <1>o, <2>1, <3>1
  <2>2. CASE t # o
    <3>1. prio[t] # BasePrio[t]
      BY <1>3, <1>6, <2>2
    <3>2. PICK x \in Mutexes : owner[x] = t /\ boosted[x]
      BY <1>0, <3>1 DEF BoostsRight
    <3>3. x # m
      BY <1>o, <2>2, <3>2
    <3> QED
      BY <1>1, <1>7, <3>2, <3>3
  <2> QED
    BY <2>1, <2>2
<1>11. OwnersBoosted'
  <2> SUFFICES ASSUME NEW x \in Mutexes, owner'[x] # NULL, NEW t \in ToSet(waiters'[x])
               PROVE  prio'[t] <= prio'[owner'[x]]
    BY DEF OwnersBoosted
  <2>1. CASE x = m
    BY <1>1, <1>3, <1>6, <1>o, <1>w, <2>1
  <2>2. CASE x # m
    <3>1. waiters'[x] = waiters[x] /\ owner'[x] = owner[x]
      BY <1>1, <1>7, <2>2
    <3>2. t \in Users /\ InLock(t) /\ arg[t] = x /\ prio[t] <= prio[owner[x]]
      BY <1>0, <3>1, WaiterFacts DEF WaitersRight, Sleeping, OwnersBoosted
    <3>3. t # o /\ owner[x] # o
      BY <1>1, <1>o, <2>2, <3>2 DEF NoNesting
    <3>4. owner[x] \in Tasks /\ t \in Tasks
      BY <1>0, <3>1, <3>2 DEF MutexTypes
    <3> QED
      BY <1>3, <1>6, <3>1, <3>2, <3>3, <3>4
  <2> QED
    BY <2>1, <2>2
<1> QED
  BY <1>9, <1>10, <1>11 DEF BoostInv

LEMMA BoostUnlock ==
    ASSUME MutexInv, BoostInv, NoNesting, NEW m \in Mutexes, Unlock(m) PROVE BoostInv'
<1>c. PICK c : c = currentTcb
  OBVIOUS
<1>n. PICK n : n = owner'[m]
  OBVIOUS
<1>w. PICK w : w = waiters'[m]
  OBVIOUS
<1>p. PICK pr : pr = RestoredPrio(m)
  OBVIOUS
<1>q. PICK q : q = RestoredList(m)
  OBVIOUS
<1>r. PICK r : r = Reinherited(m, n, w, FALSE, pr, q)
  OBVIOUS
<1>0. /\ Live(Idle) /\ MutexTypes /\ WaitersRight
      /\ BasesRight /\ BoostsRight /\ OwnersBoosted
      /\ Users \subseteq Tasks /\ NULL \notin Users /\ NULL \notin Tasks
      /\ prio \in [Tasks -> Nat]
  BY UsersAssumption, ContextsAssumption, LiveFacts DEF MutexInv, OwnershipInv, BoostInv
<1>1. c \in Users /\ c \in Tasks /\ pc[c] = "run"
  BY <1>0, <1>c, CallFacts DEF Unlock
<1>2. /\ owner[m] = c
      /\ Coherent(q, pr, state, Tasks)
      /\ owner' = [owner EXCEPT ![m] = n]
      /\ waiters' = [waiters EXCEPT ![m] = w]
      /\ w \in Seq(Users)
      /\ \/ n = NULL /\ ToSet(w) = {}
         \/ /\ n \in ToSet(waiters[m]) /\ n \in Users /\ n # c
            /\ ToSet(w) = ToSet(waiters[m]) \ {n}
      /\ Inherit(m, r)
  BY <1>c, <1>n, <1>p, <1>q, <1>r, <1>w, UnlockFacts
<1>3. pr \in [Tasks -> Nat] /\ base[m] \in Nat /\ boosted[m] \in BOOLEAN
  BY <1>0, <1>2 DEF Coherent, MutexTypes
<1>4. pr[c] = BasePrio[c] /\ \A t \in Tasks \ {c} : pr[t] = prio[t]
  <2>1. CASE boosted[m]
    <3>1. pr = [prio EXCEPT ![c] = base[m]] /\ base[m] = BasePrio[c]
      BY <1>0, <1>2, <1>p, <2>1 DEF RestoredPrio, BasesRight
    <3> QED
      BY <1>0, <1>1, <3>1
  <2>2. CASE ~ boosted[m]
    <3>1. pr = prio
      BY <1>p, <2>2 DEF RestoredPrio
    <3>2. prio[c] = BasePrio[c]
      BY <1>1, <1>2, <2>2, OwnPriority
    <3> QED
      BY <3>1, <3>2
  <2> QED
    BY <2>1, <2>2
<1>5. /\ \A t \in Tasks : t # n => r.prio[t] = pr[t]
      /\ r.prio[n] # pr[n] => r.boosted = TRUE
      /\ r.boosted = TRUE => n # NULL /\ r.base = pr[n]
      /\ r.boosted \in BOOLEAN
  BY <1>3, <1>r DEF Reinherited
<1>6. n # NULL => \A t \in ToSet(w) : r.prio[t] <= r.prio[n]
  <2>1. n \in Users \cup {NULL} /\ FALSE \in BOOLEAN
    BY <1>2
  <2>2. n # NULL => \A t \in ToSet(w) : r.prio[t] <= r.prio[n]
    BY <1>2, <1>3, <1>r, <2>1, ReinheritedFacts
  <2> QED
    BY <1>2, <2>2
<1>7. /\ prio' = r.prio
      /\ base' = [base EXCEPT ![m] = r.base] /\ boosted' = [boosted EXCEPT ![m] = r.boosted]
  BY <1>2 DEF Inherit
<1>8. /\ base'[m] = r.base /\ boosted'[m] = r.boosted
      /\ \A x \in Mutexes \ {m} : /\ base'[x] = base[x] /\ boosted'[x] = boosted[x]
                                  /\ waiters'[x] = waiters[x] /\ owner'[x] = owner[x]
  BY <1>0, <1>2, <1>7 DEF MutexTypes
<1>9. n # NULL => n \in Users /\ n \in Tasks /\ n # c /\ InLock(n) /\ arg[n] = m /\ pr[n] = BasePrio[n]
  <2> SUFFICES ASSUME n # NULL
               PROVE  /\ n \in Users /\ n \in Tasks /\ n # c
                      /\ InLock(n) /\ arg[n] = m /\ pr[n] = BasePrio[n]
    OBVIOUS
  <2>1. n \in ToSet(waiters[m]) /\ n \in Users /\ n # c /\ n \in Tasks
    BY <1>0, <1>2
  <2>2. InLock(n) /\ arg[n] = m
    BY <1>0, <2>1 DEF WaitersRight, Sleeping
  <2>3. prio[n] = BasePrio[n]
    <3>1. ASSUME prio[n] # BasePrio[n] PROVE FALSE
      <4>1. PICK x \in Mutexes : owner[x] = n
        BY <1>0, <2>1, <3>1 DEF BoostsRight
      <4>2. x = m
        BY <2>1, <2>2, <4>1 DEF NoNesting
      <4> QED
        BY <1>2, <2>1, <4>1, <4>2
    <3> QED
      BY <3>1
  <2> QED
    BY <1>4, <2>1, <2>2, <2>3
<1>10. BasesRight'
  <2>1. boosted'[m] => owner'[m] # NULL /\ base'[m] = BasePrio[owner'[m]]
    BY <1>5, <1>8, <1>9, <1>n
  <2> QED
    BY <1>0, <1>8, <2>1 DEF BasesRight
<1>11. BoostsRight'
  <2> SUFFICES ASSUME NEW t \in Tasks, prio'[t] # BasePrio[t]
               PROVE  \E x \in Mutexes : owner'[x] = t /\ boosted'[x]
    BY DEF BoostsRight
  <2>1. CASE t = n
    <3>1. n # NULL
      BY <1>0, <2>1
    <3>2. r.boosted = TRUE
      BY <1>5, <1>7, <1>9, <2>1, <3>1
    <3> QED
      BY <1>8, <1>n, <2>1, <3>2
  <2>2. CASE t # n
    <3>1. t # c /\ prio[t] # BasePrio[t]
      BY <1>4, <1>5, <1>7, <2>2
    <3>2. PICK x \in Mutexes : owner[x] = t /\ boosted[x]
      BY <1>0, <3>1 DEF BoostsRight
    <3>3. x # m
      BY <1>2, <3>1, <3>2
    <3> QED
      BY <1>8, <3>2, <3>3
  <2> QED
    BY <2>1, <2>2
<1>12. OwnersBoosted'
  <2> SUFFICES ASSUME NEW x \in Mutexes, owner'[x] # NULL, NEW t \in ToSet(waiters'[x])
               PROVE  prio'[t] <= prio'[owner'[x]]
    BY DEF OwnersBoosted
  <2>1. CASE x = m
    BY <1>6, <1>7, <1>n, <1>w, <2>1
  <2>2. CASE x # m
    <3>1. waiters'[x] = waiters[x] /\ owner'[x] = owner[x]
      BY <1>8, <2>2
    <3>2. t \in Users /\ InLock(t) /\ arg[t] = x /\ prio[t] <= prio[owner[x]]
      BY <1>0, <3>1, WaiterFacts DEF WaitersRight, Sleeping, OwnersBoosted
    <3>3. t # c
      BY <1>1, <3>2 DEF InLock
    <3>4. t # n
      BY <1>0, <1>9, <2>2, <3>2
    <3>5. owner[x] # c
      BY <1>1, <1>2, <2>2 DEF NoNesting
    <3>6. owner[x] # n
      <4>1. ASSUME owner[x] = n PROVE FALSE
        <5>1. n # NULL
          BY <3>1, <4>1
        <5>2. x = m
          BY <1>9, <4>1, <5>1 DEF NoNesting
        <5> QED
          BY <2>2, <5>2
      <4> QED
        BY <4>1
    <3>7. owner[x] \in Tasks /\ t \in Tasks
      BY <1>0, <3>1, <3>2 DEF MutexTypes
    <3> QED
      BY <1>4, <1>5, <1>7, <3>1, <3>2, <3>3, <3>4, <3>5, <3>6, <3>7
  <2> QED
    BY <2>1, <2>2
<1> QED
  BY <1>10, <1>11, <1>12 DEF BoostInv

LEMMA StepBoostInv == MutexInv /\ NoNesting /\ BoostInv /\ [MutexNext]_mutexAll => BoostInv'
<1> SUFFICES ASSUME MutexInv, NoNesting, BoostInv, [MutexNext]_mutexAll PROVE BoostInv'
  OBVIOUS
<1>1. ASSUME NEW m \in Mutexes, LockFree(m) \/ LockRegister(m) \/ Unlock(m) PROVE BoostInv'
  BY <1>1, BoostLockFree, BoostLockRegister, BoostUnlock
<1>2. CASE LockBlock \/ LockReturn \/ UnlockHandOver
  <2>1. prio' = prio
    BY <1>2, StepLockBlock, StepLockReturn, StepUnlockHandOver
  <2>2. UNCHANGED <<owner, base, boosted, waiters>>
    BY <1>2 DEF LockBlock, LockReturn, UnlockHandOver
  <2> QED
    BY <2>1, <2>2, KeepBoosts
<1>3. CASE Sleep \/ SleepReturn \/ (\E t \in Sleepers : WakeSleeper(t)) \/ KernelStep
             \/ UNCHANGED mutexAll
  <2>1. prio' = prio
    BY <1>3, StepAside
  <2>2. UNCHANGED <<owner, base, boosted, waiters>>
    BY <1>3 DEF Sleep, SleepReturn, WakeSleeper, KernelStep, mutexAll, mutexVars
  <2> QED
    BY <2>1, <2>2, KeepBoosts
<1> QED
  BY <1>1, <1>2, <1>3 DEF MutexNext

LEMMA InitBoostInv == MutexInit => BoostInv
<1> SUFFICES ASSUME MutexInit PROVE BoostInv
  OBVIOUS
<1>1. prio = BasePrio /\ MutexInv
  BY InitMutexInv
<1>2. \A m \in Mutexes : owner[m] = NULL /\ boosted[m] = FALSE
  BY DEF MutexInit
<1> QED
  BY <1>1, <1>2 DEF BoostInv, BasesRight, BoostsRight, OwnersBoosted

LEMMA BoostsAreRight == MutexInv /\ BoostInv => PrioritiesRight
<1> SUFFICES ASSUME MutexInv, BoostInv PROVE PrioritiesRight
  OBVIOUS
<1>1. MutexTypeOK
  <2>1. TypeOK
    BY DEF MutexInv, Live, KernelInv
  <2> QED
    BY <2>1 DEF MutexInv, OwnershipInv, MutexTypes, MutexTypeOK
<1>2. OwnersBoosted
  BY DEF BoostInv
<1>3. BaseRestored
  BY UsersAssumption DEF BoostInv, BoostsRight, BaseRestored
<1> QED
  BY <1>1, <1>2, <1>3 DEF PrioritiesRight

\* As long as nobody nests mutexes, of which there may be any number: an owner is never
\* below a task that waits for it, and whoever runs above its own priority owns a mutex.
THEOREM PrioritiesRightUnnested == MutexSpec /\ []NoNesting => []PrioritiesRight
<1>1. MutexInit => BoostInv
  BY InitBoostInv
<1>2. MutexSpec => []MutexInv
  BY MutexInvariant
<1> QED
  BY <1>1, <1>2, StepBoostInv, BoostsAreRight, PTL DEF MutexSpec

\* A mutex that is the only one is never nested: its inheritance is right whatever its
\* users do.
THEOREM PrioritiesRightCorrect ==
    ASSUME NEW m, Mutexes = {m} PROVE MutexSpec => []PrioritiesRight
<1>1. NoNesting
  BY DEF NoNesting
<1>2. MutexInit => BoostInv
  BY InitBoostInv
<1>3. MutexInv /\ BoostInv /\ [MutexNext]_mutexAll => BoostInv'
  BY <1>1, StepBoostInv
<1>4. MutexSpec => []MutexInv
  BY MutexInvariant
<1> QED
  BY <1>2, <1>3, <1>4, BoostsAreRight, PTL DEF MutexSpec
-----------------------------------------------------------------------------
(***************************************************************************)
(* What the scheduler does with the inherited priorities.                  *)
(***************************************************************************)

\* The steps that switch are steps of the kernel.
LEMMA SwitchesAreTheKernels ==
    ASSUME MutexNext
    PROVE  Next \/ UNCHANGED vars \/ (pendsv' = pendsv /\ currentTcb' = currentTcb)
<1>1. ASSUME NEW m \in Mutexes, LockFree(m) \/ LockRegister(m) \/ Unlock(m)
      PROVE  pendsv' = pendsv /\ currentTcb' = currentTcb
  <2>1. CASE LockFree(m)
    BY <2>1 DEF LockFree, vars
  <2>2. CASE LockRegister(m)
    BY <2>2 DEF LockRegister, Inherit, cpuVars
  <2>3. CASE Unlock(m)
    BY <2>3 DEF Unlock, Inherit, cpuVars
  <2> QED
    BY <1>1, <2>1, <2>2, <2>3
<1>2. CASE LockBlock \/ Sleep
  BY <1>2 DEF LockBlock, Sleep, Calls, Next, BlockCurrent
<1>3. CASE LockReturn \/ SleepReturn
  BY <1>3 DEF LockReturn, SleepReturn
<1>4. CASE UnlockHandOver
  BY <1>4 DEF UnlockHandOver, UnblockOp, cpuVars
<1>5. ASSUME NEW t \in Sleepers, WakeSleeper(t) PROVE Next
  BY <1>5, UsersAssumption DEF WakeSleeper, Next
<1>6. CASE KernelStep
  BY <1>6 DEF KernelStep, Next
<1> QED
  BY <1>1, <1>2, <1>3, <1>4, <1>5, <1>6 DEF MutexNext

LEMMA StepMutexDispatch == MutexInv /\ [MutexNext]_mutexAll => [DispatchStep]_vars
<1> SUFFICES ASSUME MutexInv, MutexNext PROVE [DispatchStep]_vars
  BY DEF mutexAll
<1>1. KernelInv
  BY DEF MutexInv, Live
<1>2. CASE Next \/ UNCHANGED vars
  BY <1>1, <1>2, StepDispatch
<1>3. CASE pendsv' = pendsv /\ currentTcb' = currentTcb
  BY <1>3 DEF DispatchStep
<1> QED
  BY <1>2, <1>3, SwitchesAreTheKernels

\* No decision of the scheduler passes over a ready task of higher priority, an owner's
\* inherited priority included.
THEOREM DispatchUnderMutex == MutexSpec => DispatchesHighest
BY MutexInvariant, StepMutexDispatch, PTL DEF MutexSpec, DispatchesHighest

\* The step of NoInversion.
InversionStep ==
    ~pendsv /\ pendsv' =>
      \A m \in Mutexes : \A t \in ToSet(waiters'[m]) :
          state'[owner'[m]] = "READY" => prio'[t] <= prio'[nextTcb']

LEMMA StepNoInversion ==
    MutexInv /\ MutexInv' /\ BoostInv' /\ [MutexNext]_mutexAll => [InversionStep]_mutexAll
<1> SUFFICES ASSUME MutexInv, MutexInv', BoostInv', MutexNext, ~pendsv, pendsv',
                    NEW m \in Mutexes, NEW t \in ToSet(waiters'[m]),
                    state'[owner'[m]] = "READY"
             PROVE  prio'[t] <= prio'[nextTcb']
  BY DEF InversionStep
<1>1. \A i \in 1 .. Len(ready') : prio'[ready'[i]] <= prio'[nextTcb']
  <2>1. DispatchStep
    BY StepMutexDispatch DEF vars
  <2> QED
    BY <2>1 DEF DispatchStep
<1>2. /\ Live(Idle)' /\ MutexTypes' /\ WaitersRight' /\ OwnersBoosted'
      /\ Users \subseteq Tasks
  BY UsersAssumption DEF MutexInv, OwnershipInv, BoostInv
<1>3. /\ owner'[m] # NULL /\ owner'[m] \in Tasks /\ t \in Tasks
      /\ prio'[t] <= prio'[owner'[m]]
  <2>1. waiters'[m] \in Seq(Users) /\ ToSet(waiters'[m]) \subseteq Users /\ waiters'[m] # <<>>
    <3>1. waiters'[m] \in Seq(Users)
      BY <1>2 DEF MutexTypes
    <3> QED
      BY <3>1, ToSetFacts
  <2>2. owner'[m] # NULL
    BY <1>2, <2>1 DEF WaitersRight
  <2> QED
    BY <1>2, <2>1, <2>2 DEF OwnersBoosted, MutexTypes
<1>4. PICK i \in 1 .. Len(ready') : ready'[i] = owner'[m]
  <2>1. KernelInv' /\ table' = Tasks
    BY <1>2 DEF Live
  <2>2. ready' \in Seq(Tasks) /\ Contains(ready', owner'[m])
    BY <1>3, <2>1 DEF KernelInv, ReadyListExact, Exact, TypeOK
  <2> QED
    BY <2>2 DEF Contains
<1>5. /\ prio' \in [Tasks -> Nat] /\ nextTcb' \in Tasks
  BY <1>2, LiveFacts DEF Live, KernelInv, TypeOK, OneRunner
<1>6. prio'[owner'[m]] <= prio'[nextTcb']
  BY <1>1, <1>4
<1> QED
  BY <1>3, <1>5, <1>6

\* Inversion stays bounded: while a task waits for a mutex whose owner is ready to run,
\* the scheduler switches to nobody below the waiter, as long as nobody nests mutexes.
THEOREM NoInversionUnnested == MutexSpec /\ []NoNesting => NoInversion
<1>1. MutexInit => BoostInv
  BY InitBoostInv
<1>2. MutexSpec => []MutexInv
  BY MutexInvariant
<1>3. MutexInv /\ MutexInv' /\ BoostInv' /\ [MutexNext]_mutexAll => [InversionStep]_mutexAll
  BY StepNoInversion
<1> QED
  BY <1>1, <1>2, <1>3, StepBoostInv, PTL DEF MutexSpec, NoInversion, InversionStep

\* A mutex that is the only one never lets an inversion last.
THEOREM NoInversionCorrect ==
    ASSUME NEW m, Mutexes = {m} PROVE MutexSpec => NoInversion
<1>1. NoNesting
  BY DEF NoNesting
<1>2. MutexInit => BoostInv
  BY InitBoostInv
<1>3. MutexInv /\ BoostInv /\ [MutexNext]_mutexAll => BoostInv'
  BY <1>1, StepBoostInv
<1>4. MutexSpec => []MutexInv
  BY MutexInvariant
<1>5. MutexInv /\ MutexInv' /\ BoostInv' /\ [MutexNext]_mutexAll => [InversionStep]_mutexAll
  BY StepNoInversion
<1> QED
  BY <1>2, <1>3, <1>4, <1>5, PTL DEF MutexSpec, NoInversion, InversionStep
=============================================================================
