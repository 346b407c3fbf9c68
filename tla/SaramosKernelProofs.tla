------------------------ MODULE SaramosKernelProofs ------------------------
(***************************************************************************)
(* The scheduler's invariants as theorems, checked by TLAPS: first lemmas  *)
(* about the ready list, then the actions.                                 *)
(***************************************************************************)
EXTENDS SaramosKernel, ListProofs
-----------------------------------------------------------------------------
(***************************************************************************)
(* The ready list.                                                         *)
(***************************************************************************)

\* A list the kernel can hold: tasks, each at most once, in priority order.
GoodList(q, pr) ==
    /\ q \in Seq(Tasks)
    /\ \A i, j \in 1 .. Len(q) : q[i] = q[j] => i = j
    /\ SortedBy(q, pr)

\* The insertion position separates the elements of at least the task's
\* priority from the first one below it.
LEMMA InsertPosProperties ==
    ASSUME NEW q \in Seq(Tasks), NEW pr \in [Tasks -> Nat], NEW t \in Tasks
    PROVE  /\ InsertPos(q, pr, t) \in 1 .. Len(q) + 1
           /\ \A i \in 1 .. Len(q) : i < InsertPos(q, pr, t) => pr[q[i]] >= pr[t]
           /\ InsertPos(q, pr, t) <= Len(q) => pr[q[InsertPos(q, pr, t)]] < pr[t]
<1> DEFINE P == {i \in 1 .. Len(q) + 1 : i = Len(q) + 1 \/ pr[q[i]] < pr[t]}
           m == Min(P)
<1>1. /\ Len(q) \in Nat
      /\ \A i \in 1 .. Len(q) : q[i] \in Tasks /\ pr[q[i]] \in Nat
  BY LenProperties, ElementOfSeq
<1>2. P \in SUBSET Nat /\ Len(q) + 1 \in P
  BY <1>1
<1>3. m \in P /\ \A y \in P : m <= y
  <2> HIDE DEF P
  <2> QED
    BY <1>2, MinOfNats
<1>4. InsertPos(q, pr, t) = m
  BY DEF InsertPos
<1> HIDE DEF m
<1>5. m \in 1 .. Len(q) + 1 /\ (m = Len(q) + 1 \/ pr[q[m]] < pr[t])
  BY <1>3
<1>6. ASSUME NEW i \in 1 .. Len(q), i < m
      PROVE  pr[q[i]] >= pr[t]
  <2>1. i \in P => m <= i
    BY <1>3
  <2>2. i \in 1 .. Len(q) + 1 /\ ~ (m <= i)
    BY <1>1, <1>5, <1>6
  <2>3. ~ (pr[q[i]] < pr[t])
    BY <2>1, <2>2
  <2> QED
    BY <1>1, <2>3
<1>7. m <= Len(q) => pr[q[m]] < pr[t]
  BY <1>1, <1>5
<1> QED
  BY <1>4, <1>5, <1>6, <1>7

\* Inserting a task that is not listed keeps the list good and adds it.
LEMMA ReadyInsertProperties ==
    ASSUME NEW q, NEW pr \in [Tasks -> Nat], NEW t \in Tasks,
           GoodList(q, pr)
    PROVE  /\ GoodList(ReadyInsert(q, pr, t), pr)
           /\ \A u : Contains(ReadyInsert(q, pr, t), u) <=> Contains(q, u) \/ u = t
<1>1. CASE Contains(q, t)
  BY <1>1 DEF ReadyInsert
<1>2. CASE ~ Contains(q, t)
  <2> DEFINE k == InsertPos(q, pr, t)
             r == InsertAt(q, k, t)
  <2>1. /\ q \in Seq(Tasks)
        /\ Len(q) \in Nat
        /\ \A i \in 1 .. Len(q) : q[i] \in Tasks /\ pr[q[i]] \in Nat
        /\ \A i, j \in 1 .. Len(q) : q[i] = q[j] => i = j
        /\ \A i, j \in 1 .. Len(q) : i < j => pr[q[i]] >= pr[q[j]]
        /\ \A i \in 1 .. Len(q) : q[i] # t
    BY <1>2, LenProperties, ElementOfSeq DEF GoodList, SortedBy, Contains
  <2>2. /\ k \in 1 .. Len(q) + 1
        /\ \A i \in 1 .. Len(q) : i < k => pr[q[i]] >= pr[t]
        /\ k <= Len(q) => pr[q[k]] < pr[t]
    BY <2>1, InsertPosProperties
  <2>3. /\ r \in Seq(Tasks)
        /\ Len(r) = Len(q) + 1
        /\ \A i \in 1 .. k - 1 : r[i] = q[i]
        /\ r[k] = t
        /\ \A i \in k .. Len(q) : r[i + 1] = q[i]
    <3> HIDE DEF k
    <3> QED
      BY <2>1, <2>2, InsertAtProperties
  <2>4. ReadyInsert(q, pr, t) = r
    BY <1>2 DEF ReadyInsert
  <2> HIDE DEF k, r
  \* Where the element at a position of r comes from.
  <2> DEFINE from(i) == IF i < k THEN i ELSE i - 1
  <2>5. ASSUME NEW i \in 1 .. Len(r), i # k
        PROVE  from(i) \in 1 .. Len(q) /\ r[i] = q[from(i)]
    <3>1. CASE i < k
      BY <2>1, <2>2, <2>3, <3>1
    <3>2. CASE i > k
      <4>1. i - 1 \in k .. Len(q) /\ (i - 1) + 1 = i
        BY <2>1, <2>2, <2>3, <3>2
      <4>2. r[(i - 1) + 1] = q[i - 1]
        BY <2>3, <4>1
      <4> QED
        BY <2>1, <2>2, <3>2, <4>1, <4>2
    <3> QED
      BY <2>2, <2>5, <3>1, <3>2
  <2>6. \A i \in 1 .. Len(q) : k <= i => pr[t] >= pr[q[i]]
    BY <2>1, <2>2
  <2>7. ASSUME NEW i \in 1 .. Len(r), NEW j \in 1 .. Len(r), r[i] = r[j]
        PROVE  i = j
    <3>0. \A x \in 1 .. Len(r) : x # k => r[x] # t
      <4> HIDE DEF from
      <4> QED
        BY <2>1, <2>5
    <3>1. CASE i = k \/ j = k
      BY <2>3, <2>7, <3>0, <3>1
    <3>2. CASE i # k /\ j # k
      <4>1. from(i) = from(j)
        BY <2>1, <2>5, <2>7, <3>2
      <4> QED
        BY <2>2, <3>2, <4>1
    <3> QED
      BY <3>1, <3>2
  <2>8. ASSUME NEW i \in 1 .. Len(r), NEW j \in 1 .. Len(r), i < j
        PROVE  pr[r[i]] >= pr[r[j]]
    <3>1. CASE i = k
      <4>1. from(j) \in 1 .. Len(q) /\ k <= from(j) /\ r[j] = q[from(j)]
        BY <2>2, <2>5, <2>8, <3>1
      <4> QED
        BY <2>3, <2>6, <3>1, <4>1
    <3>2. CASE j = k
      <4>1. from(i) \in 1 .. Len(q) /\ from(i) < k /\ r[i] = q[from(i)]
        BY <2>2, <2>5, <2>8, <3>2
      <4> QED
        BY <2>2, <2>3, <3>2, <4>1
    <3>3. CASE i # k /\ j # k
      <4>1. /\ from(i) \in 1 .. Len(q) /\ r[i] = q[from(i)]
            /\ from(j) \in 1 .. Len(q) /\ r[j] = q[from(j)]
        BY <2>5, <3>3
      <4>2. from(i) < from(j)
        BY <2>2, <2>8, <3>3
      <4> HIDE DEF from
      <4> QED
        BY <2>1, <4>1, <4>2
    <3> QED
      BY <3>1, <3>2, <3>3
  <2>9. ASSUME NEW u
        PROVE  Contains(r, u) <=> Contains(q, u) \/ u = t
    <3>1. ASSUME NEW i \in 1 .. Len(r), r[i] = u, u # t
          PROVE  \E j \in 1 .. Len(q) : q[j] = u
      <4>1. i # k
        BY <2>3, <3>1
      <4> QED
        BY <2>5, <3>1, <4>1
    <3>2. ASSUME NEW i \in 1 .. Len(q), q[i] = u
          PROVE  \E j \in 1 .. Len(r) : r[j] = u
      <4>1. CASE i < k
        <5>1. i \in 1 .. Len(r) /\ r[i] = q[i]
          BY <2>1, <2>2, <2>3, <4>1
        <5> QED
          BY <3>2, <5>1
      <4>2. CASE i >= k
        <5>1. i \in k .. Len(q) /\ i + 1 \in 1 .. Len(r)
          BY <2>1, <2>2, <2>3, <4>2
        <5>2. r[i + 1] = q[i]
          BY <2>3, <5>1
        <5> QED
          BY <3>2, <5>1, <5>2
      <4> QED
        BY <2>1, <2>2, <4>1, <4>2
    <3>3. k \in 1 .. Len(r) /\ r[k] = t
      BY <2>1, <2>2, <2>3
    <3> QED
      BY <3>1, <3>2, <3>3 DEF Contains
  <2>10. GoodList(r, pr)
    <3>1. r \in Seq(Tasks)
      BY <2>3
    <3> QED
      BY <3>1, <2>7, <2>8 DEF GoodList, SortedBy
  <2> QED
    BY <2>4, <2>9, <2>10
<1> QED
  BY <1>1, <1>2

\* Removing a task keeps the list good, also under priorities that differ for
\* the removed task only, and takes out that task alone.
LEMMA ReadyRemoveProperties ==
    ASSUME NEW q, NEW pr \in [Tasks -> Nat], NEW t \in Tasks,
           NEW pr2 \in [Tasks -> Nat],
           \A u \in Tasks \ {t} : pr2[u] = pr[u],
           GoodList(q, pr)
    PROVE  /\ GoodList(ReadyRemove(q, t), pr2)
           /\ \A u : Contains(ReadyRemove(q, t), u) <=> Contains(q, u) /\ u # t
<1>0. /\ q \in Seq(Tasks)
      /\ Len(q) \in Nat
      /\ \A i \in 1 .. Len(q) : q[i] \in Tasks /\ pr[q[i]] \in Nat
      /\ \A i, j \in 1 .. Len(q) : q[i] = q[j] => i = j
      /\ \A i, j \in 1 .. Len(q) : i < j => pr[q[i]] >= pr[q[j]]
  BY LenProperties, ElementOfSeq DEF GoodList, SortedBy
<1>1. CASE ~ Contains(q, t)
  <2>1. ReadyRemove(q, t) = q
    BY <1>1 DEF ReadyRemove, RemoveFirst, Contains
  <2>2. \A i \in 1 .. Len(q) : pr2[q[i]] = pr[q[i]]
    BY <1>0, <1>1 DEF Contains
  <2> QED
    BY <1>0, <1>1, <2>1, <2>2 DEF GoodList, SortedBy, Contains
<1>2. CASE Contains(q, t)
  <2> DEFINE I == {i \in 1 .. Len(q) : q[i] = t}
             k == Min(I)
             r == RemoveAt(q, k)
  <2>1. k \in 1 .. Len(q) /\ q[k] = t
    <3>1. I \in SUBSET Nat /\ I # {}
      BY <1>0, <1>2 DEF Contains
    <3>2. k \in I
      <4> HIDE DEF I
      <4> QED
        BY <3>1, MinOfNats
    <3> HIDE DEF k
    <3> QED
      BY <3>2
  <2>2. ReadyRemove(q, t) = r
    <3>1. I # {}
      BY <1>2 DEF Contains
    <3> QED
      BY <1>2, <3>1 DEF ReadyRemove, RemoveFirst, SelectInSeq, Contains
  <2> HIDE DEF k
  <2>3. /\ r \in Seq(Tasks)
        /\ Len(r) = Len(q) - 1
        /\ \A i \in 1 .. k - 1 : r[i] = q[i]
        /\ \A i \in k + 1 .. Len(q) : r[i - 1] = q[i]
    BY <1>0, <2>1, RemoveAtProperties
  <2> HIDE DEF r
  <2>a. k \in Int /\ 1 <= k /\ k <= Len(q) /\ Len(q) \in Nat /\ Len(r) = Len(q) - 1
    BY <1>0, <2>1, <2>3
  \* Where the element at a position of r comes from.
  <2> DEFINE from(i) == IF i < k THEN i ELSE i + 1
  <2>4. ASSUME NEW i \in 1 .. Len(r)
        PROVE  /\ from(i) \in 1 .. Len(q) /\ from(i) # k
               /\ r[i] = q[from(i)] /\ r[i] \in Tasks \ {t}
    <3>1. from(i) \in 1 .. Len(q) /\ from(i) # k
      BY <2>a
    <3>2. r[i] = q[from(i)]
      <4>1. CASE i < k
        BY <2>1, <2>3, <4>1
      <4>2. CASE i >= k
        <5>1. i + 1 \in k + 1 .. Len(q) /\ (i + 1) - 1 = i
          BY <1>0, <2>1, <2>3, <4>2
        <5>2. r[(i + 1) - 1] = q[i + 1]
          BY <2>3, <5>1
        <5> QED
          BY <2>1, <4>2, <5>1, <5>2
      <4> QED
        BY <2>1, <4>1, <4>2
    <3> HIDE DEF from
    <3> QED
      BY <1>0, <2>1, <3>1, <3>2
  <2>5. ASSUME NEW i \in 1 .. Len(r), NEW j \in 1 .. Len(r), r[i] = r[j]
        PROVE  i = j
    <3>1. from(i) = from(j)
      <4> HIDE DEF from
      <4>1. /\ from(i) \in 1 .. Len(q) /\ from(j) \in 1 .. Len(q)
            /\ r[i] = q[from(i)] /\ r[j] = q[from(j)]
        BY <2>4
      <4>2. q[from(i)] = q[from(j)]
        BY <2>5, <4>1
      <4> QED
        BY <1>0, <4>1, <4>2
    <3> QED
      BY <2>1, <3>1
  <2>6. ASSUME NEW i \in 1 .. Len(r), NEW j \in 1 .. Len(r), i < j
        PROVE  pr2[r[i]] >= pr2[r[j]]
    <3>1. from(i) < from(j)
      BY <2>1, <2>6
    <3> HIDE DEF from
    <3>2. /\ from(i) \in 1 .. Len(q) /\ r[i] = q[from(i)] /\ r[i] \in Tasks \ {t}
          /\ from(j) \in 1 .. Len(q) /\ r[j] = q[from(j)] /\ r[j] \in Tasks \ {t}
      BY <2>4
    <3>3. pr[r[i]] >= pr[r[j]]
      BY <1>0, <3>1, <3>2
    <3> QED
      BY <3>2, <3>3
  <2>7. ASSUME NEW u
        PROVE  Contains(r, u) <=> Contains(q, u) /\ u # t
    <3>1. ASSUME NEW i \in 1 .. Len(r), r[i] = u
          PROVE  u # t /\ \E j \in 1 .. Len(q) : q[j] = u
      <4> HIDE DEF from
      <4> QED
        BY <2>4, <3>1
    <3>2. ASSUME NEW i \in 1 .. Len(q), q[i] = u, u # t
          PROVE  \E j \in 1 .. Len(r) : r[j] = u
      <4>1. CASE i < k
        <5>1. i \in 1 .. Len(r) /\ i \in 1 .. k - 1
          BY <2>a, <4>1
        <5>2. r[i] = q[i]
          BY <2>3, <5>1
        <5> QED
          BY <3>2, <5>1, <5>2
      <4>2. CASE i > k
        <5>1. i \in k + 1 .. Len(q) /\ i - 1 \in 1 .. Len(r)
          BY <1>0, <2>1, <2>3, <4>2
        <5>2. r[i - 1] = q[i]
          BY <2>3, <5>1
        <5> QED
          BY <3>2, <5>1, <5>2
      <4>3. i # k
        BY <2>1, <3>2
      <4> QED
        BY <1>0, <2>1, <4>1, <4>2, <4>3
    <3> QED
      BY <3>1, <3>2 DEF Contains
  <2>8. GoodList(r, pr2)
    <3>1. r \in Seq(Tasks)
      BY <2>3
    <3> QED
      BY <3>1, <2>5, <2>6 DEF GoodList, SortedBy
  <2> QED
    BY <2>2, <2>7, <2>8
<1> QED
  BY <1>1, <1>2

\* PickNext finds a READY task of the list when there is one; when all of the
\* list is READY it finds one of the highest priority.
LEMMA PickNextProperties ==
    ASSUME NEW q, NEW pr \in [Tasks -> Nat], NEW st \in [Tasks -> States],
           GoodList(q, pr)
    PROVE  /\ PickNext(q, st) = NULL => \A u \in Tasks : Contains(q, u) => st[u] # "READY"
           /\ PickNext(q, st) # NULL =>
                /\ PickNext(q, st) \in Tasks
                /\ Contains(q, PickNext(q, st))
                /\ st[PickNext(q, st)] = "READY"
                /\ (\A u \in Tasks : Contains(q, u) => st[u] = "READY") =>
                      \A i \in 1 .. Len(q) : pr[q[i]] <= pr[PickNext(q, st)]
<1> DEFINE I == {i \in 1 .. Len(q) : st[q[i]] = "READY"}
           k == Min(I)
<1>0. /\ q \in Seq(Tasks)
      /\ Len(q) \in Nat
      /\ \A i \in 1 .. Len(q) : q[i] \in Tasks /\ pr[q[i]] \in Nat
      /\ \A i, j \in 1 .. Len(q) : i < j => pr[q[i]] >= pr[q[j]]
  BY LenProperties, ElementOfSeq DEF GoodList, SortedBy
<1>1. CASE I = {}
  <2>1. PickNext(q, st) = NULL
    BY <1>1 DEF PickNext
  <2> QED
    BY <1>1, <2>1 DEF Contains
<1>2. CASE I # {}
  <2>1. k \in I /\ \A i \in I : k <= i
    <3>1. I \in SUBSET Nat
      BY <1>0
    <3> HIDE DEF I
    <3> QED
      BY <1>2, <3>1, MinOfNats
  <2>2. PickNext(q, st) = q[k]
    BY <1>2 DEF PickNext
  <2> HIDE DEF k
  <2>3. k \in 1 .. Len(q) /\ st[q[k]] = "READY"
    BY <2>1
  <2>4. q[k] \in Tasks /\ q[k] # NULL
    BY <1>0, <2>3, ContextsAssumption
  <2>5. ASSUME \A u \in Tasks : Contains(q, u) => st[u] = "READY",
               NEW i \in 1 .. Len(q)
        PROVE  pr[q[i]] <= pr[q[k]]
    <3>1. 1 \in I
      BY <1>0, <2>5 DEF Contains
    <3>2. k = 1
      <4> HIDE DEF I
      <4> QED
        BY <2>1, <2>3, <3>1
    <3> QED
      BY <1>0, <3>2
  <2> QED
    BY <2>2, <2>3, <2>4, <2>5 DEF Contains
<1> QED
  BY <1>1, <1>2
-----------------------------------------------------------------------------
(***************************************************************************)
(* The list against the table and the task states.  Coherent says that q   *)
(* is good and holds exactly the READY tasks of tab under the states st.   *)
(***************************************************************************)
Coherent(q, pr, st, tab) ==
    /\ pr \in [Tasks -> Nat]
    /\ st \in [Tasks -> States]
    /\ tab \subseteq Tasks
    /\ GoodList(q, pr)
    /\ Exact(q, st, tab)

\* In an exact list membership is being READY and in the table.
LEMMA CoherentMembers ==
    ASSUME NEW q, NEW pr, NEW st, NEW tab, Coherent(q, pr, st, tab)
    PROVE  \A u : Contains(q, u) <=> u \in tab /\ st[u] = "READY"
BY DEF Coherent, Exact, Contains

\* Conversely, a good list with that membership is exact.
LEMMA CoherentFromMembers ==
    ASSUME NEW q, NEW pr \in [Tasks -> Nat], NEW st \in [Tasks -> States],
           NEW tab \in SUBSET Tasks,
           GoodList(q, pr),
           \A u : Contains(q, u) <=> u \in tab /\ st[u] = "READY"
    PROVE  Coherent(q, pr, st, tab)
<1>1. \A i \in 1 .. Len(q) : Contains(q, q[i])
  BY DEF Contains
<1>2. \A i \in 1 .. Len(q) : q[i] \in tab
  BY <1>1
<1>3. \A i, j \in 1 .. Len(q) : q[i] = q[j] => i = j
  BY DEF GoodList
<1> QED
  BY <1>2, <1>3 DEF Coherent, Exact

\* Taking a task off the list and out of READY keeps it coherent.
LEMMA DropProperties ==
    ASSUME NEW q, NEW pr, NEW st, NEW tab, Coherent(q, pr, st, tab),
           NEW t \in Tasks, NEW s \in States \ {"READY"}
    PROVE  Coherent(ReadyRemove(q, t), pr, [st EXCEPT ![t] = s], tab)
<1> DEFINE r == ReadyRemove(q, t)
           st2 == [st EXCEPT ![t] = s]
<1>1. /\ pr \in [Tasks -> Nat] /\ st \in [Tasks -> States]
      /\ tab \in SUBSET Tasks /\ GoodList(q, pr)
  BY DEF Coherent
<1>2. GoodList(r, pr) /\ \A u : Contains(r, u) <=> Contains(q, u) /\ u # t
  BY <1>1, ReadyRemoveProperties
<1>3. \A u : Contains(q, u) <=> u \in tab /\ st[u] = "READY"
  BY CoherentMembers
<1>4. st2 \in [Tasks -> States] /\ st2[t] = s /\ \A u \in Tasks \ {t} : st2[u] = st[u]
  BY <1>1
<1> HIDE DEF r, st2
<1>5. \A u : Contains(r, u) <=> u \in tab /\ st2[u] = "READY"
  BY <1>1, <1>2, <1>3, <1>4
<1>6. Coherent(r, pr, st2, tab)
  BY <1>1, <1>2, <1>4, <1>5, CoherentFromMembers
<1> QED
  BY <1>6 DEF r, st2

\* Making a task READY and listing it keeps the list coherent.
LEMMA ListProperties ==
    ASSUME NEW q, NEW pr, NEW st, NEW tab, Coherent(q, pr, st, tab),
           NEW t \in Tasks
    PROVE  Coherent(ReadyInsert(q, pr, t), pr, [st EXCEPT ![t] = "READY"], tab \cup {t})
<1> DEFINE r == ReadyInsert(q, pr, t)
           st2 == [st EXCEPT ![t] = "READY"]
           tab2 == tab \cup {t}
<1>1. /\ pr \in [Tasks -> Nat] /\ st \in [Tasks -> States]
      /\ tab \in SUBSET Tasks /\ GoodList(q, pr)
  BY DEF Coherent
<1>2. GoodList(r, pr) /\ \A u : Contains(r, u) <=> Contains(q, u) \/ u = t
  BY <1>1, ReadyInsertProperties
<1>3. \A u : Contains(q, u) <=> u \in tab /\ st[u] = "READY"
  BY CoherentMembers
<1>4. /\ st2 \in [Tasks -> States] /\ st2[t] = "READY"
      /\ \A u \in Tasks \ {t} : st2[u] = st[u]
  BY <1>1 DEF States
<1> HIDE DEF r, st2
<1>5. \A u : Contains(r, u) <=> u \in tab2 /\ st2[u] = "READY"
  BY <1>1, <1>2, <1>3, <1>4
<1>6. Coherent(r, pr, st2, tab2)
  <2>1. tab2 \in SUBSET Tasks
    BY <1>1
  <2> HIDE DEF tab2
  <2> QED
    BY <2>1, <1>1, <1>2, <1>4, <1>5, CoherentFromMembers
<1> QED
  BY <1>6 DEF r, st2

\* saramos_task_set_priority() keeps the list coherent under the new priority.
LEMMA RepositionProperties ==
    ASSUME NEW q, NEW pr, NEW st, NEW tab, Coherent(q, pr, st, tab),
           NEW t \in Tasks, NEW p \in Nat
    PROVE  Coherent(Repositioned(q, pr, t, p), [pr EXCEPT ![t] = p], st, tab)
<1> DEFINE pr2 == [pr EXCEPT ![t] = p]
           r == ReadyRemove(q, t)
           s == ReadyInsert(r, pr2, t)
<1>1. /\ pr \in [Tasks -> Nat] /\ st \in [Tasks -> States]
      /\ tab \in SUBSET Tasks /\ GoodList(q, pr)
  BY DEF Coherent
<1>2. pr2 \in [Tasks -> Nat] /\ \A u \in Tasks \ {t} : pr2[u] = pr[u]
  BY <1>1
<1>3. \A u : Contains(q, u) <=> u \in tab /\ st[u] = "READY"
  BY CoherentMembers
<1> HIDE DEF pr2
<1>4. GoodList(r, pr2) /\ \A u : Contains(r, u) <=> Contains(q, u) /\ u # t
  BY <1>1, <1>2, ReadyRemoveProperties
<1> HIDE DEF r
<1>5. CASE Contains(q, t)
  <2>1. GoodList(s, pr2) /\ \A u : Contains(s, u) <=> Contains(r, u) \/ u = t
    BY <1>2, <1>4, ReadyInsertProperties
  <2>2. Repositioned(q, pr, t, p) = s
    BY <1>5 DEF Repositioned, r, pr2
  <2> HIDE DEF s
  <2>3. \A u : Contains(s, u) <=> u \in tab /\ st[u] = "READY"
    BY <1>3, <1>4, <1>5, <2>1
  <2>4. Coherent(s, pr2, st, tab)
    BY <1>1, <1>2, <2>1, <2>3, CoherentFromMembers
  <2> QED
    BY <2>2, <2>4 DEF pr2
<1>6. CASE ~ Contains(q, t)
  <2>1. Repositioned(q, pr, t, p) = q
    BY <1>6 DEF Repositioned
  <2>2. r = q
    BY <1>6 DEF r, ReadyRemove, RemoveFirst, Contains
  <2>3. Coherent(q, pr2, st, tab)
    BY <1>1, <1>2, <1>3, <1>4, <2>2, CoherentFromMembers
  <2> QED
    BY <2>1, <2>3 DEF pr2
<1> QED
  BY <1>5, <1>6

\* Taking the next task off a coherent list: it is a READY task of the table,
\* none that stays listed is above it, and there is none only if none is READY.
LEMMA SwitchProperties ==
    ASSUME NEW q, NEW pr, NEW st, NEW tab, Coherent(q, pr, st, tab),
           NEW n, n = PickNext(q, st)
    PROVE  /\ n = NULL => \A u \in tab : st[u] # "READY"
           /\ n # NULL =>
                /\ n \in tab /\ st[n] = "READY"
                /\ Coherent(ReadyRemove(q, n), pr, [st EXCEPT ![n] = "RUNNING"], tab)
                /\ \A i \in 1 .. Len(ReadyRemove(q, n)) : pr[ReadyRemove(q, n)[i]] <= pr[n]
<1>1. /\ pr \in [Tasks -> Nat] /\ st \in [Tasks -> States]
      /\ tab \in SUBSET Tasks /\ GoodList(q, pr)
  BY DEF Coherent
<1>2. \A u : Contains(q, u) <=> u \in tab /\ st[u] = "READY"
  BY CoherentMembers
<1>3. /\ n = NULL => \A u \in Tasks : Contains(q, u) => st[u] # "READY"
      /\ n # NULL =>
           /\ n \in Tasks /\ Contains(q, n) /\ st[n] = "READY"
           /\ (\A u \in Tasks : Contains(q, u) => st[u] = "READY") =>
                 \A i \in 1 .. Len(q) : pr[q[i]] <= pr[n]
  BY <1>1, PickNextProperties
<1>4. CASE n = NULL
  BY <1>1, <1>2, <1>3, <1>4
<1>5. CASE n # NULL
  <2> DEFINE r == ReadyRemove(q, n)
  <2>1. n \in tab /\ st[n] = "READY"
    BY <1>2, <1>3, <1>5
  <2>2. Coherent(r, pr, [st EXCEPT ![n] = "RUNNING"], tab)
    BY <1>3, <1>5, DropProperties DEF States
  <2>3. \A u : Contains(r, u) <=> Contains(q, u) /\ u # n
    BY <1>1, <1>3, <1>5, ReadyRemoveProperties
  <2> HIDE DEF r
  <2>4. \A i \in 1 .. Len(q) : pr[q[i]] <= pr[n]
    BY <1>2, <1>3, <1>5
  <2>5. \A i \in 1 .. Len(r) : pr[r[i]] <= pr[n]
    <3> SUFFICES ASSUME NEW i \in 1 .. Len(r) PROVE pr[r[i]] <= pr[n]
      OBVIOUS
    <3>1. Contains(q, r[i])
      BY <2>3 DEF Contains
    <3> QED
      BY <2>4, <3>1 DEF Contains
  <2> QED
    BY <1>5, <2>1, <2>2, <2>5 DEF r
<1> QED
  BY <1>4, <1>5
-----------------------------------------------------------------------------
(***************************************************************************)
(* The list main() builds.                                                 *)
(***************************************************************************)

\* One after the other the insertions give a good list of exactly the tasks of
\* the sequence.
LEMMA BootListProperties ==
    ASSUME NEW order \in Seq(Tasks)
    PROVE  /\ GoodList(BootList(order), BasePrio)
           /\ \A u : Contains(BootList(order), u) <=> \E i \in 1 .. Len(order) : order[i] = u
<1> DEFINE N == Len(order)
           step(f, n) == IF n = 0 THEN <<>> ELSE ReadyInsert(f[n - 1], BasePrio, order[n])
           Upto(n, f) == f = [k \in 0 .. n |-> step(f, k)]
           S == {n \in 0 .. N : \E f : Upto(n, f)}
           added == CHOOSE f : Upto(N, f)
<1>0. /\ N \in Nat
      /\ \A i \in 1 .. N : order[i] \in Tasks
      /\ BasePrio \in [Tasks -> Nat]
  BY LenProperties, ElementOfSeq, PriorityAssumption
<1>1. BootList(order) = added[N]
  BY DEF BootList
<1> HIDE DEF N
<1>2. 0 \in S
  <2> DEFINE f == [k \in 0 .. 0 |-> <<>>]
  <2>1. Upto(0, f)
    OBVIOUS
  <2> HIDE DEF f, Upto
  <2> QED
    BY <1>0, <2>1
<1>3. ASSUME NEW n \in 0 .. N - 1, n \in S PROVE n + 1 \in S
  <2>1. PICK f : Upto(n, f)
    BY <1>3
  <2> DEFINE g == [k \in 0 .. n + 1 |-> IF k = n + 1 THEN step(f, k) ELSE f[k]]
  <2>2. ASSUME NEW k \in 0 .. n + 1 PROVE g[k] = step(g, k)
    <3>1. n \in Nat /\ k \in Int /\ 0 <= k /\ k <= n + 1
      BY <1>0
    <3>2. CASE k = 0
      BY <2>1, <3>1, <3>2
    <3>3. CASE k # 0
      <4>1. k - 1 \in 0 .. n + 1 /\ k - 1 # n + 1 /\ k - 1 \in 0 .. n
        BY <3>1, <3>3
      <4>2. g[k - 1] = f[k - 1]
        BY <4>1
      <4>3. step(g, k) = step(f, k)
        BY <4>2, <3>3
      <4>4. k # n + 1 => k \in 0 .. n /\ f[k] = step(f, k)
        BY <2>1, <3>1
      <4> QED
        BY <4>3, <4>4
    <3> QED
      BY <3>2, <3>3
  <2>3. Upto(n + 1, g)
    <3>1. g = [k \in 0 .. n + 1 |-> g[k]]
      OBVIOUS
    <3> HIDE DEF g
    <3>2. [k \in 0 .. n + 1 |-> g[k]] = [k \in 0 .. n + 1 |-> step(g, k)]
      BY <2>2
    <3> QED
      BY <3>1, <3>2
  <2> HIDE DEF Upto, g
  <2> QED
    BY <1>0, <2>3
<1>4. Upto(N, added)
  <2>1. N \in S
    <3> HIDE DEF S
    <3>1. \A n \in 0 .. N - 1 : n \in S => n + 1 \in S
      BY <1>3
    <3>2. \A n \in 0 .. N : n \in S
      BY <1>0, <1>2, <3>1, UpTo
    <3> QED
      BY <1>0, <3>2
  <2> HIDE DEF Upto
  <2> QED
    BY <2>1
<1>5. /\ added[0] = <<>>
      /\ \A n \in 1 .. N : added[n] = ReadyInsert(added[n - 1], BasePrio, order[n])
  <2> HIDE DEF added
  <2>1. \A n \in 0 .. N : added[n] = step(added, n)
    BY <1>4
  <2> QED
    BY <1>0, <2>1
<1> HIDE DEF added
<1> DEFINE Right(n) == /\ GoodList(added[n], BasePrio)
                       /\ \A u : Contains(added[n], u) <=> \E i \in 1 .. n : order[i] = u
           T == {n \in 0 .. N : Right(n)}
<1>6. Right(0)
  <2>1. added[0] \in Seq(Tasks) /\ Len(added[0]) = 0
    BY <1>5
  <2> QED
    BY <2>1 DEF GoodList, SortedBy, Contains
<1>7. ASSUME NEW n \in 0 .. N - 1, Right(n) PROVE Right(n + 1)
  <2>1. n + 1 \in 1 .. N /\ (n + 1) - 1 = n
    BY <1>0
  <2>2. added[n + 1] = ReadyInsert(added[n], BasePrio, order[n + 1])
    BY <1>5, <2>1
  <2>3. /\ GoodList(added[n + 1], BasePrio)
        /\ \A u : Contains(added[n + 1], u) <=> Contains(added[n], u) \/ u = order[n + 1]
    BY <1>0, <1>7, <2>1, <2>2, ReadyInsertProperties
  <2>4. \A u : (\E i \in 1 .. n + 1 : order[i] = u)
                 <=> (\E i \in 1 .. n : order[i] = u) \/ u = order[n + 1]
    BY <1>0
  <2> QED
    BY <1>7, <2>3, <2>4
<1>8. Right(N)
  <2> HIDE DEF Right
  <2>1. 0 \in T
    BY <1>0, <1>6
  <2>2. \A n \in 0 .. N - 1 : n \in T => n + 1 \in T
    BY <1>0, <1>7
  <2>3. N \in T
    <3> HIDE DEF T
    <3>1. \A n \in 0 .. N : n \in T
      BY <1>0, <2>1, <2>2, UpTo
    <3> QED
      BY <1>0, <3>1
  <2> QED
    BY <2>3
<1> QED
  BY <1>1, <1>8 DEF N

\* Among the waiters of a primitive there is one of the highest priority.
LEMMA HighestExists ==
    ASSUME NEW w \in Seq(Tasks), w # <<>>, NEW pr \in [Tasks -> Nat]
    PROVE  LET B == {i \in 1 .. Len(w) : \A j \in 1 .. Len(w) : pr[w[j]] <= pr[w[i]]}
           IN  /\ Min(B) \in 1 .. Len(w)
               /\ \A j \in 1 .. Len(w) : pr[w[j]] <= pr[w[Min(B)]]
<1> DEFINE N == Len(w)
           B == {i \in 1 .. N : \A j \in 1 .. N : pr[w[j]] <= pr[w[i]]}
           Top(n) == \E i \in 1 .. n : \A j \in 1 .. n : pr[w[j]] <= pr[w[i]]
           S == {n \in 0 .. N : n > 0 => Top(n)}
<1>1. /\ N \in Nat /\ N >= 1
      /\ \A i \in 1 .. N : w[i] \in Tasks /\ pr[w[i]] \in Nat
  BY LenProperties, ElementOfSeq, EmptySeq
<1> HIDE DEF N
<1>2. 0 \in S
  BY <1>1
<1>3. ASSUME NEW n \in 0 .. N - 1, n \in S PROVE n + 1 \in S
  <2>1. n + 1 \in 1 .. N /\ n \in Nat /\ pr[w[n + 1]] \in Nat
    BY <1>1
  <2>2. CASE n = 0
    <3>1. pr[w[1]] <= pr[w[1]]
      BY <2>1, <2>2
    <3>2. \A j \in 1 .. 1 : pr[w[j]] <= pr[w[1]]
      BY <3>1
    <3>3. Top(1)
      BY <3>2
    <3> QED
      BY <1>1, <2>2, <3>3
  <2>3. CASE n > 0
    <3>1. PICK i \in 1 .. n : \A j \in 1 .. n : pr[w[j]] <= pr[w[i]]
      BY <1>3, <2>3
    <3>2. /\ i \in 1 .. N /\ i \in 1 .. n + 1 /\ n + 1 \in 1 .. n + 1
          /\ \A j \in 1 .. n + 1 : j \in 1 .. n \/ j = n + 1
          /\ \A j \in 1 .. n : j \in 1 .. N
      BY <1>1, <2>1
    <3>a. pr[w[i]] \in Nat /\ \A j \in 1 .. n : pr[w[j]] \in Nat
      BY <1>1, <3>2
    <3>3. CASE pr[w[n + 1]] <= pr[w[i]]
      <4>1. \A j \in 1 .. n + 1 : pr[w[j]] <= pr[w[i]]
        BY <3>1, <3>2, <3>3
      <4>2. Top(n + 1)
        BY <3>2, <4>1
      <4> QED
        BY <1>1, <2>1, <4>2
    <3>4. CASE pr[w[i]] <= pr[w[n + 1]]
      <4>1. ASSUME NEW j \in 1 .. n + 1 PROVE pr[w[j]] <= pr[w[n + 1]]
        <5>1. CASE j = n + 1
          BY <2>1, <5>1
        <5>2. CASE j \in 1 .. n
          <6>1. pr[w[j]] <= pr[w[i]] /\ pr[w[j]] \in Nat
            BY <3>1, <3>a, <5>2
          <6>2. pr[w[i]] \in Nat /\ pr[w[n + 1]] \in Nat
            BY <2>1, <3>a
          <6> DEFINE a == pr[w[j]]
                     b == pr[w[i]]
                     c == pr[w[n + 1]]
          <6>3. a \in Nat /\ b \in Nat /\ c \in Nat /\ a <= b /\ b <= c
            BY <3>4, <6>1, <6>2
          <6> HIDE DEF a, b, c
          <6>4. a <= c
            BY <6>3
          <6> QED
            BY <6>4 DEF a, c
        <5> QED
          BY <3>2, <5>1, <5>2
      <4>2. Top(n + 1)
        BY <3>2, <4>1
      <4> QED
        BY <1>1, <2>1, <4>2
    <3>5. pr[w[n + 1]] <= pr[w[i]] \/ pr[w[i]] <= pr[w[n + 1]]
      <4> DEFINE a == pr[w[i]]
                 b == pr[w[n + 1]]
      <4>1. a \in Nat /\ b \in Nat
        BY <2>1, <3>a
      <4> HIDE DEF a, b
      <4>2. b <= a \/ a <= b
        BY <4>1
      <4> QED
        BY <4>2 DEF a, b
    <3> QED
      BY <3>3, <3>4, <3>5
  <2> QED
    BY <2>1, <2>2, <2>3
<1>4. Top(N)
  <2>1. \A n \in 0 .. N - 1 : n \in S => n + 1 \in S
    BY <1>3
  <2>2. \A n \in 0 .. N : n \in S
    <3> HIDE DEF S
    <3> QED
      BY <1>1, <1>2, <2>1, UpTo
  <2>3. N \in 0 .. N /\ N > 0
    BY <1>1
  <2> HIDE DEF Top
  <2> QED
    BY <2>2, <2>3
<1>5. Min(B) \in B
  <2>1. B \in SUBSET Nat /\ B # {}
    BY <1>1, <1>4
  <2> HIDE DEF B
  <2> QED
    BY <2>1, MinOfNats
<1> QED
  BY <1>5 DEF N
-----------------------------------------------------------------------------
(***************************************************************************)
(* The invariant.                                                          *)
(***************************************************************************)
\* The types of what Coherent does not speak of.
RestTyped ==
    /\ ctx \in [Tasks -> Tasks \cup {NULL, Boot}]
    /\ addResult \in [Tasks -> {"none", "ok", "failed"}]
    /\ currentTcb \in Tasks \cup {NULL}
    /\ nextTcb \in Tasks \cup {NULL}
    /\ pendsv \in BOOLEAN
    /\ cpu \in Tasks \cup {NULL, Boot}
    /\ mode \in {"boot", "thread", "isr", "halt"}
    /\ starting \in Tasks \cup {NULL}

ListNow == Coherent(ready, prio, state, table)

LEMMA InvParts ==
    /\ KernelInv <=> ListNow /\ RestTyped /\ OneRunner /\ TaskStates /\ Occupied
    /\ KernelInv' <=> ListNow' /\ RestTyped' /\ OneRunner' /\ TaskStates' /\ Occupied'
<1>1. KernelInv <=> ListNow /\ RestTyped /\ OneRunner /\ TaskStates /\ Occupied
  BY DEF KernelInv, ListNow, Coherent, GoodList, TypeOK, RestTyped,
         ReadyListExact, ReadySorted, Exact
<1>2. KernelInv' <=> ListNow' /\ RestTyped' /\ OneRunner' /\ TaskStates' /\ Occupied'
  BY DEF KernelInv, ListNow, Coherent, GoodList, TypeOK, RestTyped,
         ReadyListExact, ReadySorted, Exact
<1> QED
  BY <1>1, <1>2

LEMMA InitInv == Init => KernelInv
<1> SUFFICES ASSUME Init PROVE KernelInv
  OBVIOUS
<1> USE DEF Init
<1>1. ListNow
  <2>1. ready \in Seq(Tasks) /\ Len(ready) = 0
    OBVIOUS
  <2>2. state \in [Tasks -> States] /\ prio \in [Tasks -> Nat]
    BY DEF States
  <2>3. table = {}
    OBVIOUS
  <2> QED
    BY <2>1, <2>2, <2>3 DEF ListNow, Coherent, GoodList, SortedBy, Exact
<1>2. RestTyped
  BY DEF RestTyped
<1>3. OneRunner
  BY DEF OneRunner, Chosen
<1>4. TaskStates /\ Occupied
  BY DEF TaskStates, Occupied
<1> QED
  BY <1>1, <1>2, <1>3, <1>4, InvParts
-----------------------------------------------------------------------------
(***************************************************************************)
(* Scheduling decisions.                                                   *)
(***************************************************************************)

\* What SwitchOp leaves when no task is RUNNING in st.
LEMMA SwitchStep ==
    ASSUME NEW q, NEW st,
           Coherent(q, prio, st, table),
           SwitchOp(q, st)
    PROVE  /\ prio' = prio
           /\ Coherent(ready', prio, state', table)
           /\ \/ /\ PickNext(q, st) = NULL
                 /\ state' = st
                 /\ nextTcb' = nextTcb /\ pendsv' = pendsv
                 /\ \A u \in table : st[u] # "READY"
              \/ /\ PickNext(q, st) # NULL
                 /\ nextTcb' \in table /\ st[nextTcb'] = "READY"
                 /\ state' = [st EXCEPT ![nextTcb'] = "RUNNING"]
                 /\ pendsv' = TRUE
                 /\ \A i \in 1 .. Len(ready') : prio[ready'[i]] <= prio[nextTcb']
<1> DEFINE n == PickNext(q, st)
<1>1. /\ n = NULL => \A u \in table : st[u] # "READY"
      /\ n # NULL =>
           /\ n \in table /\ st[n] = "READY"
           /\ Coherent(ReadyRemove(q, n), prio, [st EXCEPT ![n] = "RUNNING"], table)
           /\ \A i \in 1 .. Len(ReadyRemove(q, n)) : prio[ReadyRemove(q, n)[i]] <= prio[n]
  BY SwitchProperties
<1>2. /\ prio' = prio
      /\ IF n = NULL
         THEN state' = st /\ ready' = q /\ nextTcb' = nextTcb /\ pendsv' = pendsv
         ELSE /\ state' = [st EXCEPT ![n] = "RUNNING"]
              /\ ready' = ReadyRemove(q, n)
              /\ nextTcb' = n
              /\ pendsv' = TRUE
  BY DEF SwitchOp
<1> HIDE DEF n
<1>3. CASE n = NULL
  <2>1. PickNext(q, st) = NULL
    BY <1>3 DEF n
  <2> QED
    BY <1>1, <1>2, <1>3, <2>1
<1>4. CASE n # NULL
  <2>1. PickNext(q, st) # NULL
    BY <1>4 DEF n
  <2> QED
    BY <1>1, <1>2, <1>4, <2>1
<1> QED
  BY <1>3, <1>4

\* After a scheduling call the list is coherent, only the chosen task can be
\* RUNNING, and the dead and the never added tasks are where they were.
SwitchDone ==
    /\ prio' = prio
    /\ Coherent(ready', prio, state', table)
    /\ \A t \in table : state'[t] # "UNUSED"
    /\ \A t \in Tasks \ table : state'[t] = state[t]
    /\ pendsv' => /\ nextTcb' \in table
                  /\ state'[nextTcb'] = "RUNNING"
                  /\ \A t \in Tasks : state'[t] = "RUNNING" => t = nextTcb'
                  /\ \A i \in 1 .. Len(ready') : prio[ready'[i]] <= prio[nextTcb']
    /\ ~pendsv' => \A t \in Tasks : state'[t] # "RUNNING"

\* SwitchOp on a list and states in which the caller has given up RUNNING.
LEMMA SwitchFrom ==
    ASSUME KernelInv, pendsv = FALSE,
           NEW q, NEW st,
           Coherent(q, prio, st, table),
           \A t \in Tasks : st[t] # "RUNNING",
           \A t \in table : st[t] # "UNUSED",
           \A t \in Tasks \ table : st[t] = state[t],
           SwitchOp(q, st)
    PROVE  /\ SwitchDone
           /\ \A t \in Tasks : state'[t] = st[t] \/ (st[t] = "READY" /\ state'[t] = "RUNNING")
           /\ pendsv' <=> PickNext(q, st) # NULL
<1>1. /\ prio' = prio
      /\ Coherent(ready', prio, state', table)
      /\ \/ /\ PickNext(q, st) = NULL
            /\ state' = st
            /\ nextTcb' = nextTcb /\ pendsv' = pendsv
            /\ \A u \in table : st[u] # "READY"
         \/ /\ PickNext(q, st) # NULL
            /\ nextTcb' \in table /\ st[nextTcb'] = "READY"
            /\ state' = [st EXCEPT ![nextTcb'] = "RUNNING"]
            /\ pendsv' = TRUE
            /\ \A i \in 1 .. Len(ready') : prio[ready'[i]] <= prio[nextTcb']
  BY SwitchStep
<1>2. st \in [Tasks -> States] /\ table \subseteq Tasks
  BY DEF Coherent
<1>3. CASE PickNext(q, st) = NULL
  BY <1>1, <1>2, <1>3 DEF SwitchDone
<1>4. CASE PickNext(q, st) # NULL
  <2>1. /\ nextTcb' \in Tasks
        /\ state'[nextTcb'] = "RUNNING"
        /\ \A t \in Tasks \ {nextTcb'} : state'[t] = st[t]
    BY <1>1, <1>2, <1>4
  <2>2. SwitchDone
    BY <1>1, <1>2, <1>4, <2>1 DEF SwitchDone
  <2> QED
    BY <1>1, <1>4, <2>1, <2>2
<1> QED
  BY <1>3, <1>4

\* saramos_schedule() with a current task and no switch pending.
LEMMA ScheduleStep ==
    ASSUME KernelInv, pendsv = FALSE, currentTcb # NULL, ScheduleOp(currentTcb)
    PROVE  /\ SwitchDone
           /\ \A t \in Tasks : state[t] \in Dead => state'[t] \in Dead
           /\ state'[currentTcb] \notin Dead
<1> DEFINE c == currentTcb
<1>1. /\ Coherent(ready, prio, state, table)
      /\ state \in [Tasks -> States]
      /\ c \in table /\ c \in Tasks /\ state[c] \notin Dead
      /\ \A t \in Tasks : state[t] = "RUNNING" => t = c
      /\ \A t \in table : state[t] # "UNUSED"
  BY InvParts DEF ListNow, Coherent, Occupied, OneRunner, Chosen, TaskStates
<1>2. CASE state[c] = "RUNNING"
  <2> DEFINE q  == ReadyInsert(ready, prio, c)
             st == [state EXCEPT ![c] = "READY"]
  <2>1. Coherent(q, prio, st, table)
    <3>1. table \cup {c} = table
      BY <1>1
    <3>2. Coherent(q, prio, st, table \cup {c})
      BY <1>1, ListProperties
    <3> QED
      BY <3>1, <3>2
  <2>2. st[c] = "READY" /\ \A t \in Tasks \ {c} : st[t] = state[t]
    BY <1>1
  <2>3. SwitchOp(q, st)
    BY <1>1, <1>2 DEF ScheduleOp
  <2> HIDE DEF q, st, c
  <2>4. /\ \A t \in Tasks : st[t] # "RUNNING"
        /\ \A t \in table : st[t] # "UNUSED"
        /\ \A t \in Tasks \ table : st[t] = state[t]
        /\ table \subseteq Tasks
    BY <1>1, <2>2 DEF Coherent
  <2>5. /\ SwitchDone
        /\ \A t \in Tasks : state'[t] = st[t] \/ (st[t] = "READY" /\ state'[t] = "RUNNING")
    BY <2>1, <2>3, <2>4, SwitchFrom
  <2>6. \A t \in Tasks : st[t] \in Dead => state'[t] \in Dead
    BY <2>5 DEF Dead
  <2>7. c \in Tasks /\ state'[c] \notin Dead
    BY <1>1, <2>2, <2>5 DEF Dead
  <2>8. \A t \in Tasks : state[t] \in Dead => state'[t] \in Dead
    BY <1>1, <2>2, <2>6
  <2> QED
    BY <2>5, <2>7, <2>8 DEF c
<1>3. CASE state[c] # "RUNNING"
  <2>1. SwitchOp(ready, state)
    BY <1>3 DEF ScheduleOp
  <2> HIDE DEF c
  <2>2. \A t \in Tasks : state[t] # "RUNNING"
    BY <1>1, <1>3
  <2>3. /\ SwitchDone
        /\ \A t \in Tasks : state'[t] = state[t] \/ (state[t] = "READY" /\ state'[t] = "RUNNING")
    BY <1>1, <2>1, <2>2, SwitchFrom
  <2>4. \A t \in Tasks : state[t] \in Dead => state'[t] \in Dead
    BY <2>3 DEF Dead
  <2>5. state'[c] \notin Dead
    BY <1>1, <2>3 DEF Dead
  <2> QED
    BY <2>3, <2>4, <2>5 DEF c
<1> QED
  BY <1>2, <1>3

\* saramos_task_block_current() with a current task and no switch pending.
LEMMA BlockStep ==
    ASSUME KernelInv, pendsv = FALSE, currentTcb # NULL, BlockCurrentOp(currentTcb)
    PROVE  /\ SwitchDone
           /\ \A t \in Tasks : state[t] \in Dead => state'[t] \in Dead
           /\ state'[currentTcb] \notin Dead
<1> DEFINE c  == currentTcb
           q  == ReadyRemove(ready, c)
           st == [state EXCEPT ![c] = "BLOCKED"]
<1>1. /\ Coherent(ready, prio, state, table)
      /\ state \in [Tasks -> States]
      /\ c \in table /\ c \in Tasks /\ state[c] \notin Dead
      /\ \A t \in Tasks : state[t] = "RUNNING" => t = c
      /\ \A t \in table : state[t] # "UNUSED"
  BY InvParts DEF ListNow, Coherent, Occupied, OneRunner, Chosen, TaskStates
<1>2. Coherent(q, prio, st, table)
  BY <1>1, DropProperties DEF States
<1>3. st[c] = "BLOCKED" /\ \A t \in Tasks \ {c} : st[t] = state[t]
  BY <1>1
<1>4. SwitchOp(q, st)
  BY DEF BlockCurrentOp
<1> HIDE DEF q, st, c
<1>5. /\ \A t \in Tasks : st[t] # "RUNNING"
      /\ \A t \in table : st[t] # "UNUSED"
      /\ \A t \in Tasks \ table : st[t] = state[t]
  BY <1>1, <1>3 DEF Coherent
<1>6. /\ SwitchDone
      /\ \A t \in Tasks : state'[t] = st[t] \/ (st[t] = "READY" /\ state'[t] = "RUNNING")
  BY <1>2, <1>4, <1>5, SwitchFrom
<1>7. \A t \in Tasks : state[t] \in Dead => state'[t] \in Dead
  BY <1>1, <1>3, <1>6 DEF Dead
<1>8. state'[c] \notin Dead
  BY <1>1, <1>3, <1>6 DEF Dead
<1> QED
  BY <1>6, <1>7, <1>8 DEF c

\* A scheduling call reestablishes the invariant.
LEMMA InvAfterSwitch ==
    ASSUME KernelInv, pendsv = FALSE, SwitchDone,
           table' = table, RestTyped', mode' # "boot",
           currentTcb' # NULL => currentTcb' \in table /\ state'[currentTcb'] \notin Dead,
           mode' \in {"thread", "isr"} /\ ~pendsv' => currentTcb' # NULL
    PROVE  KernelInv'
<1>1. /\ Coherent(ready, prio, state, table)
      /\ state' \in [Tasks -> States]
      /\ table \subseteq Tasks
      /\ \A t \in Tasks \ table : state[t] \in {"UNUSED", "READY"}
  BY InvParts DEF ListNow, Coherent, TaskStates, SwitchDone
<1>2. ListNow'
  BY DEF ListNow, SwitchDone
<1>3. OneRunner'
  <2>1. CASE pendsv'
    <3>1. /\ Chosen' = nextTcb' /\ nextTcb' \in table /\ nextTcb' # NULL
          /\ state'[nextTcb'] = "RUNNING"
          /\ \A t \in Tasks : state'[t] = "RUNNING" => t = nextTcb'
      BY <1>1, <2>1, ContextsAssumption DEF Chosen, SwitchDone
    <3> QED
      BY <3>1 DEF OneRunner, Dead
  <2>2. CASE ~ pendsv'
    <3>1. /\ Chosen' = currentTcb'
          /\ \A t \in Tasks : state'[t] # "RUNNING"
      BY <2>2 DEF Chosen, SwitchDone
    <3> QED
      BY <2>2, <3>1 DEF OneRunner
  <2> QED
    BY <2>1, <2>2
<1>4. TaskStates'
  BY <1>1 DEF TaskStates, SwitchDone
<1>5. Occupied'
  BY DEF Occupied
<1> QED
  BY <1>2, <1>3, <1>4, <1>5, InvParts
-----------------------------------------------------------------------------
(***************************************************************************)
(* Every step preserves the invariant.                                     *)
(***************************************************************************)
LEMMA StepInv == KernelInv /\ [Next]_vars => KernelInv'
<1> SUFFICES ASSUME KernelInv, [Next]_vars PROVE KernelInv'
  OBVIOUS
<1>i. /\ ListNow /\ RestTyped /\ OneRunner /\ TaskStates /\ Occupied
      /\ state \in [Tasks -> States] /\ prio \in [Tasks -> Nat]
      /\ table \subseteq Tasks /\ NULL \notin Tasks
      /\ \A t \in Tasks : state[t] = "READY" /\ t \in table <=> Contains(ready, t)
  <2>1. ListNow /\ RestTyped /\ OneRunner /\ TaskStates /\ Occupied
    BY InvParts
  <2>2. \A u : Contains(ready, u) <=> u \in table /\ state[u] = "READY"
    BY <2>1, CoherentMembers DEF ListNow
  <2> QED
    BY <2>1, <2>2, ContextsAssumption DEF ListNow, Coherent
<1>1. ASSUME NEW t \in Tasks, TaskInit(t) PROVE KernelInv'
  <2>0. t \notin table /\ state[t] # "READY" /\ state[t] # "RUNNING"
    BY <1>1, <1>i DEF TaskInit, TaskStates
  <2>1. /\ state' = [state EXCEPT ![t] = "READY"] /\ prio' = [prio EXCEPT ![t] = BasePrio[t]]
        /\ ready' = ready /\ table' = table
    BY <1>1 DEF TaskInit
  <2>2. /\ prio' \in [Tasks -> Nat] /\ state' \in [Tasks -> States]
        /\ state'[t] = "READY"
        /\ \A u \in Tasks \ {t} : prio'[u] = prio[u] /\ state'[u] = state[u]
    BY <1>i, <2>1, PriorityAssumption DEF States
  <2>3. ListNow'
    <3>1. GoodList(ready, prio) /\ ~ Contains(ready, t)
      BY <1>i, <2>0 DEF ListNow, Coherent
    <3>2. ReadyRemove(ready, t) = ready
      BY <3>1 DEF ReadyRemove, RemoveFirst, Contains
    <3>3. GoodList(ready, prio')
      BY <1>i, <2>2, <3>1, <3>2, ReadyRemoveProperties
    <3>4. \A u : Contains(ready, u) <=> u \in table /\ state[u] = "READY"
      BY <1>i, CoherentMembers DEF ListNow
    <3>5. \A u : Contains(ready, u) <=> u \in table /\ state'[u] = "READY"
      BY <1>i, <2>0, <2>2, <3>4
    <3>6. Coherent(ready, prio', state', table)
      BY <1>i, <2>2, <3>3, <3>5, CoherentFromMembers
    <3> QED
      BY <2>1, <3>6 DEF ListNow
  <2>4. RestTyped'
    BY <1>1, <1>i DEF RestTyped, TaskInit, cpuVars
  <2>5. OneRunner'
    BY <1>1, <1>i, <2>0, <2>2 DEF OneRunner, Chosen, TaskInit, cpuVars
  <2>6. TaskStates'
    BY <1>i, <2>0, <2>1, <2>2 DEF TaskStates
  <2>7. Occupied'
    BY <1>1, <1>i, <2>0, <2>2 DEF Occupied, TaskInit, cpuVars
  <2> QED
    BY <2>3, <2>4, <2>5, <2>6, <2>7, InvParts
<1>2. ASSUME NEW t \in Tasks, TaskAdd(t) PROVE KernelInv'
  <2>1. CASE Cardinality(table) >= MaxTasks \/ IdInUse(TaskId[t])
    <3>1. UNCHANGED <<state, table, ready, prio, ctx, nextTcb, pendsv, currentTcb, cpu, mode, starting>>
      BY <1>2, <2>1 DEF TaskAdd, cpuVars
    <3>2. addResult' \in [Tasks -> {"none", "ok", "failed"}]
      BY <1>2, <1>i, <2>1 DEF TaskAdd, RestTyped
    <3> QED
      BY <1>i, <3>1, <3>2, InvParts
         DEF ListNow, RestTyped, OneRunner, Chosen, TaskStates, Occupied
  <2>2. CASE ~ (Cardinality(table) >= MaxTasks \/ IdInUse(TaskId[t]))
    <3>1. /\ state' = [state EXCEPT ![t] = "READY"]
          /\ table' = table \cup {t}
          /\ ready' = ReadyInsert(ready, prio, t)
          /\ UNCHANGED <<prio, ctx, nextTcb, pendsv, currentTcb, cpu, mode, starting>>
          /\ InBoot \/ InTask
          /\ addResult' = [addResult EXCEPT ![t] = "ok"]
          /\ t \in table => IdInUse(TaskId[t])
      BY <1>2, <2>2 DEF TaskAdd, cpuVars, IdInUse
    <3>2. t \notin table /\ state[t] = "READY"
      BY <1>2, <1>i, <2>2, <3>1 DEF TaskAdd, TaskStates
    <3>3. state' = state
      BY <1>i, <3>1, <3>2
    <3>4. ListNow'
      <4>1. Coherent(ReadyInsert(ready, prio, t), prio, [state EXCEPT ![t] = "READY"], table \cup {t})
        BY <1>i, ListProperties DEF ListNow
      <4> QED
        BY <3>1, <4>1 DEF ListNow
    <3>5. RestTyped'
      BY <1>i, <3>1 DEF RestTyped
    <3>6. OneRunner' /\ TaskStates' /\ Occupied'
      BY <1>i, <3>1, <3>2, <3>3 DEF OneRunner, Chosen, TaskStates, Occupied
    <3> QED
      BY <3>4, <3>5, <3>6, InvParts
  <2> QED
    BY <2>1, <2>2
<1>3. CASE KernelStart
  <2> DEFINE n == PickNext(ready, state)
  <2>0. ~pendsv /\ mode = "boot" /\ currentTcb = NULL
    BY <1>3, <1>i DEF KernelStart, InBoot, Occupied
  <2>1. /\ n # NULL => /\ state' = [state EXCEPT ![n] = "RUNNING"]
                       /\ ready' = ReadyRemove(ready, n)
                       /\ currentTcb' = n /\ nextTcb' = n /\ starting' = n
                       /\ mode' = "thread"
        /\ n = NULL => /\ mode' = "halt"
                       /\ UNCHANGED <<state, ready, currentTcb, nextTcb, starting>>
        /\ UNCHANGED <<prio, ctx, addResult, table, pendsv, cpu>>
    BY <1>3 DEF KernelStart
  <2>2. n # NULL => /\ n \in table /\ state[n] = "READY"
                    /\ Coherent(ReadyRemove(ready, n), prio, [state EXCEPT ![n] = "RUNNING"], table)
    BY <1>i, SwitchProperties DEF ListNow
  <2> HIDE DEF n
  <2>3. CASE n = NULL
    BY <1>i, <2>0, <2>1, <2>3, InvParts
       DEF ListNow, RestTyped, OneRunner, Chosen, TaskStates, Occupied
  <2>4. CASE n # NULL
    <3>1. /\ state'[n] = "RUNNING" /\ n \in Tasks /\ n \in table
          /\ \A t \in Tasks \ {n} : state'[t] = state[t]
      BY <1>i, <2>1, <2>2, <2>4
    <3>2. ListNow'
      BY <2>1, <2>2, <2>4 DEF ListNow
    <3>3. RestTyped'
      BY <1>i, <2>1, <2>4, <3>1 DEF RestTyped
    <3>4. OneRunner'
      BY <1>i, <2>0, <2>1, <2>4, <3>1 DEF OneRunner, Chosen, Dead
    <3>5. TaskStates' /\ Occupied'
      BY <1>i, <2>0, <2>1, <2>4, <3>1 DEF TaskStates, Occupied, Dead
    <3> QED
      BY <3>2, <3>3, <3>4, <3>5, InvParts
  <2> QED
    BY <2>3, <2>4
<1>4. CASE StartTcb
  <2>1. cpu' \in Tasks \cup {NULL, Boot} /\ starting' = NULL
    BY <1>4, <1>i DEF StartTcb, RestTyped
  <2>2. UNCHANGED <<taskVars, ready, currentTcb, nextTcb, pendsv, mode>>
    BY <1>4 DEF StartTcb
  <2> QED
    BY <1>i, <2>1, <2>2, InvParts
       DEF ListNow, RestTyped, OneRunner, Chosen, TaskStates, Occupied, taskVars
<1>5. CASE Tick
  <2>1. pendsv = FALSE /\ currentTcb # NULL /\ ScheduleOp(currentTcb)
    BY <1>5, <1>i DEF Tick, RestTyped
  <2>2. SwitchDone /\ state'[currentTcb] \notin Dead
    BY <2>1, ScheduleStep
  <2>3. UNCHANGED <<ctx, addResult, table, currentTcb, cpu, starting>> /\ mode' = "isr"
    BY <1>5 DEF Tick
  <2>4. RestTyped'
    <3>1. (nextTcb' = nextTcb /\ pendsv' = pendsv) \/ (nextTcb' \in Tasks /\ pendsv' = TRUE)
      BY <1>i, <2>1, <2>2 DEF ScheduleOp, SwitchOp, SwitchDone
    <3> QED
      BY <1>i, <2>3, <3>1 DEF RestTyped
  <2> QED
    BY <1>i, <2>1, <2>2, <2>3, <2>4, InvAfterSwitch DEF Occupied
<1>6. ASSUME NEW t \in Tasks, state[t] = "BLOCKED", UnblockOp(t),
             UNCHANGED <<ctx, addResult, table, currentTcb, cpu, starting>>,
             mode' = "thread", mode \in {"thread", "isr"}
      PROVE  KernelInv'
  <2>1. /\ state' = [state EXCEPT ![t] = "READY"]
        /\ ready' = ReadyInsert(ready, prio, t)
        /\ UNCHANGED <<prio, nextTcb, pendsv, ctx, addResult, table, currentTcb, cpu, starting>>
    BY <1>6 DEF UnblockOp, cpuVars
  <2>2. /\ t \in table
        /\ state'[t] = "READY"
        /\ \A u \in Tasks \ {t} : state'[u] = state[u]
    BY <1>6, <1>i, <2>1 DEF TaskStates
  <2>3. ListNow'
    <3>1. Coherent(ReadyInsert(ready, prio, t), prio, [state EXCEPT ![t] = "READY"], table \cup {t})
      BY <1>i, ListProperties DEF ListNow
    <3>2. table \cup {t} = table
      BY <2>2
    <3> QED
      BY <2>1, <3>1, <3>2 DEF ListNow
  <2>4. RestTyped'
    BY <1>6, <1>i, <2>1 DEF RestTyped
  <2>5. OneRunner'
    BY <1>6, <1>i, <2>1, <2>2 DEF OneRunner, Chosen, Dead
  <2>6. TaskStates' /\ Occupied'
    BY <1>6, <1>i, <2>1, <2>2 DEF TaskStates, Occupied, Dead
  <2> QED
    BY <2>3, <2>4, <2>5, <2>6, InvParts
<1>7. CASE IsrReturn
  <2>1. UNCHANGED <<taskVars, ready, currentTcb, nextTcb, pendsv, cpu, starting>>
    BY <1>7 DEF IsrReturn
  <2>2. mode = "isr" /\ mode' = "thread"
    BY <1>7 DEF IsrReturn, InIsr
  <2> QED
    BY <1>i, <2>1, <2>2, InvParts
       DEF ListNow, RestTyped, OneRunner, Chosen, TaskStates, Occupied, taskVars
<1>8. CASE PendSV
  <2>1. /\ pendsv = TRUE /\ pendsv' = FALSE /\ nextTcb # NULL /\ nextTcb \in Tasks
        /\ mode = "thread"
    BY <1>8, <1>i DEF PendSV, OneRunner, RestTyped
  <2>2. /\ currentTcb' = nextTcb
        /\ UNCHANGED <<state, prio, addResult, table, ready, nextTcb, mode, starting>>
    BY <1>8, <2>1 DEF PendSV
  <2>3. ctx' \in [Tasks -> Tasks \cup {NULL, Boot}]
    BY <1>8, <1>i DEF PendSV, RestTyped
  <2>4. cpu' \in Tasks \cup {NULL, Boot}
    <3>1. cpu' = Boot \/ cpu' = ctx'[nextTcb]
      BY <1>8, <2>1 DEF PendSV
    <3> QED
      BY <2>1, <2>3, <3>1
  <2>5. RestTyped'
    BY <1>i, <2>1, <2>2, <2>3, <2>4 DEF RestTyped
  <2>6. OneRunner'
    BY <1>i, <2>1, <2>2 DEF OneRunner, Chosen
  <2>7. ListNow' /\ TaskStates'
    BY <1>i, <2>2 DEF ListNow, TaskStates
  <2>8. Occupied'
    BY <1>i, <2>1, <2>2 DEF Occupied, OneRunner, Chosen
  <2> QED
    BY <2>5, <2>6, <2>7, <2>8, InvParts
<1>9. CASE HardFault
  <2> DEFINE st == [state EXCEPT ![currentTcb] = "FAULTED"]
             q  == ReadyRemove(ready, currentTcb)
             cx == [ctx EXCEPT ![currentTcb] = NULL]
             n  == PickNext(q, st)
  <2>1. /\ ~pendsv /\ mode = "thread"
        /\ currentTcb # NULL /\ currentTcb \in table /\ currentTcb \in Tasks
    BY <1>9, <1>i DEF HardFault, InTask, Occupied
  <2>2. /\ ctx' = cx
        /\ n = NULL => /\ state' = st /\ ready' = q
                       /\ currentTcb' = NULL /\ mode' = "halt"
                       /\ UNCHANGED <<nextTcb, cpu>>
        /\ n # NULL => /\ state' = [st EXCEPT ![n] = "RUNNING"]
                       /\ ready' = ReadyRemove(q, n)
                       /\ currentTcb' = n /\ nextTcb' = n
                       /\ cpu' = cx[n]
                       /\ mode' = mode
        /\ UNCHANGED <<prio, addResult, table, pendsv, starting>>
    BY <1>9, <2>1 DEF HardFault
  <2>3. Coherent(q, prio, st, table)
    BY <1>i, <2>1, DropProperties DEF ListNow, States
  <2>4. n # NULL => /\ n \in table /\ st[n] = "READY"
                    /\ Coherent(ReadyRemove(q, n), prio, [st EXCEPT ![n] = "RUNNING"], table)
    <3>1. n = PickNext(q, st)
      OBVIOUS
    <3> HIDE DEF n, q, st
    <3> QED
      BY <2>3, <3>1, SwitchProperties
  <2>5. /\ st[currentTcb] = "FAULTED" /\ \A t \in Tasks \ {currentTcb} : st[t] = state[t]
        /\ st \in [Tasks -> States]
    BY <1>i, <2>1 DEF States
  <2>6. cx \in [Tasks -> Tasks \cup {NULL, Boot}]
    BY <1>i DEF RestTyped
  <2> HIDE DEF n, q, st, cx
  <2>7. \A t \in Tasks : st[t] # "RUNNING"
    BY <1>i, <2>1, <2>5 DEF OneRunner, Chosen
  <2>8. CASE n = NULL
    <3>1. ListNow' /\ RestTyped'
      BY <1>i, <2>2, <2>3, <2>6, <2>8 DEF ListNow, RestTyped
    <3>2. OneRunner' /\ TaskStates' /\ Occupied'
      BY <1>i, <2>1, <2>2, <2>5, <2>7, <2>8 DEF OneRunner, Chosen, TaskStates, Occupied
    <3> QED
      BY <3>1, <3>2, InvParts
  <2>9. CASE n # NULL
    <3>1. /\ state'[n] = "RUNNING" /\ n \in Tasks /\ n \in table
          /\ \A t \in Tasks \ {n} : state'[t] = st[t]
      BY <1>i, <2>2, <2>4, <2>5, <2>9
    <3>2. ListNow'
      BY <2>2, <2>4, <2>9 DEF ListNow
    <3>3. RestTyped'
      BY <1>i, <2>2, <2>6, <2>9, <3>1 DEF RestTyped
    <3>4. OneRunner'
      BY <2>1, <2>2, <2>7, <2>9, <3>1 DEF OneRunner, Chosen, Dead
    <3>5. TaskStates' /\ Occupied'
      BY <1>i, <2>1, <2>2, <2>5, <2>9, <3>1 DEF TaskStates, Occupied, Dead
    <3> QED
      BY <3>2, <3>3, <3>4, <3>5, InvParts
  <2> QED
    BY <2>8, <2>9
<1>10. ASSUME InTask, ScheduleOp(currentTcb) \/ BlockCurrentOp(currentTcb),
              UNCHANGED <<ctx, addResult, table, cpuVars>>
       PROVE  KernelInv'
  <2>1. pendsv = FALSE /\ currentTcb # NULL /\ mode = "thread"
    BY <1>10, <1>i DEF InTask, Occupied, RestTyped
  <2>2. SwitchDone /\ state'[currentTcb] \notin Dead
    BY <1>10, <2>1, ScheduleStep, BlockStep
  <2>3. UNCHANGED <<ctx, addResult, table, currentTcb, cpu, mode, starting>>
    BY <1>10 DEF cpuVars
  <2>4. RestTyped'
    <3>1. (nextTcb' = nextTcb /\ pendsv' = pendsv) \/ (nextTcb' \in Tasks /\ pendsv' = TRUE)
      BY <1>10, <1>i, <2>1, <2>2 DEF ScheduleOp, BlockCurrentOp, SwitchOp, SwitchDone
    <3> QED
      BY <1>i, <2>3, <3>1 DEF RestTyped
  <2> QED
    BY <1>i, <2>1, <2>2, <2>3, <2>4, InvAfterSwitch DEF Occupied
<1>11. ASSUME NEW t \in Tasks, NEW p \in PrioArgs, SetPriority(t, p) PROVE KernelInv'
  <2>1. /\ prio' = [prio EXCEPT ![t] = p]
        /\ ready' = Repositioned(ready, prio, t, p)
        /\ UNCHANGED <<state, nextTcb, pendsv, ctx, addResult, table, currentTcb, cpu, mode, starting>>
    BY <1>11 DEF SetPriority, SetPriorityOp, cpuVars
  <2>2. Coherent(Repositioned(ready, prio, t, p), [prio EXCEPT ![t] = p], state, table)
    <3>1. p \in Nat
      BY PriorityAssumption
    <3> QED
      BY <1>i, <3>1, RepositionProperties DEF ListNow
  <2>3. ListNow'
    BY <2>1, <2>2 DEF ListNow
  <2> QED
    BY <1>i, <2>1, <2>3, InvParts DEF RestTyped, OneRunner, Chosen, TaskStates, Occupied
<1>12. ASSUME NEW t \in Tasks, Kill(t) PROVE KernelInv'
  <2>1. /\ ~pendsv /\ t \in table /\ t # currentTcb /\ mode = "thread"
        /\ ready' = ReadyRemove(ready, t)
        /\ state' = [state EXCEPT ![t] = "KILLED"]
        /\ ctx' = [ctx EXCEPT ![t] = NULL]
        /\ UNCHANGED <<prio, nextTcb, pendsv, addResult, table, currentTcb, cpu, mode, starting>>
    BY <1>12 DEF Kill, InTask, cpuVars
  <2>2. state'[t] = "KILLED" /\ \A u \in Tasks \ {t} : state'[u] = state[u]
    BY <1>i, <2>1
  <2>3. ListNow'
    <3>1. Coherent(ReadyRemove(ready, t), prio, [state EXCEPT ![t] = "KILLED"], table)
      BY <1>i, DropProperties DEF ListNow, States
    <3> QED
      BY <2>1, <3>1 DEF ListNow
  <2>4. RestTyped'
    BY <1>i, <2>1 DEF RestTyped
  <2>5. OneRunner' /\ TaskStates' /\ Occupied'
    BY <1>i, <2>1, <2>2 DEF OneRunner, Chosen, TaskStates, Occupied, Dead
  <2> QED
    BY <2>3, <2>4, <2>5, InvParts
<1>13. CASE Exit
  <2> DEFINE st == [state EXCEPT ![currentTcb] = "KILLED"]
             q  == ReadyRemove(ready, currentTcb)
  <2>1. /\ pendsv = FALSE /\ mode = "thread"
        /\ currentTcb # NULL /\ currentTcb \in table /\ currentTcb \in Tasks
    BY <1>13, <1>i DEF Exit, InTask, Occupied, RestTyped
  <2>2. Coherent(q, prio, st, table)
    BY <1>i, <2>1, DropProperties DEF ListNow, States
  <2>3. /\ SwitchOp(q, st)
        /\ mode' = IF PickNext(q, st) = NULL THEN "halt" ELSE mode
        /\ ctx' = [ctx EXCEPT ![currentTcb] = NULL]
        /\ currentTcb' = NULL
        /\ UNCHANGED <<addResult, table, cpu, starting>>
    BY <1>13 DEF Exit
  <2>4. st[currentTcb] = "KILLED" /\ \A t \in Tasks \ {currentTcb} : st[t] = state[t]
    BY <1>i, <2>1
  <2> HIDE DEF st, q
  <2>5. /\ \A t \in Tasks : st[t] # "RUNNING"
        /\ \A t \in table : st[t] # "UNUSED"
        /\ \A t \in Tasks \ table : st[t] = state[t]
    BY <1>i, <2>1, <2>4 DEF OneRunner, Chosen, TaskStates
  <2>6. SwitchDone /\ (pendsv' <=> PickNext(q, st) # NULL)
    BY <2>1, <2>2, <2>3, <2>5, SwitchFrom
  <2>7. RestTyped'
    <3>1. (nextTcb' = nextTcb /\ pendsv' = pendsv) \/ (nextTcb' \in Tasks /\ pendsv' = TRUE)
      BY <1>i, <2>3, <2>6 DEF SwitchOp, SwitchDone
    <3> QED
      BY <1>i, <2>1, <2>3, <3>1 DEF RestTyped
  <2> QED
    BY <2>1, <2>3, <2>6, <2>7, InvAfterSwitch
<1>14. CASE UNCHANGED vars
  BY <1>14, <1>i, InvParts
     DEF ListNow, RestTyped, OneRunner, Chosen, TaskStates, Occupied, vars
<1>15. ASSUME NEW t \in Tasks, IsrUnblock(t) \/ Unblock(t) PROVE KernelInv'
  BY <1>6, <1>15 DEF IsrUnblock, Unblock, InIsr, InTask, cpuVars
<1>16. CASE Yield \/ BlockCurrent
  BY <1>10, <1>16 DEF Yield, BlockCurrent
<1> QED
  BY <1>1, <1>2, <1>3, <1>4, <1>5, <1>7, <1>8, <1>9, <1>11, <1>12, <1>13,
     <1>14, <1>15, <1>16 DEF Next

\* The scheduler's inductive invariant holds of every behaviour.
THEOREM KernelInvariant == Spec => []KernelInv
<1>1. Init => KernelInv
  BY InitInv
<1>2. KernelInv /\ [Next]_vars => KernelInv'
  BY StepInv
<1> QED
  BY <1>1, <1>2, PTL DEF Spec

\* Every variable keeps its type.
THEOREM TypeCorrect == Spec => []TypeOK
BY KernelInvariant, PTL DEF KernelInv

\* The ready list holds each READY task of the table once and nothing else,
\* in descending priority, through every kernel call.
THEOREM ReadyListCorrect == Spec => [](ReadyListExact /\ ReadySorted)
BY KernelInvariant, PTL DEF KernelInv

\* At most one task is RUNNING, and a chosen task is alive.
THEOREM OneRunnerCorrect == Spec => []OneRunner
BY KernelInvariant, PTL DEF KernelInv
-----------------------------------------------------------------------------
(***************************************************************************)
(* Contexts.                                                               *)
(***************************************************************************)
LEMMA InitContexts == Init => Contexts
BY ContextsAssumption DEF Init, Contexts, ContextsIntact

\* The facts of the invariant that the steps below use.
LEMMA KernelFacts ==
    ASSUME KernelInv
    PROVE  /\ state \in [Tasks -> States]
           /\ ctx \in [Tasks -> Tasks \cup {NULL, Boot}]
           /\ pendsv \in BOOLEAN
           /\ table \subseteq Tasks
           /\ NULL \notin Tasks /\ Boot \notin Tasks /\ Boot # NULL
           /\ \A t \in table : state[t] # "UNUSED"
           /\ \A t \in Tasks \ table : state[t] \in {"UNUSED", "READY"}
           /\ mode = "boot" => currentTcb = NULL /\ ~pendsv
           /\ mode \in {"thread", "isr"} /\ ~pendsv => currentTcb # NULL
           /\ currentTcb # NULL => currentTcb \in table /\ state[currentTcb] \notin Dead
           /\ pendsv => nextTcb \in table /\ state[nextTcb] = "RUNNING"
           /\ \A u : Contains(ready, u) <=> u \in table /\ state[u] = "READY"
<1>1. ListNow /\ RestTyped /\ OneRunner /\ TaskStates /\ Occupied
  BY InvParts
<1>2. \A u : Contains(ready, u) <=> u \in table /\ state[u] = "READY"
  BY <1>1, CoherentMembers DEF ListNow
<1>3. pendsv => nextTcb \in table /\ state[nextTcb] = "RUNNING"
  BY <1>1 DEF OneRunner, Chosen
<1> QED
  BY <1>1, <1>2, <1>3, ContextsAssumption
     DEF ListNow, Coherent, RestTyped, TaskStates, Occupied

\* A step of the scheduler from a task's call or from SysTick leaves who is dead
\* and who is not yet added alone.
LEMMA ScheduleKeeps ==
    ASSUME KernelInv, pendsv = FALSE, currentTcb # NULL,
           ScheduleOp(currentTcb) \/ BlockCurrentOp(currentTcb)
    PROVE  /\ \A t \in Tasks : state[t] \in Dead => state'[t] \in Dead
           /\ \A t \in Tasks \ table : state'[t] = state[t]
           /\ pendsv' => \A i \in 1 .. Len(ready') : prio'[ready'[i]] <= prio'[nextTcb']
<1>1. /\ SwitchDone
      /\ \A t \in Tasks : state[t] \in Dead => state'[t] \in Dead
  BY ScheduleStep, BlockStep
<1> QED
  BY <1>1 DEF SwitchDone

LEMMA StepContexts ==
    ASSUME TickInStartWindow = FALSE
    PROVE  KernelInv /\ Contexts /\ [Next]_vars => Contexts'
<1> SUFFICES ASSUME KernelInv, Contexts, [Next]_vars PROVE Contexts'
  OBVIOUS
<1> USE DEF Contexts, ContextsIntact
<1>i. /\ state \in [Tasks -> States]
      /\ ctx \in [Tasks -> Tasks \cup {NULL, Boot}]
      /\ pendsv \in BOOLEAN
      /\ table \subseteq Tasks
      /\ NULL \notin Tasks /\ Boot \notin Tasks /\ Boot # NULL
      /\ \A t \in table : state[t] # "UNUSED"
      /\ \A t \in Tasks \ table : state[t] \in {"UNUSED", "READY"}
      /\ mode = "boot" => currentTcb = NULL /\ ~pendsv
      /\ mode \in {"thread", "isr"} /\ ~pendsv => currentTcb # NULL
      /\ currentTcb # NULL => currentTcb \in table /\ state[currentTcb] \notin Dead
      /\ pendsv => nextTcb \in table /\ state[nextTcb] = "RUNNING"
      /\ \A u : Contains(ready, u) <=> u \in table /\ state[u] = "READY"
  BY KernelFacts
<1>1. ASSUME NEW t \in Tasks, TaskInit(t) PROVE Contexts'
  <2>1. /\ t \notin table
        /\ state' = [state EXCEPT ![t] = "READY"]
        /\ ctx' = [ctx EXCEPT ![t] = t]
        /\ UNCHANGED <<table, pendsv, currentTcb, cpu, mode, starting>>
    BY <1>1, <1>i DEF TaskInit, cpuVars
  <2>2. /\ ctx'[t] = t
        /\ \A u \in Tasks \ {t} : ctx'[u] = ctx[u] /\ state'[u] = state[u]
    BY <1>i, <2>1
  <2> QED
    BY <1>i, <2>1, <2>2
<1>2. ASSUME NEW t \in Tasks, TaskAdd(t) PROVE Contexts'
  <2>1. /\ state[t] # "UNUSED"
        /\ UNCHANGED <<ctx, pendsv, currentTcb, cpu, mode, starting>>
        /\ \/ UNCHANGED <<state, table>>
           \/ table' = table \cup {t} /\ t \notin table /\ state' = [state EXCEPT ![t] = "READY"]
    BY <1>2 DEF TaskAdd, cpuVars, IdInUse
  <2>2. \A u \in Tasks : state'[u] = state[u] \/ u = t
    BY <1>i, <2>1
  <2> QED
    BY <1>i, <2>1, <2>2
<1>3. CASE KernelStart
  <2> DEFINE n == PickNext(ready, state)
  <2>1. /\ n # NULL => /\ state' = [state EXCEPT ![n] = "RUNNING"]
                       /\ currentTcb' = n /\ starting' = n
                       /\ mode' = "thread"
        /\ n = NULL => /\ mode' = "halt"
                       /\ UNCHANGED <<state, currentTcb, starting>>
        /\ UNCHANGED <<ctx, table, pendsv, cpu>>
        /\ mode = "boot"
    BY <1>3 DEF KernelStart, InBoot
  <2>2. n # NULL => n \in table /\ state[n] = "READY"
    <3>1. ListNow
      BY InvParts
    <3>2. Coherent(ready, prio, state, table) /\ n = PickNext(ready, state)
      BY <3>1 DEF ListNow
    <3> HIDE DEF n
    <3>3. n # NULL =>
            /\ n \in table /\ state[n] = "READY"
            /\ Coherent(ReadyRemove(ready, n), prio, [state EXCEPT ![n] = "RUNNING"], table)
      BY <3>2, SwitchProperties
    <3> QED
      BY <3>3
  <2> HIDE DEF n
  <2>3. \A u \in Tasks : state'[u] = state[u] \/ (u = n /\ n \in table /\ state[u] = "READY")
    BY <1>i, <2>1, <2>2
  <2> QED
    BY <1>i, <2>1, <2>2, <2>3 DEF Dead
<1>4. CASE StartTcb
  <2>1. /\ UNCHANGED <<state, ctx, table, currentTcb, pendsv, mode>>
        /\ mode = "thread" /\ ~pendsv /\ starting # NULL
        /\ cpu' = ctx[starting] /\ starting' = NULL
    BY <1>4 DEF StartTcb, taskVars
  <2> QED
    BY <1>i, <2>1
<1>5. CASE Tick
  <2>1. /\ pendsv = FALSE /\ currentTcb # NULL /\ ScheduleOp(currentTcb)
        /\ starting = NULL /\ mode = "thread" /\ mode' = "isr"
        /\ UNCHANGED <<ctx, table, currentTcb, cpu, starting>>
    BY <1>5, <1>i DEF Tick
  <2>2. /\ \A t \in Tasks : state[t] \in Dead => state'[t] \in Dead
        /\ \A t \in Tasks \ table : state'[t] = state[t]
    BY <2>1, ScheduleKeeps
  <2> QED
    BY <1>i, <2>1, <2>2
<1>6. ASSUME NEW t \in Tasks, IsrUnblock(t) \/ Unblock(t) PROVE Contexts'
  <2>1. /\ state[t] = "BLOCKED" /\ state' = [state EXCEPT ![t] = "READY"]
        /\ UNCHANGED <<ctx, table, pendsv, currentTcb, cpu, starting>>
        /\ mode \in {"thread", "isr"} /\ mode' = "thread"
    BY <1>6 DEF IsrUnblock, Unblock, UnblockOp, InIsr, InTask, cpuVars
  <2>2. t \in table /\ \A u \in Tasks : state'[u] = state[u] \/ u = t
    BY <1>i, <2>1
  <2> QED
    BY <1>i, <2>1, <2>2 DEF Dead
<1>7. CASE IsrReturn
  BY <1>7, <1>i DEF IsrReturn, InIsr, taskVars
<1>8. CASE PendSV
  <2>1. /\ pendsv = TRUE /\ pendsv' = FALSE /\ mode = "thread"
        /\ starting = NULL /\ cpu \in Tasks
        /\ nextTcb \in table /\ nextTcb # NULL /\ nextTcb \in Tasks
        /\ state[nextTcb] \notin Dead
    BY <1>8, <1>i DEF PendSV, Dead
  <2> DEFINE saved == IF currentTcb = NULL THEN ctx ELSE [ctx EXCEPT ![currentTcb] = cpu]
  <2>2. saved = ctx
    <3>1. CASE currentTcb = NULL
      BY <3>1
    <3>2. CASE currentTcb # NULL
      <4>1. cpu = currentTcb /\ ctx[currentTcb] = currentTcb
        BY <1>i, <2>1, <3>2
      <4> QED
        BY <1>i, <3>2, <4>1
    <3> QED
      BY <3>1, <3>2
  <2>3. /\ ctx' = saved /\ currentTcb' = nextTcb
        /\ cpu' = IF cpu = Boot THEN Boot ELSE saved[nextTcb]
        /\ UNCHANGED <<state, table, mode, starting>>
    BY <1>8, <2>1 DEF PendSV
  <2> HIDE DEF saved
  <2>4. ctx' = ctx /\ cpu' = nextTcb
    BY <1>i, <2>1, <2>2, <2>3
  <2> QED
    BY <1>i, <2>1, <2>3, <2>4
<1>9. CASE HardFault
  <2> DEFINE st == [state EXCEPT ![currentTcb] = "FAULTED"]
             q  == ReadyRemove(ready, currentTcb)
             cx == [ctx EXCEPT ![currentTcb] = NULL]
             n  == PickNext(q, st)
  <2>1. /\ pendsv = FALSE /\ mode = "thread" /\ starting = NULL
        /\ currentTcb # NULL /\ currentTcb \in table /\ currentTcb \in Tasks
    BY <1>9, <1>i DEF HardFault, InTask
  <2>2. /\ ctx' = cx
        /\ n = NULL => /\ state' = st /\ currentTcb' = NULL /\ mode' = "halt"
        /\ n # NULL => /\ state' = [st EXCEPT ![n] = "RUNNING"]
                       /\ currentTcb' = n
                       /\ cpu' = cx[n]
                       /\ mode' = mode
        /\ UNCHANGED <<table, pendsv, starting>>
    BY <1>9, <2>1 DEF HardFault
  <2>3. n # NULL => n \in table /\ st[n] = "READY"
    <3>0. Coherent(ready, prio, state, table)
      BY InvParts DEF ListNow
    <3>1. Coherent(q, prio, st, table)
      BY <2>1, <3>0, DropProperties DEF States
    <3>2. n = PickNext(q, st)
      OBVIOUS
    <3> HIDE DEF n, q, st
    <3>3. n # NULL =>
            /\ n \in table /\ st[n] = "READY"
            /\ Coherent(ReadyRemove(q, n), prio, [st EXCEPT ![n] = "RUNNING"], table)
      BY <3>1, <3>2, SwitchProperties
    <3> QED
      BY <3>3
  <2>4. /\ st[currentTcb] = "FAULTED" /\ \A t \in Tasks \ {currentTcb} : st[t] = state[t]
        /\ st \in [Tasks -> States]
    BY <1>i, <2>1 DEF States
  <2>5. \A t \in Tasks \ {currentTcb} : cx[t] = ctx[t]
    BY <1>i
  <2> HIDE DEF n, q, st, cx
  <2>6. CASE n = NULL
    BY <1>i, <2>1, <2>2, <2>4, <2>5, <2>6 DEF Dead
  <2>7. CASE n # NULL
    <3>1. /\ n # currentTcb /\ n \in Tasks /\ n \in table /\ cx[n] = n
          /\ \A t \in Tasks : state'[t] = st[t] \/ t = n
      BY <1>i, <2>1, <2>2, <2>3, <2>4, <2>5, <2>7 DEF Dead
    <3> QED
      BY <1>i, <2>1, <2>2, <2>4, <2>5, <2>7, <3>1 DEF Dead
  <2> QED
    BY <2>6, <2>7
<1>10. CASE Yield \/ BlockCurrent
  <2>1. /\ pendsv = FALSE /\ currentTcb # NULL /\ cpu \in Tasks /\ mode = "thread"
        /\ ScheduleOp(currentTcb) \/ BlockCurrentOp(currentTcb)
        /\ UNCHANGED <<ctx, table, currentTcb, cpu, mode, starting>>
    BY <1>10, <1>i DEF Yield, BlockCurrent, InTask, cpuVars
  <2>2. /\ \A t \in Tasks : state[t] \in Dead => state'[t] \in Dead
        /\ \A t \in Tasks \ table : state'[t] = state[t]
    BY <2>1, ScheduleKeeps
  <2> QED
    BY <1>i, <2>1, <2>2
<1>11. ASSUME NEW t \in Tasks, NEW p \in PrioArgs, SetPriority(t, p) PROVE Contexts'
  BY <1>11, <1>i DEF SetPriority, SetPriorityOp, cpuVars
<1>12. ASSUME NEW t \in Tasks, Kill(t) PROVE Contexts'
  <2>1. /\ t \in table /\ t # currentTcb
        /\ state' = [state EXCEPT ![t] = "KILLED"]
        /\ ctx' = [ctx EXCEPT ![t] = NULL]
        /\ UNCHANGED <<pendsv, table, currentTcb, cpu, mode, starting>>
    BY <1>12 DEF Kill, cpuVars
  <2>2. /\ state'[t] = "KILLED"
        /\ \A u \in Tasks \ {t} : state'[u] = state[u] /\ ctx'[u] = ctx[u]
    BY <1>i, <2>1
  <2> QED
    BY <1>i, <2>1, <2>2 DEF Dead
<1>13. CASE Exit
  <2> DEFINE st == [state EXCEPT ![currentTcb] = "KILLED"]
             q  == ReadyRemove(ready, currentTcb)
             n  == PickNext(q, st)
  <2>1. /\ pendsv = FALSE /\ mode = "thread" /\ cpu \in Tasks /\ starting = NULL
        /\ currentTcb # NULL /\ currentTcb \in table /\ currentTcb \in Tasks
        /\ ctx' = [ctx EXCEPT ![currentTcb] = NULL]
        /\ currentTcb' = NULL
        /\ mode' \in {"thread", "halt"}
        /\ UNCHANGED <<table, cpu, starting>>
    BY <1>13, <1>i DEF Exit, InTask
  <2>2. \A u \in Tasks \ {currentTcb} : ctx'[u] = ctx[u] /\ st[u] = state[u]
    BY <1>i, <2>1
  <2>3. SwitchOp(q, st) /\ st[currentTcb] = "KILLED" /\ st \in [Tasks -> States]
    BY <1>13, <1>i, <2>1 DEF Exit, States
  <2>4. Coherent(q, prio, st, table)
    <3>1. Coherent(ready, prio, state, table)
      BY InvParts DEF ListNow
    <3> QED
      BY <2>1, <3>1, DropProperties DEF States
  <2>5. state' = st \/ \E m \in table : st[m] = "READY" /\ state' = [st EXCEPT ![m] = "RUNNING"]
    <3> HIDE DEF q, st
    <3> QED
      BY <2>3, <2>4, SwitchStep
  <2> HIDE DEF st
  <2>6. \A u \in Tasks : state'[u] = st[u] \/ (u \in table /\ st[u] = "READY")
    BY <1>i, <2>3, <2>5
  <2>7. \A u \in table : state'[u] \notin Dead => u # currentTcb /\ state[u] \notin Dead
    BY <1>i, <2>1, <2>2, <2>3, <2>6 DEF Dead
  <2>8. \A u \in Tasks \ table : state'[u] = state[u] /\ u # currentTcb
    BY <1>i, <2>1, <2>2, <2>6
  <2> QED
    BY <1>i, <2>1, <2>2, <2>7, <2>8
<1>14. CASE UNCHANGED vars
  BY <1>14 DEF vars
<1> QED
  BY <1>1, <1>2, <1>3, <1>4, <1>5, <1>6, <1>7, <1>8, <1>9, <1>10, <1>11,
     <1>12, <1>13, <1>14 DEF Next

\* When no SysTick falls into saramos_kernel_start()'s window, registers are
\* saved to and restored from the right stack in every behaviour.
THEOREM ContextsCorrect ==
    ASSUME TickInStartWindow = FALSE
    PROVE  Spec => []ContextsIntact
<1>1. Init => Contexts
  BY InitContexts
<1>2. KernelInv /\ Contexts /\ [Next]_vars => Contexts'
  BY StepContexts
<1>3. Contexts => ContextsIntact
  BY DEF Contexts
<1>4. Spec => []KernelInv
  BY KernelInvariant
<1> QED
  BY <1>1, <1>2, <1>3, <1>4, PTL DEF Spec
-----------------------------------------------------------------------------
(***************************************************************************)
(* Action properties.                                                      *)
(***************************************************************************)
LEMMA StepDispatch == KernelInv /\ [Next]_vars => [DispatchStep]_vars
<1> SUFFICES ASSUME KernelInv, Next, ~pendsv,
                    pendsv' \/ currentTcb' \notin {currentTcb, NULL}
             PROVE  \A i \in 1 .. Len(ready') : prio'[ready'[i]] <= prio'[nextTcb']
  BY DEF DispatchStep
<1>i. /\ pendsv = FALSE
      /\ Coherent(ready, prio, state, table)
      /\ mode \in {"thread", "isr"} => currentTcb # NULL
      /\ currentTcb # NULL => currentTcb \in Tasks
  BY KernelFacts, InvParts DEF ListNow
<1>1. CASE KernelStart
  <2> DEFINE n == PickNext(ready, state)
  <2>1. /\ n # NULL
        /\ ready' = ReadyRemove(ready, n) /\ nextTcb' = n /\ prio' = prio
    BY <1>1, <1>i DEF KernelStart, InBoot
  <2>2. n = PickNext(ready, state)
    OBVIOUS
  <2> HIDE DEF n
  <2>3. \A i \in 1 .. Len(ReadyRemove(ready, n)) : prio[ReadyRemove(ready, n)[i]] <= prio[n]
    BY <1>i, <2>1, <2>2, SwitchProperties
  <2> QED
    BY <2>1, <2>3
<1>2. CASE Tick \/ Yield \/ BlockCurrent
  <2>1. /\ currentTcb # NULL /\ currentTcb' = currentTcb
        /\ ScheduleOp(currentTcb) \/ BlockCurrentOp(currentTcb)
    BY <1>2, <1>i DEF Tick, Yield, BlockCurrent, InTask, cpuVars
  <2>2. pendsv' => \A i \in 1 .. Len(ready') : prio'[ready'[i]] <= prio'[nextTcb']
    BY <1>i, <2>1, ScheduleKeeps
  <2> QED
    BY <2>1, <2>2
<1>3. CASE HardFault
  <2> DEFINE st == [state EXCEPT ![currentTcb] = "FAULTED"]
             q  == ReadyRemove(ready, currentTcb)
             n  == PickNext(q, st)
  <2>1. currentTcb # NULL /\ currentTcb \in Tasks
    BY <1>3, <1>i DEF HardFault, InTask
  <2>2. Coherent(q, prio, st, table)
    BY <1>i, <2>1, DropProperties DEF States
  <2>3. /\ n # NULL
        /\ ready' = ReadyRemove(q, n) /\ nextTcb' = n /\ prio' = prio
    BY <1>3, <1>i, <2>1 DEF HardFault
  <2>4. n = PickNext(q, st)
    OBVIOUS
  <2> HIDE DEF n, q, st
  <2>5. \A i \in 1 .. Len(ReadyRemove(q, n)) : prio[ReadyRemove(q, n)[i]] <= prio[n]
    BY <2>2, <2>3, <2>4, SwitchProperties
  <2> QED
    BY <2>3, <2>5
<1>4. CASE Exit
  <2> DEFINE st == [state EXCEPT ![currentTcb] = "KILLED"]
             q  == ReadyRemove(ready, currentTcb)
  <2>1. currentTcb # NULL /\ currentTcb \in Tasks /\ currentTcb' = NULL
    BY <1>4, <1>i DEF Exit, InTask
  <2>2. Coherent(q, prio, st, table)
    BY <1>i, <2>1, DropProperties DEF States
  <2>3. SwitchOp(q, st)
    BY <1>4 DEF Exit
  <2> HIDE DEF q, st
  <2>4. /\ prio' = prio
        /\ \/ pendsv' = pendsv
           \/ \A i \in 1 .. Len(ready') : prio[ready'[i]] <= prio[nextTcb']
    BY <2>2, <2>3, SwitchStep
  <2> QED
    BY <1>i, <2>1, <2>4
<1>5. ASSUME pendsv' = pendsv, currentTcb' = currentTcb PROVE FALSE
  BY <1>5
<1>6. ~ PendSV
  BY DEF PendSV
<1> QED
  BY <1>1, <1>2, <1>3, <1>4, <1>5, <1>6
     DEF Next, TaskInit, TaskAdd, StartTcb, IsrUnblock, IsrReturn, Unblock,
         UnblockOp, Kill, SetPriority, SetPriorityOp, cpuVars

\* No scheduling decision passes over a ready task of higher priority.
THEOREM DispatchCorrect == Spec => DispatchesHighest
<1>1. KernelInv /\ [Next]_vars => [DispatchStep]_vars
  BY StepDispatch
<1>2. Spec => []KernelInv
  BY KernelInvariant
<1> QED
  BY <1>1, <1>2, PTL DEF Spec, DispatchesHighest

\* Who is dead stays dead, in every action.
LEMMA StepDeadStates ==
    KernelInv /\ [Next]_vars => \A t \in Tasks : state[t] \in Dead => state'[t] \in Dead
<1> SUFFICES ASSUME KernelInv, [Next]_vars,
                    NEW t \in Tasks, state[t] \in Dead
             PROVE  state'[t] \in Dead
  OBVIOUS
<1>i. /\ state \in [Tasks -> States]
      /\ Coherent(ready, prio, state, table)
      /\ \A u \in table : state[u] # "UNUSED"
      /\ \A u \in Tasks \ table : state[u] \in {"UNUSED", "READY"}
      /\ t \in table /\ state[t] \notin {"UNUSED", "READY", "BLOCKED"}
      /\ pendsv \in BOOLEAN
      /\ mode \in {"thread", "isr"} /\ ~pendsv => currentTcb # NULL
      /\ currentTcb # NULL => currentTcb \in Tasks
  BY KernelFacts, InvParts DEF ListNow, Dead
<1>1. ASSUME NEW u \in Tasks, state[u] \in {"UNUSED", "READY", "BLOCKED"} \/ u \notin table,
             NEW s, state' = [state EXCEPT ![u] = s]
      PROVE  state'[t] \in Dead
  BY <1>i, <1>1
<1>2. ASSUME NEW u \in Tasks, TaskInit(u) \/ TaskAdd(u) \/ IsrUnblock(u) \/ Unblock(u)
      PROVE  state'[t] \in Dead
  <2>1. state' = state \/ (state' = [state EXCEPT ![u] = "READY"] /\
                            (state[u] \in {"UNUSED", "BLOCKED"} \/ u \notin table))
    BY <1>2 DEF TaskInit, TaskAdd, IsrUnblock, Unblock, UnblockOp, IdInUse
  <2> QED
    BY <1>1, <2>1
<1>3. ASSUME NEW u \in Tasks, Kill(u) PROVE state'[t] \in Dead
  BY <1>3, <1>i DEF Kill, Dead
<1>4. CASE KernelStart
  <2> DEFINE n == PickNext(ready, state)
  <2>1. state' = state \/ (n # NULL /\ state' = [state EXCEPT ![n] = "RUNNING"])
    BY <1>4 DEF KernelStart
  <2>2. n = PickNext(ready, state)
    OBVIOUS
  <2> HIDE DEF n
  <2>3. n # NULL =>
          /\ n \in table /\ state[n] = "READY"
          /\ Coherent(ReadyRemove(ready, n), prio, [state EXCEPT ![n] = "RUNNING"], table)
    BY <1>i, <2>2, SwitchProperties
  <2> QED
    BY <1>i, <2>1, <2>3
<1>5. CASE Tick \/ Yield \/ BlockCurrent
  <2>1. /\ pendsv = FALSE /\ currentTcb # NULL
        /\ ScheduleOp(currentTcb) \/ BlockCurrentOp(currentTcb)
    BY <1>5, <1>i DEF Tick, Yield, BlockCurrent, InTask
  <2> QED
    BY <2>1, ScheduleKeeps
<1>6. CASE HardFault
  <2> DEFINE st == [state EXCEPT ![currentTcb] = "FAULTED"]
             q  == ReadyRemove(ready, currentTcb)
             n  == PickNext(q, st)
  <2>1. currentTcb # NULL /\ currentTcb \in Tasks
    BY <1>6, <1>i DEF HardFault, InTask
  <2>2. Coherent(q, prio, st, table)
    BY <1>i, <2>1, DropProperties DEF States
  <2>3. state' = st \/ (n # NULL /\ state' = [st EXCEPT ![n] = "RUNNING"])
    BY <1>6, <2>1 DEF HardFault
  <2>4. n = PickNext(q, st)
    OBVIOUS
  <2>5. st[t] \in Dead /\ st[t] # "READY" /\ st \in [Tasks -> States]
    BY <1>i, <2>1 DEF Dead, States
  <2> HIDE DEF n, q, st
  <2>6. n # NULL =>
          /\ n \in table /\ st[n] = "READY"
          /\ Coherent(ReadyRemove(q, n), prio, [st EXCEPT ![n] = "RUNNING"], table)
    BY <2>2, <2>4, SwitchProperties
  <2> QED
    BY <2>3, <2>5, <2>6
<1>7. CASE Exit
  <2> DEFINE st == [state EXCEPT ![currentTcb] = "KILLED"]
             q  == ReadyRemove(ready, currentTcb)
  <2>1. currentTcb # NULL /\ currentTcb \in Tasks /\ SwitchOp(q, st)
    BY <1>7, <1>i DEF Exit, InTask
  <2>2. Coherent(q, prio, st, table)
    BY <1>i, <2>1, DropProperties DEF States
  <2>3. st[t] \in Dead /\ st[t] # "READY" /\ st \in [Tasks -> States]
    BY <1>i, <2>1 DEF Dead, States
  <2> HIDE DEF q, st
  <2>4. state' = st \/ (st[nextTcb'] = "READY" /\ state' = [st EXCEPT ![nextTcb'] = "RUNNING"])
    BY <2>1, <2>2, SwitchStep
  <2> QED
    BY <2>3, <2>4
<1> QED
  BY <1>2, <1>3, <1>4, <1>5, <1>6, <1>7
     DEF Next, StartTcb, IsrReturn, PendSV, SetPriority, SetPriorityOp, taskVars, vars

LEMMA StepDead ==
    ASSUME TickInStartWindow = FALSE
    PROVE  KernelInv /\ KernelInv' /\ Contexts /\ Contexts' /\ [Next]_vars => [DeadStep]_vars
<1> SUFFICES ASSUME KernelInv, KernelInv', Contexts, Contexts', Next,
                    NEW t \in Tasks, state[t] \in Dead
             PROVE  /\ state'[t] \in Dead
                    /\ ~ Contains(ready', t)
                    /\ cpu' = t => cpu = t
  BY DEF DeadStep
<1>1. state'[t] \in Dead
  BY StepDeadStates
<1>2. ~ Contains(ready', t)
  <2>1. Coherent(ready', prio', state', table')
    BY InvParts DEF ListNow
  <2>2. Contains(ready', t) => state'[t] = "READY"
    BY <2>1, CoherentMembers
  <2> QED
    BY <1>1, <2>2 DEF Dead
<1>3. ASSUME cpu' = t PROVE cpu = t
  <2>1. /\ currentTcb # NULL => currentTcb \in table /\ state[currentTcb] \notin Dead
        /\ pendsv => nextTcb \in table /\ state[nextTcb] = "RUNNING"
        /\ Boot \notin Tasks /\ NULL \notin Tasks /\ table \subseteq Tasks
    BY KernelFacts
  <2>2. currentTcb' # NULL => currentTcb' \in table' /\ state'[currentTcb'] \notin Dead
    BY InvParts DEF Occupied
  <2>3. starting' = NULL /\ currentTcb' # NULL => cpu' = currentTcb'
    BY DEF Contexts, ContextsIntact
  <2>4. CASE StartTcb
    <3>1. starting' = NULL /\ currentTcb' = currentTcb /\ starting # NULL
      BY <2>4 DEF StartTcb
    <3>2. currentTcb # NULL
      BY <3>1 DEF Contexts
    <3> QED
      BY <1>1, <1>3, <2>2, <2>3, <3>1, <3>2
  <2>5. CASE PendSV
    <3>1. currentTcb' = nextTcb /\ nextTcb # NULL /\ starting' = starting /\ starting = NULL
      BY <2>1, <2>5 DEF PendSV, Contexts
    <3> QED
      BY <1>1, <1>3, <2>2, <2>3, <3>1
  <2>6. CASE HardFault
    <3>1. cpu' = cpu \/ currentTcb' # NULL
      BY <2>6, <2>1, <2>2, KernelFacts, InvParts DEF HardFault, RestTyped
    <3>2. starting' = NULL
      BY <2>1, <2>6 DEF HardFault, InTask, Contexts
    <3> QED
      BY <1>1, <1>3, <2>2, <2>3, <3>1, <3>2
  <2> QED
    BY <1>3, <2>4, <2>5, <2>6
       DEF Next, TaskInit, TaskAdd, KernelStart, Tick, IsrUnblock, IsrReturn, Yield,
           BlockCurrent, Unblock, SetPriority, Kill, Exit, cpuVars
<1> QED
  BY <1>1, <1>2, <1>3

\* A killed or faulted task is never scheduled, listed or resumed again.
THEOREM DeadCorrect ==
    ASSUME TickInStartWindow = FALSE
    PROVE  Spec => DeadStayDead
<1>1. KernelInv /\ KernelInv' /\ Contexts /\ Contexts' /\ [Next]_vars => [DeadStep]_vars
  BY StepDead
<1>2. Spec => []KernelInv
  BY KernelInvariant
<1>3. Init => Contexts
  BY InitContexts
<1>4. KernelInv /\ Contexts /\ [Next]_vars => Contexts'
  BY StepContexts
<1> QED
  BY <1>1, <1>2, <1>3, <1>4, PTL DEF Spec, DeadStayDead
-----------------------------------------------------------------------------
(***************************************************************************)
(* After boot: every task is in the table and alive, somebody runs, and    *)
(* the tasks of S never block.  The modules of the synchronisation         *)
(* primitives start here.                                                  *)
(***************************************************************************)
Live(S) ==
    /\ KernelInv
    /\ mode \in {"thread", "isr"} /\ starting = NULL /\ table = Tasks
    /\ \A t \in Tasks : state[t] \in {"READY", "RUNNING", "BLOCKED"}
    /\ ~pendsv => state[currentTcb] = "RUNNING"
    /\ S # {} /\ S \subseteq Tasks
    /\ \A t \in S : state[t] # "BLOCKED"

\* A step that moves neither the sleepers nor the priorities.
SameSleepers ==
    /\ prio' = prio
    /\ \A t \in Tasks : state'[t] = "BLOCKED" <=> state[t] = "BLOCKED"

\* The boot leads there, with everybody at its own priority and nobody asleep.
LEMMA BootedLive ==
    ASSUME NEW order \in Seq(Tasks),
           \A t \in Tasks : \E i \in 1 .. Len(order) : order[i] = t,
           NEW S, S # {}, S \subseteq Tasks,
           Booted(order)
    PROVE  /\ Live(S)
           /\ prio = BasePrio
           /\ \A t \in Tasks : state[t] # "BLOCKED"
<1> DEFINE q == BootList(order)
           h == Head(q)
           r == Tail(q)
<1>1. /\ state = [t \in Tasks |-> IF t = h THEN "RUNNING" ELSE "READY"]
      /\ prio = BasePrio
      /\ ctx = [t \in Tasks |-> t]
      /\ addResult = [t \in Tasks |-> "ok"]
      /\ table = Tasks
      /\ ready = r
      /\ currentTcb = h /\ nextTcb = h /\ pendsv = FALSE
      /\ cpu = h /\ mode = "thread" /\ starting = NULL
  BY DEF Booted
<1>2. GoodList(q, BasePrio) /\ \A t \in Tasks : Contains(q, t)
  BY BootListProperties
<1> HIDE DEF q
<1>3. /\ q \in Seq(Tasks) /\ q # <<>>
      /\ \A i \in 1 .. Len(q) : q[i] \in Tasks
      /\ \A i, j \in 1 .. Len(q) : q[i] = q[j] => i = j
      /\ \A i, j \in 1 .. Len(q) : i < j => BasePrio[q[i]] >= BasePrio[q[j]]
  <2>1. q \in Seq(Tasks)
    BY <1>2 DEF GoodList
  <2>2. q # <<>>
    BY <1>2 DEF Contains
  <2> QED
    BY <1>2, <2>1, <2>2, ElementOfSeq DEF GoodList, SortedBy
<1>4. /\ h = q[1] /\ Len(q) \in Nat \ {0}
      /\ r \in Seq(Tasks) /\ Len(r) = Len(q) - 1
      /\ \A i \in 1 .. Len(q) - 1 : r[i] = q[i + 1]
  BY <1>3, HeadTailProperties, EmptySeq, LenProperties
<1> HIDE DEF h, r
<1>5. h \in Tasks /\ h # NULL /\ h # Boot
  <2>1. 1 \in 1 .. Len(q)
    BY <1>4
  <2>2. h \in Tasks
    BY <1>3, <1>4, <2>1
  <2> QED
    BY <2>2, ContextsAssumption
<1>6. GoodList(r, prio)
  <2>1. \A i \in 1 .. Len(r) : i + 1 \in 1 .. Len(q) /\ r[i] = q[i + 1]
    BY <1>4
  <2>2. \A i, j \in 1 .. Len(r) : r[i] = r[j] => i = j
    <3> SUFFICES ASSUME NEW i \in 1 .. Len(r), NEW j \in 1 .. Len(r), r[i] = r[j]
                 PROVE  i = j
      OBVIOUS
    <3>1. i + 1 = j + 1
      BY <1>3, <2>1
    <3> QED
      BY <1>4, <3>1
  <2>3. \A i, j \in 1 .. Len(r) : i < j => prio[r[i]] >= prio[r[j]]
    <3> SUFFICES ASSUME NEW i \in 1 .. Len(r), NEW j \in 1 .. Len(r), i < j
                 PROVE  prio[r[i]] >= prio[r[j]]
      OBVIOUS
    <3>1. i + 1 < j + 1 /\ i + 1 \in 1 .. Len(q) /\ j + 1 \in 1 .. Len(q)
      BY <1>4, <2>1
    <3>2. BasePrio[q[i + 1]] >= BasePrio[q[j + 1]]
      BY <1>3, <3>1
    <3> QED
      BY <1>1, <2>1, <3>2
  <2> QED
    BY <1>4, <2>2, <2>3 DEF GoodList, SortedBy
<1>7. \A u : Contains(r, u) <=> u \in Tasks /\ u # h
  <2>1. ASSUME NEW i \in 1 .. Len(r) PROVE r[i] \in Tasks /\ r[i] # h
    <3>1. i + 1 \in 1 .. Len(q) /\ 1 \in 1 .. Len(q) /\ i + 1 # 1
      BY <1>4
    <3>2. r[i] = q[i + 1] /\ h = q[1]
      BY <1>4
    <3>3. q[i + 1] \in Tasks /\ q[i + 1] # q[1]
      BY <1>3, <3>1
    <3> QED
      BY <3>2, <3>3
  <2>2. ASSUME NEW u \in Tasks, u # h PROVE Contains(r, u)
    <3>1. PICK i \in 1 .. Len(q) : q[i] = u
      BY <1>2 DEF Contains
    <3>2. i # 1
      BY <1>4, <2>2, <3>1
    <3> DEFINE j == i - 1
    <3>3. j \in 1 .. Len(q) - 1 /\ j \in 1 .. Len(r) /\ j + 1 = i
      BY <1>4, <3>2
    <3> HIDE DEF j
    <3>4. r[j] = u
      BY <1>4, <3>1, <3>3
    <3> QED
      BY <3>3, <3>4 DEF Contains
  <2> QED
    BY <2>1, <2>2 DEF Contains
<1>8. ListNow
  <2>1. /\ state \in [Tasks -> States] /\ prio \in [Tasks -> Nat] /\ table \in SUBSET Tasks
        /\ \A u \in Tasks : state[u] = "READY" <=> u # h
    BY <1>1, PriorityAssumption DEF States
  <2> QED
    BY <1>1, <1>6, <1>7, <2>1, CoherentFromMembers DEF ListNow
<1>9. RestTyped
  BY <1>1, <1>5 DEF RestTyped
<1>10. OneRunner /\ TaskStates /\ Occupied
  BY <1>1, <1>5 DEF OneRunner, Chosen, TaskStates, Occupied, Dead
<1>11. KernelInv
  BY <1>8, <1>9, <1>10, InvParts
<1> QED
  BY <1>1, <1>5, <1>11 DEF Live

LEMMA LiveFacts ==
    ASSUME NEW S, Live(S)
    PROVE  /\ KernelInv
           /\ Coherent(ready, prio, state, Tasks) /\ table = Tasks
           /\ state \in [Tasks -> States] /\ prio \in [Tasks -> Nat]
           /\ pendsv \in BOOLEAN
           /\ ~pendsv => /\ currentTcb \in Tasks /\ state[currentTcb] = "RUNNING"
                         /\ \A t \in Tasks : state[t] = "RUNNING" => t = currentTcb
           /\ pendsv => /\ nextTcb \in Tasks /\ nextTcb # NULL
                        /\ state[nextTcb] = "RUNNING"
                        /\ \A t \in Tasks : state[t] = "RUNNING" => t = nextTcb
           /\ currentTcb # NULL => currentTcb \in Tasks
<1>1. ListNow /\ RestTyped /\ OneRunner /\ TaskStates /\ Occupied /\ KernelInv /\ table = Tasks
  BY InvParts DEF Live
<1> QED
  BY <1>1, ContextsAssumption
     DEF Live, ListNow, Coherent, RestTyped, OneRunner, Chosen, Occupied

\* Taking the next task when the caller has given up RUNNING and a task is READY.
LEMMA LiveSwitch ==
    ASSUME NEW S, Live(S), pendsv = FALSE,
           NEW q, NEW st, Coherent(q, prio, st, table),
           \A t \in Tasks : st[t] \in {"READY", "BLOCKED"},
           \A t \in S : st[t] # "BLOCKED",
           NEW u \in Tasks, st[u] = "READY",
           SwitchOp(q, st),
           KernelInv', mode' \in {"thread", "isr"}, starting' = starting, table' = table
    PROVE  /\ Live(S)'
           /\ prio' = prio
           /\ pendsv' = TRUE
           /\ \A t \in Tasks : state'[t] = "BLOCKED" <=> st[t] = "BLOCKED"
<1>1. /\ prio' = prio
      /\ nextTcb' \in table /\ st[nextTcb'] = "READY"
      /\ state' = [st EXCEPT ![nextTcb'] = "RUNNING"]
      /\ pendsv' = TRUE
      /\ table = Tasks
  <2>1. table = Tasks
    BY DEF Live
  <2> QED
    BY <2>1, SwitchStep
<1>2. st \in [Tasks -> States]
  BY DEF Coherent
<1>3. /\ \A t \in Tasks : state'[t] = "BLOCKED" <=> st[t] = "BLOCKED"
      /\ \A t \in Tasks : state'[t] \in {"READY", "RUNNING", "BLOCKED"}
  BY <1>1, <1>2
<1>4. Live(S)'
  BY <1>1, <1>3 DEF Live
<1> QED
  BY <1>1, <1>3, <1>4

LEMMA LiveSchedule ==
    ASSUME NEW S, Live(S), Tick \/ Yield
    PROVE  Live(S)' /\ SameSleepers /\ pendsv' = TRUE
<1>0. /\ Coherent(ready, prio, state, Tasks) /\ table = Tasks
      /\ state \in [Tasks -> States]
      /\ currentTcb \in Tasks /\ state[currentTcb] = "RUNNING" /\ pendsv = FALSE
      /\ \A t \in Tasks : state[t] = "RUNNING" => t = currentTcb
      /\ currentTcb # NULL
      /\ \A t \in Tasks : state[t] \in {"READY", "RUNNING", "BLOCKED"}
      /\ \A t \in S : t \in Tasks /\ state[t] # "BLOCKED"
  BY LiveFacts, ContextsAssumption DEF Tick, Yield, InTask, Live
<1>1. KernelInv'
  BY StepInv DEF Live, Next
<1> DEFINE q  == ReadyInsert(ready, prio, currentTcb)
           st == [state EXCEPT ![currentTcb] = "READY"]
<1>2. Coherent(q, prio, st, table)
  <2>1. table \cup {currentTcb} = table
    BY <1>0
  <2>2. Coherent(q, prio, st, table \cup {currentTcb})
    BY <1>0, ListProperties
  <2> QED
    BY <2>1, <2>2
<1>3. SwitchOp(q, st)
  BY <1>0 DEF Tick, Yield, ScheduleOp
<1>4. /\ \A t \in Tasks : st[t] \in {"READY", "BLOCKED"}
      /\ \A t \in Tasks : st[t] = "BLOCKED" <=> state[t] = "BLOCKED"
      /\ st[currentTcb] = "READY"
  BY <1>0
<1>5. mode' \in {"thread", "isr"} /\ starting' = starting /\ table' = table
  BY DEF Tick, Yield, cpuVars, Live
<1> HIDE DEF q, st
<1>6. /\ Live(S)' /\ prio' = prio /\ pendsv' = TRUE
      /\ \A t \in Tasks : state'[t] = "BLOCKED" <=> st[t] = "BLOCKED"
  <2>1. \A t \in S : st[t] # "BLOCKED"
    BY <1>0, <1>4
  <2> QED
    BY <1>0, <1>1, <1>2, <1>3, <1>4, <1>5, <2>1, LiveSwitch
<1> QED
  BY <1>4, <1>6 DEF SameSleepers

\* saramos_task_block_current() by a task that may block.
LEMMA LiveBlock ==
    ASSUME NEW S, Live(S), InTask, currentTcb \notin S,
           BlockCurrentOp(currentTcb),
           UNCHANGED <<ctx, addResult, table, cpuVars>>
    PROVE  /\ Live(S)'
           /\ prio' = prio
           /\ pendsv' = TRUE
           /\ \A t \in Tasks : state'[t] = "BLOCKED" <=> state[t] = "BLOCKED" \/ t = currentTcb
<1>0. /\ Coherent(ready, prio, state, Tasks) /\ table = Tasks
      /\ state \in [Tasks -> States]
      /\ currentTcb \in Tasks /\ state[currentTcb] = "RUNNING" /\ pendsv = FALSE
      /\ \A t \in Tasks : state[t] = "RUNNING" => t = currentTcb
      /\ currentTcb # NULL
      /\ \A t \in Tasks : state[t] \in {"READY", "RUNNING", "BLOCKED"}
      /\ \A t \in S : t \in Tasks /\ state[t] # "BLOCKED"
      /\ S # {}
  BY LiveFacts, ContextsAssumption DEF InTask, Live
<1>1. KernelInv'
  BY StepInv DEF Live, Next, BlockCurrent
<1> DEFINE q  == ReadyRemove(ready, currentTcb)
           st == [state EXCEPT ![currentTcb] = "BLOCKED"]
<1>2. Coherent(q, prio, st, table)
  BY <1>0, DropProperties DEF States
<1>3. SwitchOp(q, st)
  BY <1>0 DEF BlockCurrentOp
<1>4. /\ \A t \in Tasks : st[t] \in {"READY", "BLOCKED"}
      /\ \A t \in Tasks : st[t] = "BLOCKED" <=> state[t] = "BLOCKED" \/ t = currentTcb
  BY <1>0
<1>5. mode' \in {"thread", "isr"} /\ starting' = starting /\ table' = table
  BY DEF cpuVars, Live
<1> HIDE DEF q, st
<1>6. PICK s \in S : TRUE
  BY <1>0
<1>7. /\ s \in Tasks /\ st[s] = "READY"
      /\ \A t \in S : st[t] # "BLOCKED"
  BY <1>0, <1>4, <1>6
<1>8. /\ Live(S)' /\ prio' = prio /\ pendsv' = TRUE
      /\ \A t \in Tasks : state'[t] = "BLOCKED" <=> st[t] = "BLOCKED"
  BY <1>0, <1>1, <1>2, <1>3, <1>4, <1>5, <1>7, LiveSwitch
<1> QED
  BY <1>4, <1>8

LEMMA LivePendSV ==
    ASSUME NEW S, Live(S), PendSV
    PROVE  Live(S)' /\ SameSleepers /\ state' = state
<1>1. KernelInv'
  BY StepInv DEF Live, Next
<1>2. /\ nextTcb # NULL /\ state[nextTcb] = "RUNNING" /\ pendsv = TRUE
  BY LiveFacts DEF PendSV
<1>3. UNCHANGED <<state, prio, table, mode, starting>> /\ currentTcb' = nextTcb
  BY <1>2 DEF PendSV
<1> QED
  BY <1>1, <1>2, <1>3 DEF Live, SameSleepers

LEMMA LiveIsrReturn ==
    ASSUME NEW S, Live(S), IsrReturn
    PROVE  Live(S)' /\ SameSleepers /\ state' = state
<1>1. KernelInv'
  BY StepInv DEF Live, Next
<1> QED
  BY <1>1 DEF IsrReturn, taskVars, Live, SameSleepers

\* saramos_task_unblock(), from a task or at the end of SysTick_Handler.
LEMMA LiveUnblock ==
    ASSUME NEW S, Live(S), NEW t \in Tasks, UnblockOp(t),
           UNCHANGED <<ctx, addResult, table, currentTcb, cpu, starting>>,
           (InTask /\ mode' = mode) \/ (InIsr /\ mode' = "thread")
    PROVE  /\ Live(S)'
           /\ prio' = prio /\ pendsv' = pendsv
           /\ state'[t] # "BLOCKED"
           /\ \A u \in Tasks \ {t} : state'[u] = state[u]
<1>1. KernelInv'
  <2>1. CASE state[t] = "BLOCKED"
    <3>1. Unblock(t) \/ IsrUnblock(t)
      BY <2>1 DEF Unblock, IsrUnblock, cpuVars
    <3> QED
      BY <3>1, StepInv DEF Live, Next
  <2>2. CASE state[t] # "BLOCKED"
    <3>1. UNCHANGED vars \/ IsrReturn
      BY <2>2 DEF UnblockOp, IsrReturn, InIsr, vars, taskVars
    <3> QED
      BY <3>1, StepInv DEF Live, Next
  <2> QED
    BY <2>1, <2>2
<1>2. state \in [Tasks -> States] /\ \A u \in Tasks : state[u] \in {"READY", "RUNNING", "BLOCKED"}
  BY LiveFacts DEF Live
<1>3. /\ prio' = prio /\ pendsv' = pendsv
      /\ state'[t] # "BLOCKED"
      /\ \A u \in Tasks \ {t} : state'[u] = state[u]
      /\ \A u \in Tasks : state'[u] \in {"READY", "RUNNING", "BLOCKED"}
      /\ \A u \in Tasks : state[u] = "RUNNING" => state'[u] = "RUNNING"
      /\ \A u \in Tasks : state[u] # "BLOCKED" => state'[u] # "BLOCKED"
  BY <1>2 DEF UnblockOp
<1>4. ~pendsv => currentTcb \in Tasks /\ state[currentTcb] = "RUNNING"
  BY LiveFacts
<1>5. mode' \in {"thread", "isr"}
  BY DEF InTask
<1> QED
  BY <1>1, <1>3, <1>4, <1>5 DEF Live

\* A step that moves priorities, and the ready list with them, alone.
LEMMA LiveReposition ==
    ASSUME NEW S, Live(S), Coherent(ready', prio', state, Tasks),
           UNCHANGED <<state, table, nextTcb, pendsv, ctx, addResult, cpuVars>>
    PROVE  Live(S)'
<1>1. ListNow /\ RestTyped /\ OneRunner /\ TaskStates /\ Occupied /\ table = Tasks
  BY InvParts DEF Live
<1>2. ListNow'
  BY <1>1 DEF ListNow
<1>3. KernelInv'
  BY <1>1, <1>2, InvParts
     DEF RestTyped, OneRunner, Chosen, TaskStates, Occupied, cpuVars
<1> QED
  BY <1>3 DEF Live, cpuVars

LEMMA LiveStutter ==
    ASSUME NEW S, Live(S), UNCHANGED vars
    PROVE  Live(S)' /\ SameSleepers
<1>1. KernelInv'
  BY StepInv DEF Live
<1> QED
  BY <1>1 DEF Live, vars, SameSleepers
=============================================================================
