----------------------- MODULE SaramosPipelineProofs -----------------------
(***************************************************************************)
(* The shell's pipelines for any commands, texts, number of places and     *)
(* sizes of pipes and lines: the lists of the scheduler and of the pipes   *)
(* fit the processes' states, nobody sleeps without cause, every pipe is a *)
(* channel, and the UART gets what the stages make of the input.           *)
(***************************************************************************)
EXTENDS SaramosPipeline, ListProofs

(***************************************************************************)
(* The inductive invariant.                                                *)
(***************************************************************************)
Live(p) == pstate[p] # "UNUSED"

\* Whoever can run is in the ready list, once, and the process that has exited is
\* until saramos_sched_run() sees it.
SchedRight ==
    /\ Distinct(readyq)
    /\ \A p \in Procs : p \in ToSet(readyq) <=>
         pstate[p] \in {"READY", "RUNNING"} \/ (step = "done" /\ p = current)
    /\ \A p \in Procs : pstate[p] = "RUNNING" => step \in {"in", "yielded"} /\ p = current
    /\ step # "none" => current \in Procs
    /\ step = "in" => pstate[current] = "RUNNING"
    /\ step = "yielded" => pstate[current] \in {"RUNNING", "BLOCKED"}
    /\ step = "done" => pstate[current] = "ZOMBIE"

\* The wait lists hold who is blocked where it reads or writes that pipe, and as long as
\* there is somebody in them the pipe can give them nothing.
SleepRight ==
    /\ \A q \in Pipes :
         /\ Distinct(readers[q]) /\ Distinct(writers[q])
         /\ \A p \in Procs : p \in ToSet(readers[q]) <=>
              pstate[p] = "BLOCKED" /\ pc[p] = "read" /\ inPipe[p] = q
         /\ \A p \in Procs : p \in ToSet(writers[q]) <=>
              pstate[p] = "BLOCKED" /\ pc[p] = "put" /\ outPipe[p] = q
         /\ readers[q] # <<>> => Empty(pipe[q]) /\ ~ pipe[q].eof
         /\ writers[q] # <<>> => Full(pipe[q])
    /\ \A p \in Procs : pstate[p] = "BLOCKED" =>
         \/ pc[p] = "read" /\ inPipe[p] # NULL
         \/ pc[p] = "put" /\ outPipe[p] # NULL

\* The links between parents and children are those of the live processes, and a
\* process with children waits for them or makes them.
FamilyRight ==
    /\ \A p, c \in Procs : Live(p) =>
         (c \in ToSet(children[p]) <=> Live(c) /\ parent[c] = p)
    /\ \A c \in Procs : Live(c) /\ parent[c] # NULL =>
         Live(parent[c]) /\ pc[parent[c]] # "start"

LiveStage(p) == Live(p) /\ prog[p] \in StagePrograms

\* The stage a process is: stage i reads pipe i - 1.
StageNo(p) == IF inPipe[p] = NULL THEN 1 ELSE inPipe[p] + 1

StagePcs(g) ==
    CASE g \in Programs -> {"start", "loop", "read", "line", "put"}
      [] g = "echo"     -> {"start", "put"}
      [] g = "sync"     -> {"start"}

IsIdle(p) ==
    p = Idle /\ prog[p] = "idle" /\ parent[p] = NULL /\ pc[p] = "start"
    /\ pstate[p] \in {"READY", "RUNNING"}

IsCli(p) ==
    p = Cli /\ prog[p] = "cli" /\ parent[p] = NULL /\ pc[p] \in {"start", "wait"}
    /\ pstate[p] \in {"READY", "RUNNING"}

IsSh(p) ==
    /\ prog[p] = "shell" /\ parent[p] = Cli /\ outPipe[p] = NULL /\ pc[p] \in {"start", "spawn", "wait"}
    /\ pstate[p] \in {"READY", "RUNNING", "ZOMBIE"}
    /\ pstate[p] = "ZOMBIE" => pc[p] = "start"

IsStage(p) ==
    /\ prog[p] \in StagePrograms
    /\ parent[p] \in Procs /\ prog[parent[p]] = "shell"
    /\ StageNo(p) \in 1 .. spawned
    /\ prog[p] = cmd.stages[StageNo(p)].prog
    /\ outPipe[p] = IF StageNo(p) = Len(cmd.stages) THEN NULL ELSE StageNo(p)
    /\ pc[p] \in StagePcs(prog[p])

\* Every live process is the idle one, the command line, its one shell or a stage of
\* the shell's command, no two of them the same.
RolesRight ==
    /\ IsIdle(Idle) /\ IsCli(Cli)
    /\ \A p \in Procs : Live(p) => IsIdle(p) \/ IsCli(p) \/ IsSh(p) \/ IsStage(p)
    /\ \A p, r \in Procs : Live(p) /\ Live(r) /\ prog[p] = "shell" /\ prog[r] = "shell" => p = r
    /\ \A p, r \in Procs :
         LiveStage(p) /\ LiveStage(r) /\ StageNo(p) = StageNo(r) => p = r

\* How far a stage has come: what it has read of a line fits its buffer, and what it
\* still has to put out is there.
DataOf(p) ==
    /\ prog[p] \in Bytewise =>
         /\ pc[p] = "read" => got[p] + 1 < LineSize
         /\ pc[p] = "line" => got[p] < LineSize
         /\ pc[p] = "put" =>
              /\ got[p] < LineSize
              /\ next[p] + remain[p] = IF prog[p] = "grep" THEN got[p] + 1 ELSE got[p]
    /\ prog[p] = "wc" =>
         /\ pc[p] = "read" => got[p] < WcBufSize
         /\ pc[p] = "line" => got[p] <= WcBufSize
    /\ prog[p] = "echo" /\ pc[p] = "put" => next[p] + remain[p] = Len(cmd.input)

DataRight ==
    \A p \in Procs : LiveStage(p) => DataOf(p)

\* A stage's stdout pipe is open until it is over, and those of the stages to come are.
EofRight ==
    /\ \A p \in Procs : LiveStage(p) /\ outPipe[p] # NULL /\ pipe[outPipe[p]].eof =>
         pstate[p] = "ZOMBIE" /\ ~ (step = "done" /\ current = p)
    /\ \A p \in Procs : Live(p) /\ prog[p] = "shell" /\ pc[p] = "spawn" =>
         \A q \in Pipes : spawned < q /\ q < Len(cmd.stages) => ~ pipe[q].eof

ProcTypes ==
    /\ PipelineTypeOK
    /\ pipe \in [Pipes -> PipeType]
    /\ total \in 0 .. TotalMod - 1
    /\ cmd \in Commands \cup {NoCmd}
    /\ spawned \in 0 .. Len(cmd.stages)

PipeInv ==
    ProcTypes /\ SchedRight /\ SleepRight /\ FamilyRight /\ RolesRight /\ DataRight /\ EofRight
-----------------------------------------------------------------------------
(***************************************************************************)
(* The ring.                                                               *)
(***************************************************************************)
LEMMA Wraps ==
    ASSUME NEW n \in Nat \ {0}, NEW x \in Nat, x < 2 * n
    PROVE  x % n = IF x < n THEN x ELSE x - n
<1>1. CASE x < n
  BY <1>1
<1>2. CASE x >= n
  <2> DEFINE y == x - n
  <2>1. y \in Nat /\ y < n /\ x = y + n
    BY <1>2
  <2> HIDE DEF y
  <2>2. (y + n) % n = y
    BY <2>1
  <2> QED
    BY <1>2, <2>1, <2>2 DEF y
<1> QED
  BY <1>1, <1>2

\* A ring of n places with k bytes from t on, up to h, and the place of its i-th byte.
RingAt(n, t, k, h) == n \in Nat \ {0} /\ t \in 0 .. n - 1 /\ k \in 0 .. n /\ h = (t + k) % n
Spot(n, t, i) == (t + i - 1) % n
Place(p, i) == Spot(PipeSize, p.tail, i)

LEMMA SpotFacts ==
    ASSUME NEW n \in Nat \ {0}, NEW t \in 0 .. n - 1, NEW i \in 1 .. n
    PROVE  /\ Spot(n, t, i) \in 0 .. n - 1
           /\ Spot(n, t, i) = IF (t + i) - 1 < n THEN (t + i) - 1 ELSE ((t + i) - 1) - n
<1> DEFINE x == t + i - 1
<1>1. x \in Nat /\ x < 2 * n /\ x = (t + i) - 1
  OBVIOUS
<1>2. Spot(n, t, i) = x % n
  BY DEF Spot
<1> HIDE DEF x
<1>3. x % n = IF x < n THEN x ELSE x - n
  BY <1>1, Wraps
<1> QED
  BY <1>1, <1>2, <1>3

LEMMA AtFacts ==
    ASSUME NEW n, NEW t, NEW k, NEW h, RingAt(n, t, k, h)
    PROVE  /\ n \in Nat \ {0} /\ t \in 0 .. n - 1 /\ k \in 0 .. n
           /\ h = IF t + k < n THEN t + k ELSE (t + k) - n
           /\ h \in 0 .. n - 1
<1>1. n \in Nat \ {0} /\ t \in 0 .. n - 1 /\ k \in 0 .. n /\ h = (t + k) % n
  BY DEF RingAt
<1> DEFINE x == t + k
<1>2. x \in Nat /\ x < 2 * n /\ x = t + k
  BY <1>1
<1>3. h = x % n
  BY <1>1
<1> HIDE DEF x
<1>4. x % n = IF x < n THEN x ELSE x - n
  BY <1>1, <1>2, Wraps
<1> QED
  BY <1>1, <1>2, <1>3, <1>4

LEMMA NextPlace ==
    ASSUME NEW n \in Nat \ {0}, NEW t \in 0 .. n - 1
    PROVE  (t + 1) % n \in 0 .. n - 1 /\ (t + 1) % n = IF t + 1 < n THEN t + 1 ELSE 0
<1> DEFINE x == t + 1
<1>1. x \in Nat /\ x < 2 * n /\ x = t + 1
  OBVIOUS
<1> HIDE DEF x
<1>2. x % n = IF x < n THEN x ELSE x - n
  BY <1>1, Wraps
<1>3. x % n \in 0 .. n - 1 /\ x % n = IF t + 1 < n THEN t + 1 ELSE 0
  BY <1>1, <1>2
<1> QED
  BY <1>3 DEF x

LEMMA SpotPut ==
    ASSUME NEW n, NEW t, NEW k, NEW h, RingAt(n, t, k, h), k < n
    PROVE  /\ (h + 1) % n \in 0 .. n - 1
           /\ RingAt(n, t, k + 1, (h + 1) % n)
           /\ Spot(n, t, k + 1) = h
           /\ \A i \in 1 .. k : Spot(n, t, i) # h
<1>1. /\ n \in Nat \ {0} /\ t \in 0 .. n - 1 /\ k \in 0 .. n
      /\ h = IF t + k < n THEN t + k ELSE (t + k) - n
      /\ h \in 0 .. n - 1
  BY AtFacts
<1> DEFINE g == (h + 1) % n
           j == k + 1
           x == t + j
<1>2. g \in 0 .. n - 1 /\ g = IF h + 1 < n THEN h + 1 ELSE 0
  BY <1>1, NextPlace
<1>3. j \in 0 .. n /\ j \in 1 .. n /\ j = k + 1
  BY <1>1
<1>4. x \in Nat /\ x < 2 * n /\ x = (t + k) + 1
  BY <1>1, <1>3
<1> HIDE DEF g, x
<1>5. x % n = IF x < n THEN x ELSE x - n
  BY <1>1, <1>4, Wraps
<1>6. g = x % n
  BY <1>1, <1>2, <1>4, <1>5
<1> HIDE DEF j
<1>7. RingAt(n, t, j, g)
  <2>1. x = t + j
    BY DEF x
  <2> QED
    BY <1>1, <1>3, <1>6, <2>1 DEF RingAt
<1>8. Spot(n, t, j) = IF (t + j) - 1 < n THEN (t + j) - 1 ELSE ((t + j) - 1) - n
  BY <1>1, <1>3, SpotFacts
<1>9. Spot(n, t, j) = h
  BY <1>1, <1>3, <1>8
<1>10. ASSUME NEW i \in 1 .. k PROVE Spot(n, t, i) # h
  <2>1. i \in 1 .. n
    BY <1>1
  <2>2. Spot(n, t, i) = IF (t + i) - 1 < n THEN (t + i) - 1 ELSE ((t + i) - 1) - n
    BY <1>1, <2>1, SpotFacts
  <2> QED
    BY <1>1, <2>1, <2>2
<1> QED
  BY <1>2, <1>7, <1>9, <1>10 DEF g, j

LEMMA SpotTake ==
    ASSUME NEW n, NEW t, NEW k, NEW h, RingAt(n, t, k, h), k > 0,
           NEW u, u = (t + 1) % n
    PROVE  /\ u \in 0 .. n - 1
           /\ RingAt(n, u, k - 1, h)
           /\ Spot(n, t, 1) = t
           /\ \A i, j \in 1 .. k : j = i + 1 => Spot(n, u, i) = Spot(n, t, j)
<1>1. /\ n \in Nat \ {0} /\ t \in 0 .. n - 1 /\ k \in 0 .. n
      /\ h = IF t + k < n THEN t + k ELSE (t + k) - n
      /\ h \in 0 .. n - 1
  BY AtFacts
<1> DEFINE j == k - 1
           x == u + j
<1>2. u \in 0 .. n - 1 /\ u = IF t + 1 < n THEN t + 1 ELSE 0
  BY <1>1, NextPlace
<1>3. j \in 0 .. n /\ j = k - 1
  BY <1>1
<1> HIDE DEF j
<1>4. x \in Nat /\ x < 2 * n /\ x = u + j
  BY <1>1, <1>2, <1>3
<1> HIDE DEF x
<1>5. x % n = IF x < n THEN x ELSE x - n
  BY <1>1, <1>4, Wraps
<1>6. h = x % n
  BY <1>1, <1>2, <1>3, <1>4, <1>5
<1>7. RingAt(n, u, j, h)
  BY <1>1, <1>2, <1>3, <1>4, <1>6 DEF RingAt
<1>8. Spot(n, t, 1) = t
  <2>1. 1 \in 1 .. n
    BY <1>1
  <2>2. Spot(n, t, 1) = IF (t + 1) - 1 < n THEN (t + 1) - 1 ELSE ((t + 1) - 1) - n
    BY <1>1, <2>1, SpotFacts
  <2> QED
    BY <1>1, <2>2
<1>9. ASSUME NEW i \in 1 .. k, NEW m \in 1 .. k, m = i + 1
      PROVE  Spot(n, u, i) = Spot(n, t, m)
  <2>1. i \in 1 .. n /\ m \in 1 .. n
    BY <1>1
  <2>2. Spot(n, u, i) = IF (u + i) - 1 < n THEN (u + i) - 1 ELSE ((u + i) - 1) - n
    BY <1>1, <1>2, <2>1, SpotFacts
  <2>3. Spot(n, t, m) = IF (t + m) - 1 < n THEN (t + m) - 1 ELSE ((t + m) - 1) - n
    BY <1>1, <2>1, SpotFacts
  <2> QED
    BY <1>1, <1>2, <1>9, <2>1, <2>2, <2>3
<1> QED
  BY <1>2, <1>7, <1>8, <1>9 DEF j

LEMMA RingFacts ==
    ASSUME NEW p, RingOK(p)
    PROVE  /\ p \in PipeType
           /\ p.tail \in Slots /\ p.head \in Slots /\ p.count \in 0 .. PipeSize
           /\ p.buf \in [Slots -> Bytes] /\ p.eof \in BOOLEAN
           /\ Len(Contents(p)) = p.count
           /\ Contents(p) \in Seq(Bytes)
           /\ \A i \in 1 .. p.count : Place(p, i) \in Slots /\ Contents(p)[i] = p.buf[Place(p, i)]
<1>1. /\ p \in PipeType
      /\ p.tail \in Slots /\ p.head \in Slots /\ p.count \in 0 .. PipeSize
      /\ p.buf \in [Slots -> Bytes] /\ p.eof \in BOOLEAN
  BY DEF RingOK, PipeType
<1>2. ASSUME NEW i \in 1 .. p.count PROVE Place(p, i) \in Slots
  <2> DEFINE t == p.tail
  <2>1. t \in 0 .. PipeSize - 1 /\ i \in 1 .. PipeSize /\ PipeSize \in Nat \ {0}
    BY <1>1, PipeSizeAssumption DEF Slots
  <2> HIDE DEF t
  <2>2. Spot(PipeSize, t, i) \in 0 .. PipeSize - 1
    BY <2>1, SpotFacts
  <2> QED
    BY <2>2 DEF Place, Slots, t
<1>3. Contents(p) = [i \in 1 .. p.count |-> p.buf[Place(p, i)]]
  BY DEF Contents, Place, Spot
<1>4. \A i \in 1 .. p.count : p.buf[Place(p, i)] \in Bytes
  BY <1>1, <1>2
<1>5. p.count \in Nat
  BY <1>1, PipeSizeAssumption
<1>6. Contents(p) \in Seq(Bytes) /\ Len(Contents(p)) = p.count
  BY <1>3, <1>4, <1>5, IsASeq, LenProperties
<1> QED
  BY <1>1, <1>2, <1>3, <1>6

\* Two sequences with the same elements.
LEMMA SameSeq ==
    ASSUME NEW T, NEW a \in Seq(T), NEW b \in Seq(T), Len(a) = Len(b),
           \A i \in 1 .. Len(a) : a[i] = b[i]
    PROVE  a = b
BY SeqEqual

\* saramos_pipe_init()
LEMMA EmptyFacts == RingOK(EmptyPipe) /\ Contents(EmptyPipe) = <<>> /\ ~ EmptyPipe.eof
<1>1. EmptyPipe \in PipeType
  BY BytesAssumption, PipeSizeAssumption DEF EmptyPipe, PipeType, Slots
<1>2. RingOK(EmptyPipe)
  <2>1. 0 = (0 + 0) % PipeSize
    BY PipeSizeAssumption
  <2> QED
    BY <1>1, <2>1 DEF EmptyPipe, RingOK
<1>3. EmptyPipe.count = 0 /\ ~ EmptyPipe.eof
  BY DEF EmptyPipe
<1>4. Contents(EmptyPipe) \in Seq(Bytes) /\ Len(Contents(EmptyPipe)) = 0
  BY <1>2, <1>3, RingFacts
<1> QED
  BY <1>2, <1>3, <1>4, EmptySeq

\* A byte written goes behind the others.
LEMMA WriteFacts ==
    ASSUME NEW p, RingOK(p), ~ Full(p), NEW c \in Bytes
    PROVE  /\ RingOK(WriteByte(p, c))
           /\ Contents(WriteByte(p, c)) = Append(Contents(p), c)
           /\ WriteByte(p, c).eof = p.eof /\ ~ Empty(WriteByte(p, c))
<1> DEFINE r == WriteByte(p, c)
           N == PipeSize
<1>1. /\ p \in PipeType
      /\ p.tail \in Slots /\ p.head \in Slots /\ p.count \in 0 .. N
      /\ p.buf \in [Slots -> Bytes] /\ p.eof \in BOOLEAN
      /\ p.head = (p.tail + p.count) % N
      /\ p.count < N /\ N \in Nat \ {0}
  BY RingFacts, PipeSizeAssumption DEF RingOK, Full
<1>2. /\ r = [p EXCEPT !.buf = [p.buf EXCEPT ![p.head] = c], !.head = (p.head + 1) % N,
                       !.count = p.count + 1]
      /\ r.buf = [p.buf EXCEPT ![p.head] = c] /\ r.head = (p.head + 1) % N
      /\ r.count = p.count + 1 /\ r.tail = p.tail /\ r.eof = p.eof
  BY <1>1 DEF WriteByte, PipeType
<1>3. /\ (p.head + 1) % N \in 0 .. N - 1
      /\ RingAt(N, p.tail, p.count + 1, (p.head + 1) % N)
      /\ Place(p, p.count + 1) = p.head
      /\ \A i \in 1 .. p.count : Place(p, i) # p.head
  <2>1. RingAt(N, p.tail, p.count, p.head)
    BY <1>1 DEF Slots, RingAt
  <2> QED
    BY <1>1, <2>1, SpotPut DEF Place
<1>6. r \in PipeType
  <2>1. [p.buf EXCEPT ![p.head] = c] \in [Slots -> Bytes]
    BY <1>1
  <2>2. p.count + 1 \in 0 .. N
    BY <1>1
  <2>3. (p.head + 1) % N \in Slots
    BY <1>3 DEF Slots
  <2> QED
    BY <1>1, <1>2, <2>1, <2>2, <2>3 DEF PipeType
<1>7. RingOK(r)
  BY <1>2, <1>3, <1>6 DEF RingOK, RingAt
<1> HIDE DEF r
<1>8. /\ Contents(p) \in Seq(Bytes) /\ Len(Contents(p)) = p.count
      /\ \A i \in 1 .. p.count : Place(p, i) \in Slots /\ Contents(p)[i] = p.buf[Place(p, i)]
  BY RingFacts
<1>9. /\ Contents(r) \in Seq(Bytes) /\ Len(Contents(r)) = r.count
      /\ \A i \in 1 .. r.count : Place(r, i) \in Slots /\ Contents(r)[i] = r.buf[Place(r, i)]
  BY <1>7, RingFacts
<1> DEFINE a == Append(Contents(p), c)
<1>10. /\ a \in Seq(Bytes) /\ Len(a) = p.count + 1
       /\ \A i \in 1 .. p.count : a[i] = Contents(p)[i]
       /\ a[p.count + 1] = c
  BY <1>8, AppendProperties
<1> HIDE DEF a
<1>11. ASSUME NEW i \in 1 .. p.count + 1 PROVE Contents(r)[i] = a[i]
  <2>0. i \in 1 .. r.count
    BY <1>2
  <2>1. CASE i \in 1 .. p.count
    <3>1. Place(r, i) = Place(p, i)
      BY <1>2 DEF Place
    <3>2. Place(p, i) # p.head
      BY <1>3, <2>1
    <3>3. r.buf[Place(p, i)] = p.buf[Place(p, i)]
      BY <1>1, <1>2, <1>8, <2>1, <3>2
    <3> QED
      BY <1>8, <1>9, <1>10, <2>0, <2>1, <3>1, <3>3
  <2>2. CASE i = p.count + 1
    <3>2. Place(r, i) = p.head
      BY <1>2, <1>3, <2>2 DEF Place
    <3>3. r.buf[p.head] = c
      BY <1>1, <1>2
    <3> QED
      BY <1>9, <1>10, <2>0, <2>2, <3>2, <3>3
  <2> QED
    BY <1>1, <2>1, <2>2
<1>12. Contents(r) = a
  <2>1. Len(Contents(r)) = p.count + 1
    BY <1>2, <1>9
  <2> QED
    BY <1>9, <1>10, <1>11, <2>1, SameSeq
<1>13. ~ Empty(r)
  BY <1>1, <1>2 DEF Empty
<1> QED
  BY <1>2, <1>7, <1>12, <1>13 DEF r, a

\* The byte read is the oldest one.
LEMMA ReadFacts ==
    ASSUME NEW p, RingOK(p), ~ Empty(p)
    PROVE  /\ RingOK(ReadByte(p))
           /\ Contents(p) # <<>> /\ Contents(ReadByte(p)) = Tail(Contents(p))
           /\ FrontByte(p) = Head(Contents(p)) /\ FrontByte(p) \in Bytes
           /\ ReadByte(p).eof = p.eof /\ ~ Full(ReadByte(p))
<1> DEFINE r == ReadByte(p)
           N == PipeSize
<1>1. /\ p \in PipeType
      /\ p.tail \in Slots /\ p.head \in Slots /\ p.count \in 0 .. N
      /\ p.buf \in [Slots -> Bytes] /\ p.eof \in BOOLEAN
      /\ p.head = (p.tail + p.count) % N
      /\ p.count > 0 /\ N \in Nat \ {0}
  BY RingFacts, PipeSizeAssumption DEF RingOK, Empty
<1>2. /\ r = [p EXCEPT !.tail = (p.tail + 1) % N, !.count = p.count - 1]
      /\ r.tail = (p.tail + 1) % N /\ r.count = p.count - 1
      /\ r.buf = p.buf /\ r.head = p.head /\ r.eof = p.eof
  BY <1>1 DEF ReadByte, PipeType
<1>3. /\ (p.tail + 1) % N \in 0 .. N - 1
      /\ RingAt(N, (p.tail + 1) % N, p.count - 1, p.head)
      /\ Place(p, 1) = p.tail
      /\ \A i, j \in 1 .. p.count : j = i + 1 => Spot(N, (p.tail + 1) % N, i) = Place(p, j)
  <2>1. RingAt(N, p.tail, p.count, p.head)
    BY <1>1 DEF Slots, RingAt
  <2> DEFINE t == p.tail
             k == p.count
             h == p.head
             u == (p.tail + 1) % N
  <2>2. RingAt(N, t, k, h) /\ k > 0 /\ u = (t + 1) % N
    BY <1>1, <2>1
  <2> HIDE DEF t, k, h, u
  <2>3. /\ u \in 0 .. N - 1
        /\ RingAt(N, u, k - 1, h)
        /\ Spot(N, t, 1) = t
        /\ \A i, j \in 1 .. k : j = i + 1 => Spot(N, u, i) = Spot(N, t, j)
    BY <2>2, SpotTake
  <2> QED
    BY <2>3 DEF Place, t, k, h, u
<1>6. r \in PipeType
  <2>1. p.count - 1 \in 0 .. N
    BY <1>1
  <2>2. (p.tail + 1) % N \in Slots
    BY <1>3 DEF Slots
  <2> QED
    BY <1>1, <1>2, <2>1, <2>2 DEF PipeType
<1>7. RingOK(r)
  BY <1>2, <1>3, <1>6 DEF RingOK, RingAt
<1> HIDE DEF r
<1>8. /\ Contents(p) \in Seq(Bytes) /\ Len(Contents(p)) = p.count
      /\ \A i \in 1 .. p.count : Place(p, i) \in Slots /\ Contents(p)[i] = p.buf[Place(p, i)]
  BY RingFacts
<1>9. /\ Contents(r) \in Seq(Bytes) /\ Len(Contents(r)) = p.count - 1
      /\ \A i \in 1 .. p.count - 1 : Place(r, i) \in Slots /\ Contents(r)[i] = r.buf[Place(r, i)]
  <2>1. /\ Contents(r) \in Seq(Bytes) /\ Len(Contents(r)) = r.count
        /\ \A i \in 1 .. r.count : Place(r, i) \in Slots /\ Contents(r)[i] = r.buf[Place(r, i)]
    BY <1>7, RingFacts
  <2>2. r.count = p.count - 1
    BY <1>2
  <2> QED
    BY <2>1, <2>2
<1>10. Contents(p) # <<>>
  BY <1>1, <1>8, EmptySeq
<1> DEFINE a == Tail(Contents(p))
<1>11. /\ a \in Seq(Bytes) /\ Len(a) = p.count - 1
       /\ \A i \in 1 .. p.count - 1 : a[i] = Contents(p)[i + 1]
       /\ Head(Contents(p)) = Contents(p)[1]
  BY <1>8, <1>10, HeadTailProperties
<1> HIDE DEF a
<1>12. ASSUME NEW i \in 1 .. p.count - 1 PROVE Contents(r)[i] = a[i]
  <2> DEFINE j == i + 1
  <2>1. j \in 1 .. p.count /\ i \in 1 .. p.count /\ j = i + 1
    BY <1>1
  <2>3. a[i] = Contents(p)[j]
    BY <1>11
  <2> HIDE DEF j
  <2>2. Place(r, i) = Place(p, j)
    <3>1. Place(r, i) = Spot(N, (p.tail + 1) % N, i)
      BY <1>2 DEF Place
    <3> QED
      BY <1>3, <2>1, <3>1
  <2> QED
    BY <1>2, <1>8, <1>9, <2>1, <2>2, <2>3
<1>13. Contents(r) = a
  BY <1>9, <1>11, <1>12, SameSeq
<1>14. FrontByte(p) = Contents(p)[1] /\ FrontByte(p) \in Bytes
  <2>2. 1 \in 1 .. p.count
    BY <1>1
  <2> QED
    BY <1>1, <1>3, <1>8, <2>2 DEF FrontByte
<1>15. ~ Full(r)
  BY <1>1, <1>2 DEF Full
<1> QED
  BY <1>2, <1>7, <1>10, <1>11, <1>13, <1>14, <1>15 DEF r, a

LEMMA ClosedFacts ==
    ASSUME NEW p, RingOK(p)
    PROVE  /\ RingOK(Closed(p)) /\ Contents(Closed(p)) = Contents(p) /\ Closed(p).eof
           /\ Closed(p).count = p.count
<1>1. p \in PipeType /\ p.head = (p.tail + p.count) % PipeSize
  BY DEF RingOK
<1>2. /\ Closed(p) \in PipeType /\ Closed(p).head = p.head /\ Closed(p).tail = p.tail
      /\ Closed(p).count = p.count /\ Closed(p).buf = p.buf /\ Closed(p).eof
  BY <1>1 DEF Closed, PipeType
<1> QED
  BY <1>1, <1>2 DEF RingOK, Contents
-----------------------------------------------------------------------------
(***************************************************************************)
(* The scheduler's lists.                                                  *)
(***************************************************************************)
\* What Keep() leaves of a list.
LEMMA KeepFacts ==
    ASSUME NEW T, NEW w \in Seq(T), NEW S
    PROVE  /\ Keep(w, S) \in Seq(T)
           /\ ToSet(Keep(w, S)) = ToSet(w) \cap S
           /\ Distinct(w) => Distinct(Keep(w, S))
<1> DEFINE N == Len(w)
           turn(f, n) == IF n = 0 THEN <<>>
                         ELSE IF w[n] \in S THEN Append(f[n - 1], w[n]) ELSE f[n - 1]
           Upto(n, f) == f = [k \in 0 .. n |-> turn(f, k)]
           D == {n \in 0 .. N : \E f : Upto(n, f)}
           kept == CHOOSE f : Upto(N, f)
<1>0. /\ N \in Nat
      /\ \A i \in 1 .. N : w[i] \in T
      /\ \A u : u \in ToSet(w) <=> \E i \in 1 .. N : w[i] = u
  BY LenProperties, ElementOfSeq, ToSetFacts
<1>1. Keep(w, S) = kept[N]
  BY DEF Keep
<1> HIDE DEF N
<1>2. 0 \in D
  <2> DEFINE f == [k \in 0 .. 0 |-> <<>>]
  <2>1. Upto(0, f)
    OBVIOUS
  <2> HIDE DEF f, Upto
  <2> QED
    BY <1>0, <2>1
<1>3. ASSUME NEW n \in 0 .. N - 1, n \in D PROVE n + 1 \in D
  <2>1. PICK f : Upto(n, f)
    BY <1>3
  <2> DEFINE g == [k \in 0 .. n + 1 |-> IF k = n + 1 THEN turn(f, k) ELSE f[k]]
  <2>2. ASSUME NEW k \in 0 .. n + 1 PROVE g[k] = turn(g, k)
    <3>1. n \in Nat /\ k \in Int /\ 0 <= k /\ k <= n + 1
      BY <1>0
    <3>2. CASE k = 0
      BY <2>1, <3>1, <3>2
    <3>3. CASE k # 0
      <4>1. k - 1 \in 0 .. n + 1 /\ k - 1 # n + 1 /\ k - 1 \in 0 .. n
        BY <3>1, <3>3
      <4>2. g[k - 1] = f[k - 1]
        BY <4>1
      <4>3. turn(g, k) = turn(f, k)
        BY <4>2, <3>3
      <4>4. k # n + 1 => f[k] = turn(f, k)
        <5>1. \A i \in 0 .. n : f[i] = turn(f, i)
          BY <2>1, Zenon
        <5>2. k # n + 1 => k \in 0 .. n
          BY <3>1
        <5> HIDE DEF turn
        <5> QED
          BY <5>1, <5>2
      <4> QED
        BY <4>3, <4>4
    <3> QED
      BY <3>2, <3>3
  <2>3. Upto(n + 1, g)
    <3>1. g = [k \in 0 .. n + 1 |-> g[k]]
      OBVIOUS
    <3> HIDE DEF g
    <3>2. [k \in 0 .. n + 1 |-> g[k]] = [k \in 0 .. n + 1 |-> turn(g, k)]
      BY <2>2
    <3> QED
      BY <3>1, <3>2
  <2> HIDE DEF Upto, g
  <2> QED
    BY <1>0, <2>3
<1>4. Upto(N, kept)
  <2>1. N \in D
    <3> HIDE DEF D
    <3>1. \A n \in 0 .. N - 1 : n \in D => n + 1 \in D
      BY <1>3
    <3>2. \A n \in 0 .. N : n \in D
      BY <1>0, <1>2, <3>1, UpTo
    <3> QED
      BY <1>0, <3>2
  <2> HIDE DEF Upto
  <2> QED
    BY <2>1
<1>5. /\ kept[0] = <<>>
      /\ \A n \in 1 .. N :
           kept[n] = IF w[n] \in S THEN Append(kept[n - 1], w[n]) ELSE kept[n - 1]
  <2> HIDE DEF kept
  <2>1. \A n \in 0 .. N : kept[n] = turn(kept, n)
    BY <1>4
  <2> QED
    BY <1>0, <2>1
<1> HIDE DEF kept
<1> DEFINE good(n) == /\ kept[n] \in Seq(T)
                      /\ \A u : u \in ToSet(kept[n]) <=> u \in S /\ \E i \in 1 .. n : w[i] = u
                      /\ Distinct(w) => Distinct(kept[n])
           G == {n \in 0 .. N : good(n)}
<1>6. 0 \in G
  <2>1. <<>> \in Seq(T) /\ ToSet(<<>>) = {} /\ Distinct(<<>>)
    BY DEF ToSet, Distinct
  <2>2. good(0)
    BY <1>5, <2>1
  <2> QED
    BY <1>0, <2>2
<1>7. ASSUME NEW n \in 0 .. N - 1, n \in G PROVE n + 1 \in G
  <2> DEFINE m == n + 1
  <2>1. m \in 1 .. N /\ m - 1 = n /\ n \in Nat /\ m \in 0 .. N
    BY <1>0
  <2>2. good(n)
    BY <1>7
  <2>3. \A i : i \in 1 .. m <=> i \in 1 .. n \/ i = m
    BY <2>1
  <2>4. w[m] \in T
    BY <1>0, <2>1
  <2>5. kept[m] = IF w[m] \in S THEN Append(kept[n], w[m]) ELSE kept[n]
    BY <1>5, <2>1
  <2> HIDE DEF m
  <2>6. CASE w[m] \in S
    <3> DEFINE r == Append(kept[n], w[m])
    <3>1. /\ r \in Seq(T)
          /\ ToSet(r) = ToSet(kept[n]) \cup {w[m]}
          /\ Distinct(kept[n]) /\ w[m] \notin ToSet(kept[n]) => Distinct(r)
      BY <2>2, <2>4, AppendFacts
    <3> HIDE DEF r
    <3>2. Distinct(w) => w[m] \notin ToSet(kept[n])
      <4> SUFFICES ASSUME Distinct(w), w[m] \in ToSet(kept[n]) PROVE FALSE
        OBVIOUS
      <4>1. PICK i \in 1 .. n : w[i] = w[m]
        BY <2>2
      <4>2. i \in 1 .. N /\ m \in 1 .. N /\ i # m
        BY <2>1, <1>0
      <4> QED
        BY <4>1, <4>2 DEF Distinct, N
    <3>3. kept[m] = r
      BY <2>5, <2>6 DEF r
    <3>4. \A u : u \in ToSet(r) <=> u \in S /\ \E i \in 1 .. m : w[i] = u
      BY <2>2, <2>3, <2>6, <3>1
    <3>5. good(m)
      BY <2>2, <3>1, <3>2, <3>3, <3>4
    <3> QED
      BY <2>1, <3>5 DEF m
  <2>7. CASE w[m] \notin S
    <3>1. kept[m] = kept[n]
      BY <2>5, <2>7
    <3>2. \A u : u \in ToSet(kept[n]) <=> u \in S /\ \E i \in 1 .. m : w[i] = u
      BY <2>2, <2>3, <2>7
    <3>3. good(m)
      BY <2>2, <3>1, <3>2
    <3> QED
      BY <2>1, <3>3 DEF m
  <2> QED
    BY <2>6, <2>7
<1>8. N \in G
  <2> HIDE DEF G
  <2>1. \A n \in 0 .. N - 1 : n \in G => n + 1 \in G
    BY <1>7
  <2>2. \A n \in 0 .. N : n \in G
    BY <1>0, <1>6, <2>1, UpTo
  <2> QED
    BY <1>0, <2>2
<1>9. good(N)
  BY <1>8
<1>10. ToSet(kept[N]) = ToSet(w) \cap S
  BY <1>0, <1>9
<1> QED
  BY <1>1, <1>9, <1>10

\* wake_list() and the unblocking of a parent: the BLOCKED processes of the list become
\* READY and are in the ready list, which stays without doubles.
LEMMA WakeFacts ==
    ASSUME NEW list \in Seq(Procs), Distinct(list), NEW st \in [Procs -> ProcStates],
           NEW q \in Seq(Procs), Distinct(q), WakeOp(list, st, q)
    PROVE  /\ pstate' \in [Procs -> ProcStates]
           /\ \A p \in Procs :
                pstate'[p] = IF p \in ToSet(list) /\ st[p] = "BLOCKED" THEN "READY" ELSE st[p]
           /\ readyq' \in Seq(Procs) /\ Distinct(readyq')
           /\ \A p \in Procs :
                p \in ToSet(readyq') <=> p \in ToSet(q) \/ (p \in ToSet(list) /\ st[p] = "BLOCKED")
<1> DEFINE woken == {p \in ToSet(list) : st[p] = "BLOCKED"}
           r == Reverse(list)
           k == Keep(r, woken \ ToSet(q))
<1>1. /\ pstate' = [p \in Procs |-> IF p \in woken THEN "READY" ELSE st[p]]
      /\ readyq' = k \o q
  BY DEF WakeOp
<1>2. r \in Seq(Procs) /\ ToSet(r) = ToSet(list) /\ Distinct(r)
  BY ReverseFacts
<1>3. k \in Seq(Procs) /\ ToSet(k) = ToSet(r) \cap (woken \ ToSet(q)) /\ Distinct(k)
  <2> HIDE DEF r, woken
  <2> QED
    BY <1>2, KeepFacts
<1> HIDE DEF k, r
<1>4. /\ readyq' \in Seq(Procs) /\ ToSet(readyq') = ToSet(k) \cup ToSet(q) /\ Distinct(readyq')
  <2>1. ToSet(k) \cap ToSet(q) = {}
    BY <1>3
  <2> QED
    BY <1>1, <1>3, <2>1, ConcatFacts
<1>5. \A p \in Procs : st[p] \in ProcStates
  OBVIOUS
<1>6. pstate' \in [Procs -> ProcStates]
  <2>1. \A p \in Procs : (IF p \in woken THEN "READY" ELSE st[p]) \in ProcStates
    BY <1>5 DEF ProcStates
  <2> HIDE DEF woken
  <2> QED
    BY <1>1, <2>1
<1>7. \A p \in Procs :
        pstate'[p] = IF p \in ToSet(list) /\ st[p] = "BLOCKED" THEN "READY" ELSE st[p]
  BY <1>1
<1>8. \A p \in Procs :
        p \in ToSet(readyq') <=> p \in ToSet(q) \/ (p \in ToSet(list) /\ st[p] = "BLOCKED")
  BY <1>2, <1>3, <1>4
<1> QED
  BY <1>4, <1>6, <1>7, <1>8

LEMMA EmptyList == <<>> \in Seq(Procs) /\ ToSet(<<>>) = {} /\ Distinct(<<>>)
BY DEF ToSet, Distinct
-----------------------------------------------------------------------------
(***************************************************************************)
(* What the invariant says of the process that runs.                       *)
(***************************************************************************)
LEMMA Names ==
    /\ Idle \in Procs /\ Cli \in Procs /\ NULL \notin Procs /\ NULL \notin Pipes
    /\ StagePrograms = {"cat", "grep", "head", "wc", "echo", "sync"}
    /\ Pipes \subseteq Nat \ {0}
BY ProcsAssumption, CommandsAssumption DEF Idle, Cli, Procs, StagePrograms, Programs

\* A stage has its place in the command, and between two stages there is a pipe.
LEMMA StageFacts ==
    ASSUME ProcTypes, RolesRight, NEW p \in Procs, LiveStage(p)
    PROVE  /\ IsStage(p)
           /\ cmd \in Commands /\ Len(cmd.stages) \in Nat /\ spawned \in Nat
           /\ StageNo(p) \in 1 .. spawned /\ spawned <= Len(cmd.stages)
           /\ prog[p] \in Programs => inPipe[p] \in Pipes
           /\ outPipe[p] # NULL => outPipe[p] \in Pipes /\ outPipe[p] = StageNo(p)
<1>1. IsStage(p)
  BY Names DEF RolesRight, LiveStage, IsIdle, IsCli, IsSh
<1>2. StageNo(p) \in 1 .. spawned /\ spawned \in 0 .. Len(cmd.stages)
  BY <1>1 DEF IsStage, ProcTypes
<1>3. cmd # NoCmd
  <2>1. Len(NoCmd.stages) = 0
    BY DEF NoCmd
  <2> QED
    BY <1>2, <2>1
<1>4. cmd \in Commands
  BY <1>3 DEF ProcTypes
<1>5. /\ Len(cmd.stages) \in Nat
      /\ \A i \in 1 .. Len(cmd.stages) : i = 1 => cmd.stages[i].prog \in {"echo", "sync"}
  BY <1>4, CommandsAssumption
<1>6. prog[p] \in Programs => inPipe[p] \in Pipes
  <2> SUFFICES ASSUME prog[p] \in Programs, inPipe[p] \notin Pipes PROVE FALSE
    OBVIOUS
  <2>1. inPipe[p] = NULL
    BY DEF ProcTypes, PipelineTypeOK
  <2>2. StageNo(p) = 1
    BY <2>1 DEF StageNo
  <2>3. 1 \in 1 .. Len(cmd.stages) /\ prog[p] = cmd.stages[1].prog
    BY <1>1, <1>2, <1>5, <2>2 DEF IsStage
  <2> QED
    BY <1>5, <2>3 DEF Programs
<1>7. outPipe[p] # NULL => outPipe[p] \in Pipes /\ outPipe[p] = StageNo(p)
  BY <1>1 DEF IsStage, ProcTypes, PipelineTypeOK
<1> QED
  BY <1>1, <1>2, <1>4, <1>5, <1>6, <1>7

\* The places of the idle process and of the command line are theirs for good.
LEMMA CliFacts ==
    ASSUME RolesRight
    PROVE  IsCli(Cli) /\ IsIdle(Idle) /\ Live(Cli) /\ Live(Idle)
BY DEF RolesRight, IsCli, IsIdle, Live

\* The process inside its function is running, and in no wait list.
LEMMA MeFacts ==
    ASSUME PipeInv, step = "in"
    PROVE  /\ me \in Procs /\ pstate[me] = "RUNNING" /\ Live(me)
           /\ \A q \in Pipes : me \notin ToSet(readers[q]) /\ me \notin ToSet(writers[q])
           /\ prog[me] \in StagePrograms => LiveStage(me)
           /\ prog[me] = "cli" => IsCli(me)
           /\ prog[me] = "shell" => IsSh(me)
           /\ prog[me] \in StagePrograms \cup {"idle", "cli", "shell"}
           /\ prog[me] = "idle" => pc[me] = "start"
<1>1. me \in Procs /\ pstate[me] = "RUNNING"
  BY DEF PipeInv, SchedRight, me
<1>2. Live(me)
  BY <1>1 DEF Live
<1>3. \A q \in Pipes : me \notin ToSet(readers[q]) /\ me \notin ToSet(writers[q])
  BY <1>1 DEF PipeInv, SleepRight
<1>4. IsIdle(me) \/ IsCli(me) \/ IsSh(me) \/ IsStage(me)
  BY <1>1, <1>2 DEF PipeInv, RolesRight
<1>5. prog[me] = "cli" => IsCli(me)
  BY <1>4, Names DEF IsIdle, IsCli, IsSh, IsStage
<1>6. prog[me] = "shell" => IsSh(me)
  BY <1>4, Names DEF IsIdle, IsCli, IsSh, IsStage
<1>7. prog[me] \in StagePrograms \cup {"idle", "cli", "shell"}
  BY <1>4 DEF IsIdle, IsCli, IsSh, IsStage
<1>8. prog[me] = "idle" => pc[me] = "start"
  BY <1>4, Names DEF IsIdle, IsCli, IsSh, IsStage
<1> QED
  BY <1>1, <1>2, <1>3, <1>5, <1>6, <1>7, <1>8 DEF LiveStage

\* Where only one program can be.
LEMMA WhoIsAt ==
    ASSUME PipeInv, step = "in"
    PROVE  /\ pc[me] \in {"loop", "read", "line"} => prog[me] \in Programs
           /\ pc[me] = "put" => prog[me] \in Programs \cup {"echo"}
           /\ pc[me] = "spawn" => prog[me] = "shell"
           /\ pc[me] = "wait" => prog[me] \in {"cli", "shell"}
<1>1. /\ prog[me] \in StagePrograms => LiveStage(me)
      /\ prog[me] = "cli" => pc[me] \in {"start", "wait"}
      /\ prog[me] = "shell" => pc[me] \in {"start", "spawn", "wait"}
      /\ prog[me] \in StagePrograms \cup {"idle", "cli", "shell"}
      /\ prog[me] = "idle" => pc[me] = "start"
  BY MeFacts DEF IsCli, IsSh
<1>2. prog[me] \in StagePrograms => pc[me] \in StagePcs(prog[me])
  <2>1. prog[me] \in StagePrograms => IsStage(me)
    BY <1>1, MeFacts, StageFacts DEF PipeInv
  <2> QED
    BY <2>1 DEF IsStage
<1>3. CASE prog[me] \in Programs
  <2>1. pc[me] \in {"start", "loop", "read", "line", "put"}
    BY <1>2, <1>3 DEF StagePcs, StagePrograms
  <2> QED
    BY <1>3, <2>1
<1>4. CASE prog[me] = "echo"
  <2>1. pc[me] \in {"start", "put"}
    BY <1>2, <1>4 DEF StagePcs, StagePrograms, Programs
  <2> QED
    BY <1>4, <2>1
<1>5. CASE prog[me] = "sync"
  <2>1. pc[me] = "start"
    BY <1>2, <1>5 DEF StagePcs, StagePrograms, Programs
  <2> QED
    BY <2>1
<1>6. CASE prog[me] \in {"idle", "cli", "shell"}
  BY <1>1, <1>6
<1> QED
  BY <1>1, <1>3, <1>4, <1>5, <1>6 DEF StagePrograms
-----------------------------------------------------------------------------
(***************************************************************************)
(* Steps that leave parts of the invariant alone.                          *)
(***************************************************************************)
\* Who sleeps, and where, is as before.
LEMMA SleepKept ==
    ASSUME SleepRight, UNCHANGED <<readers, writers, inPipe, outPipe, pipe>>,
           \A p \in Procs : pstate'[p] = "BLOCKED" <=> pstate[p] = "BLOCKED",
           \A p \in Procs : pstate[p] = "BLOCKED" => pc'[p] = pc[p]
    PROVE  SleepRight'
<1>1. ASSUME NEW q \in Pipes
      PROVE  /\ Distinct(readers[q])' /\ Distinct(writers[q])'
             /\ \A p \in Procs : p \in ToSet(readers'[q]) <=>
                  pstate'[p] = "BLOCKED" /\ pc'[p] = "read" /\ inPipe'[p] = q
             /\ \A p \in Procs : p \in ToSet(writers'[q]) <=>
                  pstate'[p] = "BLOCKED" /\ pc'[p] = "put" /\ outPipe'[p] = q
             /\ readers'[q] # <<>> => Empty(pipe'[q]) /\ ~ pipe'[q].eof
             /\ writers'[q] # <<>> => Full(pipe'[q])
  <2>1. readers' = readers /\ writers' = writers /\ pipe' = pipe
    OBVIOUS
  <2>2. Distinct(readers[q])' /\ Distinct(writers[q])'
    BY <2>1 DEF SleepRight, Distinct
  <2>3. /\ readers'[q] # <<>> => Empty(pipe'[q]) /\ ~ pipe'[q].eof
        /\ writers'[q] # <<>> => Full(pipe'[q])
    BY <2>1 DEF SleepRight
  <2>4. ASSUME NEW p \in Procs
        PROVE  /\ p \in ToSet(readers'[q]) <=>
                    pstate'[p] = "BLOCKED" /\ pc'[p] = "read" /\ inPipe'[p] = q
               /\ p \in ToSet(writers'[q]) <=>
                    pstate'[p] = "BLOCKED" /\ pc'[p] = "put" /\ outPipe'[p] = q
    BY <2>1 DEF SleepRight
  <2> QED
    BY <2>2, <2>3, <2>4
<1>2. \A p \in Procs : pstate'[p] = "BLOCKED" =>
         \/ pc'[p] = "read" /\ inPipe'[p] # NULL
         \/ pc'[p] = "put" /\ outPipe'[p] # NULL
  BY DEF SleepRight
<1> QED
  BY <1>1, <1>2 DEF SleepRight

\* The families are as before, and nobody with children is back at its start.
LEMMA FamilyKept ==
    ASSUME ProcTypes, FamilyRight, UNCHANGED <<parent, children>>,
           \A p \in Procs : Live(p)' <=> Live(p),
           \A p \in Procs : Live(p) /\ pc'[p] = "start" => pc[p] = "start"
    PROVE  FamilyRight'
<1>1. \A p, c \in Procs : Live(p)' => (c \in ToSet(children'[p]) <=> Live(c)' /\ parent'[c] = p)
  BY DEF FamilyRight
<1>2. ASSUME NEW c \in Procs, Live(c)', parent'[c] # NULL
      PROVE  pstate'[parent'[c]] # "UNUSED" /\ pc'[parent'[c]] # "start"
  <2>1. parent'[c] = parent[c] /\ parent[c] \in Procs
    BY <1>2 DEF ProcTypes, PipelineTypeOK
  <2>2. Live(parent[c]) /\ pc[parent[c]] # "start"
    BY <1>2, <2>1 DEF FamilyRight
  <2>3. PICK r \in Procs : r = parent[c]
    BY <2>1
  <2>4. pstate'[r] # "UNUSED" /\ pc'[r] # "start"
    BY <2>2, <2>3 DEF Live
  <2> QED
    BY <2>1, <2>3, <2>4
<1>3. \A c \in Procs : Live(c)' /\ parent'[c] # NULL =>
        pstate'[parent'[c]] # "UNUSED" /\ pc'[parent'[c]] # "start"
  BY <1>2
<1> QED
  BY <1>1, <1>3 DEF FamilyRight, Live

\* Everybody keeps the part it plays.
LEMMA RolesKept ==
    ASSUME RolesRight, UNCHANGED <<prog, inPipe>>,
           \A p \in Procs : Live(p)' <=> Live(p),
           \A p \in Procs : Live(p) =>
             (IsIdle(p) \/ IsCli(p) \/ IsSh(p) \/ IsStage(p))',
           \A p \in Procs : (IsIdle(p) => IsIdle(p)') /\ (IsCli(p) => IsCli(p)')
    PROVE  RolesRight'
<1>1. IsIdle(Idle)' /\ IsCli(Cli)'
  BY Names DEF RolesRight, Idle, Cli
<1>2. \A p \in Procs : Live(p)' => (IsIdle(p) \/ IsCli(p) \/ IsSh(p) \/ IsStage(p))'
  OBVIOUS
<1>3. \A p, r \in Procs :
        Live(p)' /\ Live(r)' /\ prog'[p] = "shell" /\ prog'[r] = "shell" => p = r
  BY DEF RolesRight
<1>4. \A p \in Procs : (LiveStage(p)' <=> LiveStage(p)) /\ StageNo(p)' = StageNo(p)
  BY DEF LiveStage, StageNo
<1>5. \A p, r \in Procs :
        LiveStage(p)' /\ LiveStage(r)' /\ StageNo(p)' = StageNo(r)' => p = r
  BY <1>4 DEF RolesRight
<1> QED
  BY <1>1, <1>2, <1>3, <1>5 DEF RolesRight

\* A step of one stage: it stays a stage, and others are at most woken.
StageMove ==
    /\ step = "in" /\ prog[me] \in StagePrograms
    /\ UNCHANGED <<parent, children, inPipe, outPipe, current, prog, cmd, spawned>>
    /\ \A p \in Procs \ {me} :
         /\ pc'[p] = pc[p] /\ got'[p] = got[p] /\ next'[p] = next[p] /\ remain'[p] = remain[p]
         /\ pstate'[p] = pstate[p] \/ (pstate[p] = "BLOCKED" /\ pstate'[p] = "READY")
    /\ pstate'[me] \in {"RUNNING", "BLOCKED", "ZOMBIE"}
    /\ pstate'[me] = "ZOMBIE" => step' = "done"
    /\ pc'[me] \in StagePcs(prog[me]) /\ (pc'[me] = "start" => pc[me] = "start")
    /\ DataOf(me)'
    /\ \A q \in Pipes : pipe'[q].eof = pipe[q].eof

LEMMA StageMoveKeeps ==
    ASSUME PipeInv, StageMove
    PROVE  FamilyRight' /\ RolesRight' /\ DataRight' /\ EofRight'
<1>0. /\ me \in Procs /\ pstate[me] = "RUNNING" /\ LiveStage(me)
      /\ ProcTypes /\ RolesRight /\ IsStage(me)
  <2>1. me \in Procs /\ pstate[me] = "RUNNING" /\ LiveStage(me)
    BY MeFacts DEF StageMove
  <2> QED
    BY <2>1, StageFacts DEF PipeInv
<1>1. /\ UNCHANGED <<parent, children, inPipe, outPipe, current, prog, cmd, spawned>>
      /\ \A p \in Procs \ {me} :
         /\ pc'[p] = pc[p] /\ got'[p] = got[p] /\ next'[p] = next[p] /\ remain'[p] = remain[p]
         /\ pstate'[p] = pstate[p] \/ (pstate[p] = "BLOCKED" /\ pstate'[p] = "READY")
      /\ pstate'[me] \in {"RUNNING", "BLOCKED", "ZOMBIE"}
      /\ pc'[me] \in StagePcs(prog[me]) /\ (pc'[me] = "start" => pc[me] = "start")
  BY DEF StageMove
<1>2. \A p \in Procs : Live(p)' <=> Live(p)
  BY <1>0, <1>1 DEF Live
<1>3. \A p \in Procs : LiveStage(p)' <=> LiveStage(p)
  BY <1>1, <1>2 DEF LiveStage
<1>4. FamilyRight'
  <2>1. \A p \in Procs : Live(p) /\ pc'[p] = "start" => pc[p] = "start"
    BY <1>1
  <2> QED
    BY <1>0, <1>1, <1>2, <2>1, FamilyKept DEF PipeInv
<1>5. RolesRight'
  <2>1. ASSUME NEW p \in Procs, Live(p)
        PROVE  (IsIdle(p) \/ IsCli(p) \/ IsSh(p) \/ IsStage(p))'
    <3>1. CASE p = me
      <4>1. IsStage(p)'
        BY <1>0, <1>1, <3>1 DEF IsStage, StageNo
      <4> QED
        BY <4>1
    <3>2. CASE p # me
      <4>1. pc'[p] = pc[p]
            /\ (pstate'[p] = pstate[p] \/ (pstate[p] = "BLOCKED" /\ pstate'[p] = "READY"))
        BY <1>1, <3>2
      <4>2. IsIdle(p) => IsIdle(p)'
        BY <1>1, <4>1 DEF IsIdle
      <4>3. IsCli(p) => IsCli(p)'
        BY <1>1, <4>1 DEF IsCli
      <4>4. IsSh(p) => IsSh(p)'
        BY <1>1, <4>1 DEF IsSh
      <4>5. IsStage(p) => IsStage(p)'
        BY <1>1, <4>1 DEF IsStage, StageNo
      <4> QED
        BY <1>0, <2>1, <4>2, <4>3, <4>4, <4>5 DEF RolesRight
    <3> QED
      BY <3>1, <3>2
  <2>2. ASSUME NEW p \in Procs PROVE (IsIdle(p) => IsIdle(p)') /\ (IsCli(p) => IsCli(p)')
    <3>1. CASE p = me
      BY <1>0, <3>1, Names DEF IsIdle, IsCli, LiveStage
    <3>2. CASE p # me
      BY <1>1, <3>2 DEF IsIdle, IsCli
    <3> QED
      BY <3>1, <3>2
  <2> QED
    BY <1>0, <1>1, <1>2, <2>1, <2>2, RolesKept
<1>6. DataRight'
  <2> SUFFICES ASSUME NEW p \in Procs, LiveStage(p)' PROVE DataOf(p)'
    BY DEF DataRight
  <2>1. CASE p = me
    BY <2>1 DEF StageMove, me
  <2>2. CASE p # me
    <3>1. DataOf(p)
      BY <1>3 DEF PipeInv, DataRight
    <3> QED
      BY <1>1, <2>2, <3>1 DEF DataOf
  <2> QED
    BY <2>1, <2>2
<1>7. EofRight'
  <2>1. ASSUME NEW p \in Procs, LiveStage(p)', outPipe'[p] # NULL, pipe'[outPipe'[p]].eof
        PROVE  pstate'[p] = "ZOMBIE" /\ ~ (step' = "done" /\ current' = p)
    <3>1. LiveStage(p) /\ outPipe[p] # NULL
      BY <1>1, <1>3, <2>1
    <3>2. outPipe[p] \in Pipes
      BY <1>0, <3>1, StageFacts
    <3>3. pipe[outPipe[p]].eof
      BY <1>1, <2>1, <3>2 DEF StageMove
    <3>4. pstate[p] = "ZOMBIE"
      BY <3>1, <3>3 DEF PipeInv, EofRight
    <3>5. p # me
      BY <1>0, <3>4
    <3> QED
      BY <1>1, <3>4, <3>5 DEF me
  <2>2. ASSUME NEW p \in Procs, Live(p)', prog'[p] = "shell", pc'[p] = "spawn",
               NEW q \in Pipes, spawned' < q, q < Len(cmd'.stages)
        PROVE  ~ pipe'[q].eof
    <3>1. p # me
      BY <1>0, <1>1, <2>2, Names DEF StageMove
    <3>2. Live(p) /\ prog[p] = "shell" /\ pc[p] = "spawn" /\ spawned < q /\ q < Len(cmd.stages)
      BY <1>1, <1>2, <2>2, <3>1
    <3>3. ~ pipe[q].eof
      BY <3>2 DEF PipeInv, EofRight
    <3> QED
      BY <3>3 DEF StageMove
  <2> QED
    BY <2>1, <2>2 DEF EofRight
<1> QED
  BY <1>4, <1>5, <1>6, <1>7
-----------------------------------------------------------------------------
(***************************************************************************)
(* The steps of a stage that touch neither lists nor pipes, and its exit.  *)
(***************************************************************************)
OwnTypes ==
    /\ pc \in [Procs -> Pcs] /\ got \in [Procs -> 0 .. LineSize + WcBufSize]
    /\ next \in [Procs -> Nat] /\ remain \in [Procs -> Nat]
    /\ lineBuf \in [Programs -> [1 .. LineSize -> Bytes]]
    /\ total \in 0 .. TotalMod - 1 /\ uart \in Seq(Bytes)

ListTypes ==
    /\ pstate \in [Procs -> ProcStates] /\ readyq \in Seq(Procs)
    /\ step \in {"none", "in", "yielded", "done"}
    /\ pipe \in [Pipes -> PipeType] /\ \A q \in Pipes : RingOK(pipe[q])
    /\ writers \in [Pipes -> Seq(Procs)] /\ readers \in [Pipes -> Seq(Procs)]

TableTypes ==
    /\ parent \in [Procs -> Procs \cup {NULL}] /\ children \in [Procs -> Seq(Procs)]
    /\ current \in Procs \cup {NULL}
    /\ inPipe \in [Procs -> Pipes \cup {NULL}] /\ outPipe \in [Procs -> Pipes \cup {NULL}]
    /\ prog \in [Procs -> StagePrograms \cup {"idle", "cli", "shell"}]
    /\ cmd \in Commands \cup {NoCmd} /\ spawned \in 0 .. Len(cmd.stages)

LEMMA TypesParts == ProcTypes <=> OwnTypes /\ ListTypes /\ TableTypes
<1>1. ProcTypes => OwnTypes
  BY DEF ProcTypes, PipelineTypeOK, OwnTypes
<1>2. ProcTypes => ListTypes
  BY DEF ProcTypes, PipelineTypeOK, ListTypes
<1>3. ProcTypes => TableTypes
  BY DEF ProcTypes, PipelineTypeOK, TableTypes
<1>4. OwnTypes /\ ListTypes /\ TableTypes => ProcTypes
  BY DEF ProcTypes, PipelineTypeOK, OwnTypes, ListTypes, TableTypes
<1> QED
  BY <1>1, <1>2, <1>3, <1>4

LEMMA TypesPrimed ==
    ASSUME OwnTypes', ListTypes', TableTypes'
    PROVE  ProcTypes'
BY DEF ProcTypes, PipelineTypeOK, OwnTypes, ListTypes, TableTypes

LEMMA TableKept ==
    ASSUME ProcTypes, UNCHANGED <<tableVars, current, prog, cmd, spawned>>
    PROVE  TableTypes'
BY TypesParts DEF tableVars, TableTypes

\* The process that runs exits.
LEMMA ExitKeepsSched ==
    ASSUME PipeInv, step = "in", ExitOp, UNCHANGED <<readyq, current>>
    PROVE  /\ SchedRight'
           /\ pstate' \in [Procs -> ProcStates]
           /\ \A p \in Procs : pstate'[p] = IF p = me THEN "ZOMBIE" ELSE pstate[p]
<1>1. me \in Procs /\ pstate[me] = "RUNNING" /\ me = current
  BY MeFacts DEF me
<1>2. pstate \in [Procs -> ProcStates]
  BY DEF PipeInv, ProcTypes, PipelineTypeOK
<1>3. pstate' = [pstate EXCEPT ![current] = "ZOMBIE"] /\ step' = "done"
  BY DEF ExitOp
<1>4. \A p \in Procs : pstate'[p] = IF p = me THEN "ZOMBIE" ELSE pstate[p]
  BY <1>1, <1>2, <1>3
<1>5. pstate' \in [Procs -> ProcStates]
  BY <1>2, <1>3 DEF ProcStates
<1>6. Distinct(readyq)'
  BY DEF PipeInv, SchedRight, Distinct
<1>7. \A p \in Procs : p \in ToSet(readyq') <=>
        pstate'[p] \in {"READY", "RUNNING"} \/ (step' = "done" /\ p = current')
  BY <1>1, <1>3, <1>4 DEF PipeInv, SchedRight
<1>8. \A p \in Procs : pstate'[p] = "RUNNING" => step' \in {"in", "yielded"} /\ p = current'
  BY <1>1, <1>4 DEF PipeInv, SchedRight
<1>9. pstate'[current'] = "ZOMBIE" /\ current' \in Procs
  BY <1>1, <1>4
<1> QED
  BY <1>3, <1>4, <1>5, <1>6, <1>7, <1>8, <1>9 DEF SchedRight

Local ==
    /\ step = "in" /\ prog[me] \in StagePrograms
    /\ UNCHANGED <<tableVars, readyq, current, pipe, waitVars, prog, cmd, spawned>>
    /\ UNCHANGED <<pstate, step>> \/ (ExitOp /\ pc' = pc)
    /\ OwnTypes'
    /\ \A p \in Procs \ {me} :
         pc'[p] = pc[p] /\ got'[p] = got[p] /\ next'[p] = next[p] /\ remain'[p] = remain[p]
    /\ pc'[me] \in StagePcs(prog[me]) /\ (pc'[me] = "start" => pc[me] = "start")
    /\ DataOf(me)'

LEMMA LocalKeeps ==
    ASSUME PipeInv, Local
    PROVE  PipeInv'
<1>0. /\ step = "in" /\ prog[me] \in StagePrograms
      /\ UNCHANGED <<parent, children, inPipe, outPipe, readyq, current, pipe, readers, writers,
                     prog, cmd, spawned>>
      /\ UNCHANGED tableVars
      /\ UNCHANGED <<pstate, step>> \/ (ExitOp /\ pc' = pc)
  BY DEF Local, tableVars, waitVars
<1>1. me \in Procs /\ pstate[me] = "RUNNING"
  BY <1>0, MeFacts
<1>2. /\ pstate' \in [Procs -> ProcStates] /\ SchedRight'
      /\ \A p \in Procs \ {me} : pstate'[p] = pstate[p]
      /\ pstate'[me] = "RUNNING" \/ (pstate'[me] = "ZOMBIE" /\ step' = "done")
      /\ step' \in {"none", "in", "yielded", "done"}
  <2>1. CASE UNCHANGED <<pstate, step>>
    <3>1. SchedRight'
      BY <1>0, <2>1 DEF PipeInv, SchedRight, Distinct
    <3> QED
      BY <1>0, <1>1, <2>1, <3>1 DEF PipeInv, ProcTypes, PipelineTypeOK
  <2>2. CASE ExitOp
    <3>1. step' = "done"
      BY <2>2 DEF ExitOp
    <3> QED
      BY <1>0, <1>1, <2>2, <3>1, ExitKeepsSched
  <2> QED
    BY <1>0, <2>1, <2>2
<1>3. ProcTypes'
  <2>1. ListTypes'
    <3>1. ListTypes
      BY TypesParts DEF PipeInv
    <3> QED
      BY <1>0, <1>2, <3>1 DEF ListTypes, PipeInv, ProcTypes, PipelineTypeOK
  <2>2. TableTypes'
    BY <1>0, TableKept DEF PipeInv
  <2>3. OwnTypes'
    BY DEF Local
  <2> QED
    BY <2>1, <2>2, <2>3, TypesPrimed
<1>4. SleepRight'
  <2>1. \A p \in Procs : pstate'[p] = "BLOCKED" <=> pstate[p] = "BLOCKED"
    BY <1>1, <1>2
  <2>2. \A p \in Procs : pstate[p] = "BLOCKED" => pc'[p] = pc[p]
    BY <1>1 DEF Local
  <2> QED
    BY <1>0, <2>1, <2>2, SleepKept DEF PipeInv
<1>5. StageMove
  <2>1. \A p \in Procs \ {me} :
         /\ pc'[p] = pc[p] /\ got'[p] = got[p] /\ next'[p] = next[p] /\ remain'[p] = remain[p]
         /\ pstate'[p] = pstate[p]
    BY <1>2 DEF Local
  <2>2. /\ pc'[me] \in StagePcs(prog[me]) /\ (pc'[me] = "start" => pc[me] = "start")
        /\ DataOf(me)'
    BY DEF Local
  <2> QED
    BY <1>0, <1>2, <2>1, <2>2 DEF StageMove
<1> QED
  BY <1>2, <1>3, <1>4, <1>5, StageMoveKeeps DEF PipeInv
LEMMA Own ==
    ASSUME PipeInv, step = "in", prog[me] \in StagePrograms
    PROVE  /\ me \in Procs /\ LiveStage(me) /\ DataOf(me) /\ OwnTypes
           /\ LineSize \in Nat /\ LineSize > 1 /\ WcBufSize \in Nat /\ WcBufSize > 0
           /\ pc[me] \in StagePcs(prog[me])
           /\ prog[me] \in Programs => StagePcs(prog[me]) = {"start", "loop", "read", "line", "put"}
           /\ prog[me] = "echo" => StagePcs(prog[me]) = {"start", "put"}
           /\ prog[me] \notin {"idle", "cli", "shell"}
<1>1. me \in Procs /\ LiveStage(me)
  BY MeFacts
<1>2. DataOf(me)
  BY <1>1 DEF PipeInv, DataRight
<1>3. IsStage(me)
  BY <1>1, StageFacts DEF PipeInv
<1>4. pc[me] \in StagePcs(prog[me])
  BY <1>3 DEF IsStage
<1>5. LineSize \in Nat /\ LineSize > 1 /\ WcBufSize \in Nat /\ WcBufSize > 0
  BY LineSizeAssumption
<1>6. prog[me] \in Programs => StagePcs(prog[me]) = {"start", "loop", "read", "line", "put"}
  BY DEF StagePcs, Programs
<1>7. prog[me] = "echo" => StagePcs(prog[me]) = {"start", "put"}
  BY DEF StagePcs, Programs
<1>8. prog[me] \notin {"idle", "cli", "shell"}
  BY Names
<1>9. OwnTypes
  BY TypesParts DEF PipeInv
<1> QED
  BY <1>1, <1>2, <1>4, <1>5, <1>6, <1>7, <1>8, <1>9

LEMMA StartEchoKeeps ==
    ASSUME PipeInv, StartEcho
    PROVE  PipeInv'
<1>1. /\ step = "in" /\ prog[me] = "echo" /\ prog[me] \in StagePrograms
      /\ next' = [next EXCEPT ![me] = 0] /\ remain' = [remain EXCEPT ![me] = Len(cmd.input)]
      /\ pc' = [pc EXCEPT ![me] = "put"]
      /\ UNCHANGED <<procVars, prog, arg, got, lineBuf, pat, limit, total, userVars>>
  BY DEF StartEcho, Runs, At, StartPuts, Goto, StagePrograms
<1>2. UNCHANGED <<tableVars, readyq, current, pipe, waitVars, prog, cmd, spawned, pstate, step,
                  got, lineBuf, total, uart>>
  BY <1>1 DEF procVars, tableVars, waitVars, userVars
<1>3. /\ me \in Procs /\ LiveStage(me) /\ OwnTypes
      /\ StagePcs(prog[me]) = {"start", "put"}
  BY <1>1, Own
<1>4. Len(cmd.input) \in Nat
  <2>1. cmd \in Commands
    BY <1>3, StageFacts DEF PipeInv
  <2>2. cmd.input \in Seq(Bytes)
    BY <2>1, CommandsAssumption
  <2> QED
    BY <2>2, LenProperties
<1>5. OwnTypes'
  BY <1>1, <1>2, <1>3, <1>4 DEF OwnTypes, Pcs
<1>6. /\ pc'[me] = "put" /\ next'[me] = 0 /\ remain'[me] = Len(cmd.input)
      /\ \A p \in Procs \ {me} :
           pc'[p] = pc[p] /\ got'[p] = got[p] /\ next'[p] = next[p] /\ remain'[p] = remain[p]
  BY <1>1, <1>2, <1>3 DEF OwnTypes
<1>7. DataOf(me)'
  <2>1. me' = me
    BY <1>2 DEF me
  <2> QED
    BY <1>1, <1>2, <1>4, <1>6, <2>1 DEF DataOf, Bytewise
<1>8. Local
  BY <1>1, <1>2, <1>3, <1>5, <1>6, <1>7 DEF Local
<1> QED
  BY <1>8, LocalKeeps

LEMMA StartReaderKeeps ==
    ASSUME PipeInv, StartReader
    PROVE  PipeInv'
<1>1. /\ step = "in" /\ prog[me] \in Programs /\ prog[me] \in StagePrograms
      /\ total' = IF prog[me] = "wc" THEN 0 ELSE total
      /\ pc' = [pc EXCEPT ![me] = "loop"]
      /\ UNCHANGED <<procVars, prog, arg, got, next, remain, lineBuf, userVars>>
  BY DEF StartReader, At, Goto, StagePrograms
<1>2. UNCHANGED <<tableVars, readyq, current, pipe, waitVars, prog, cmd, spawned, pstate, step,
                  got, next, remain, lineBuf, uart>>
  BY <1>1 DEF procVars, tableVars, waitVars, userVars
<1>3. /\ me \in Procs /\ OwnTypes
      /\ StagePcs(prog[me]) = {"start", "loop", "read", "line", "put"}
  BY <1>1, Own
<1>4. 0 \in 0 .. TotalMod - 1
  BY CountsAssumption
<1>5. OwnTypes'
  BY <1>1, <1>2, <1>3, <1>4 DEF OwnTypes, Pcs
<1>6. /\ pc'[me] = "loop"
      /\ \A p \in Procs \ {me} :
           pc'[p] = pc[p] /\ got'[p] = got[p] /\ next'[p] = next[p] /\ remain'[p] = remain[p]
  BY <1>1, <1>2, <1>3 DEF OwnTypes
<1>7. DataOf(me)'
  <2>1. me' = me
    BY <1>2 DEF me
  <2> QED
    BY <1>6, <2>1 DEF DataOf
<1>8. Local
  BY <1>1, <1>2, <1>3, <1>5, <1>6, <1>7 DEF Local
<1> QED
  BY <1>8, LocalKeeps

LEMMA StartReadKeeps ==
    ASSUME PipeInv, StartRead
    PROVE  PipeInv'
<1>1. /\ step = "in" /\ pc[me] = "loop"
      /\ got' = [got EXCEPT ![me] = 0]
      /\ pc' = [pc EXCEPT ![me] = "read"]
      /\ UNCHANGED <<procVars, prog, arg, next, remain, lineBuf, pat, limit, total, userVars>>
  BY DEF StartRead, At, Goto
<1>2. UNCHANGED <<tableVars, readyq, current, pipe, waitVars, prog, cmd, spawned, pstate, step,
                  next, remain, lineBuf, total, uart>>
  BY <1>1 DEF procVars, tableVars, waitVars, userVars
<1>3. prog[me] \in Programs /\ prog[me] \in StagePrograms
  BY <1>1, WhoIsAt DEF StagePrograms
<1>4. /\ me \in Procs /\ OwnTypes /\ LineSize \in Nat /\ LineSize > 1
      /\ WcBufSize \in Nat /\ WcBufSize > 0
      /\ StagePcs(prog[me]) = {"start", "loop", "read", "line", "put"}
  BY <1>1, <1>3, Own
<1>5. OwnTypes'
  <2>1. 0 \in 0 .. LineSize + WcBufSize
    BY <1>4
  <2> QED
    BY <1>1, <1>2, <1>4, <2>1 DEF OwnTypes, Pcs
<1>6. /\ pc'[me] = "read" /\ got'[me] = 0
      /\ \A p \in Procs \ {me} :
           pc'[p] = pc[p] /\ got'[p] = got[p] /\ next'[p] = next[p] /\ remain'[p] = remain[p]
  BY <1>1, <1>2, <1>4 DEF OwnTypes
<1>7. DataOf(me)'
  <2>1. me' = me
    BY <1>2 DEF me
  <2> QED
    BY <1>4, <1>6, <2>1 DEF DataOf
<1>8. Local
  BY <1>1, <1>2, <1>3, <1>4, <1>5, <1>6, <1>7 DEF Local
<1> QED
  BY <1>8, LocalKeeps

LEMMA ReadEofKeeps ==
    ASSUME PipeInv, ReadEof
    PROVE  PipeInv'
<1>1. /\ step = "in" /\ pc[me] = "read"
      /\ pc' = [pc EXCEPT ![me] = "line"]
      /\ UNCHANGED <<procVars, prog, arg, got, next, remain, lineBuf, pat, limit, total, userVars>>
  BY DEF ReadEof, At, Goto
<1>2. UNCHANGED <<tableVars, readyq, current, pipe, waitVars, prog, cmd, spawned, pstate, step,
                  got, next, remain, lineBuf, total, uart>>
  BY <1>1 DEF procVars, tableVars, waitVars, userVars
<1>3. prog[me] \in Programs /\ prog[me] \in StagePrograms
  BY <1>1, WhoIsAt DEF StagePrograms
<1>4. /\ me \in Procs /\ OwnTypes /\ LineSize \in Nat /\ DataOf(me) /\ WcBufSize \in Nat
      /\ StagePcs(prog[me]) = {"start", "loop", "read", "line", "put"}
  BY <1>1, <1>3, Own
<1>5. OwnTypes'
  BY <1>1, <1>2, <1>4 DEF OwnTypes, Pcs
<1>6. /\ pc'[me] = "line" /\ got'[me] = got[me] /\ got[me] \in Nat
      /\ \A p \in Procs \ {me} :
           pc'[p] = pc[p] /\ got'[p] = got[p] /\ next'[p] = next[p] /\ remain'[p] = remain[p]
  BY <1>1, <1>2, <1>4 DEF OwnTypes
<1>7. DataOf(me)'
  <2>1. me' = me /\ prog' = prog
    BY <1>2 DEF me
  <2> QED
    BY <1>1, <1>4, <1>6, <2>1 DEF DataOf
<1>8. Local
  BY <1>1, <1>2, <1>3, <1>4, <1>5, <1>6, <1>7 DEF Local
<1> QED
  BY <1>8, LocalKeeps

LEMMA NextBlockKeeps ==
    ASSUME PipeInv, NextBlock
    PROVE  PipeInv'
<1>1. /\ step = "in" /\ pc[me] = "line" /\ prog[me] = "wc"
      /\ total' = (total + got[me]) % TotalMod
      /\ pc' = [pc EXCEPT ![me] = "loop"]
      /\ UNCHANGED <<procVars, prog, arg, got, next, remain, lineBuf, pat, limit, userVars>>
  BY DEF NextBlock, At, Goto
<1>2. UNCHANGED <<tableVars, readyq, current, pipe, waitVars, prog, cmd, spawned, pstate, step,
                  got, next, remain, lineBuf, uart>>
  BY <1>1 DEF procVars, tableVars, waitVars, userVars
<1>3. prog[me] \in Programs /\ prog[me] \in StagePrograms
  BY <1>1 DEF StagePrograms, Programs
<1>4. /\ me \in Procs /\ OwnTypes /\ LineSize \in Nat /\ WcBufSize \in Nat
      /\ StagePcs(prog[me]) = {"start", "loop", "read", "line", "put"}
  BY <1>1, <1>3, Own
<1>5. OwnTypes'
  <2>1. total' \in 0 .. TotalMod - 1
    <3>1. total \in Nat /\ got[me] \in Nat /\ TotalMod \in Nat \ {0}
      BY <1>4, CountsAssumption DEF OwnTypes
    <3> QED
      BY <1>1, <3>1
  <2> QED
    BY <1>1, <1>2, <1>4, <2>1 DEF OwnTypes, Pcs
<1>6. /\ pc'[me] = "loop"
      /\ \A p \in Procs \ {me} :
           pc'[p] = pc[p] /\ got'[p] = got[p] /\ next'[p] = next[p] /\ remain'[p] = remain[p]
  BY <1>1, <1>2, <1>4 DEF OwnTypes
<1>7. DataOf(me)'
  <2>1. me' = me
    BY <1>2 DEF me
  <2> QED
    BY <1>6, <2>1 DEF DataOf
<1>8. Local
  BY <1>1, <1>2, <1>3, <1>4, <1>5, <1>6, <1>7 DEF Local
<1> QED
  BY <1>8, LocalKeeps

\* What a program's line[] holds are bytes, wherever one is stored.
LEMMA StoreFacts ==
    ASSUME lineBuf \in [Programs -> [1 .. LineSize -> Bytes]], NEW g \in Programs,
           NEW i \in 1 .. LineSize, NEW c \in Bytes
    PROVE  [lineBuf EXCEPT ![g][i] = c] \in [Programs -> [1 .. LineSize -> Bytes]]
<1>1. lineBuf[g] \in [1 .. LineSize -> Bytes]
  OBVIOUS
<1>2. [lineBuf[g] EXCEPT ![i] = c] \in [1 .. LineSize -> Bytes]
  BY <1>1
<1> QED
  BY <1>2

LEMMA NextLineKeeps ==
    ASSUME PipeInv, NextLine
    PROVE  PipeInv'
<1>1. /\ step = "in" /\ pc[me] = "line" /\ prog[me] \in Bytewise
      /\ lineBuf' = [lineBuf EXCEPT ![prog[me]][got[me] + 1] = Zero]
      /\ UNCHANGED <<procVars, prog, arg, got, pat, limit, total, userVars>>
  BY DEF NextLine, At
<1>2. UNCHANGED <<tableVars, readyq, current, pipe, waitVars, prog, cmd, spawned, pstate, step,
                  got, total, uart>>
  BY <1>1 DEF procVars, tableVars, waitVars, userVars
<1>3. prog[me] \in Programs /\ prog[me] \in StagePrograms /\ prog[me] \notin {"wc", "echo"}
  BY <1>1 DEF Bytewise, StagePrograms, Programs
<1>4. /\ me \in Procs /\ OwnTypes /\ LineSize \in Nat /\ DataOf(me)
      /\ StagePcs(prog[me]) = {"start", "loop", "read", "line", "put"}
  BY <1>1, <1>3, Own
<1>5. got[me] \in Nat /\ got[me] < LineSize
  <2>1. got[me] \in 0 .. LineSize + WcBufSize
    BY <1>4 DEF OwnTypes
  <2> QED
    BY <1>1, <1>4, <2>1, LineSizeAssumption DEF DataOf
<1>6. lineBuf' \in [Programs -> [1 .. LineSize -> Bytes]]
  <2>1. got[me] + 1 \in 1 .. LineSize
    BY <1>4, <1>5
  <2>2. lineBuf \in [Programs -> [1 .. LineSize -> Bytes]]
    BY <1>4 DEF OwnTypes
  <2> QED
    BY <1>1, <1>3, <2>1, <2>2, BytesAssumption, StoreFacts
<1>7. /\ pc' \in [Procs -> Pcs] /\ next' \in [Procs -> Nat] /\ remain' \in [Procs -> Nat]
      /\ \A p \in Procs \ {me} : pc'[p] = pc[p] /\ next'[p] = next[p] /\ remain'[p] = remain[p]
      /\ \/ pc'[me] = "loop"
         \/ /\ pc'[me] = "put" /\ next'[me] = 0
            /\ remain'[me] = IF prog[me] = "grep" THEN got[me] + 1 ELSE got[me]
  <2> DEFINE n == IF prog[me] = "grep" THEN got[me] + 1 ELSE got[me]
  <2>1. n \in Nat
    BY <1>5
  <2>2. \/ Goto("loop") /\ UNCHANGED <<next, remain>>
        \/ StartPuts(n, "put")
    BY <1>1 DEF NextLine
  <2> HIDE DEF n
  <2>3. CASE Goto("loop") /\ UNCHANGED <<next, remain>>
    BY <1>4, <2>3 DEF Goto, OwnTypes, Pcs
  <2>4. CASE StartPuts(n, "put")
    <3>1. /\ pc' = [pc EXCEPT ![me] = "put"] /\ next' = [next EXCEPT ![me] = 0]
          /\ remain' = [remain EXCEPT ![me] = n]
      BY <2>4 DEF StartPuts, Goto
    <3>2. remain'[me] = n
      BY <1>4, <3>1 DEF OwnTypes
    <3>3. /\ pc' \in [Procs -> Pcs] /\ next' \in [Procs -> Nat] /\ remain' \in [Procs -> Nat]
          /\ \A p \in Procs \ {me} : pc'[p] = pc[p] /\ next'[p] = next[p] /\ remain'[p] = remain[p]
          /\ pc'[me] = "put" /\ next'[me] = 0
      BY <1>4, <2>1, <3>1 DEF OwnTypes, Pcs
    <3> QED
      BY <3>2, <3>3 DEF n
  <2> QED
    BY <2>2, <2>3, <2>4
<1>8. OwnTypes'
  BY <1>2, <1>4, <1>6, <1>7 DEF OwnTypes
<1>9. DataOf(me)'
  <2>1. me' = me /\ prog' = prog /\ got' = got
    BY <1>2 DEF me
  <2>2. CASE pc'[me] = "loop"
    BY <2>1, <2>2 DEF DataOf
  <2>3. CASE /\ pc'[me] = "put" /\ next'[me] = 0
             /\ remain'[me] = IF prog[me] = "grep" THEN got[me] + 1 ELSE got[me]
    BY <1>3, <1>5, <2>1, <2>3 DEF DataOf
  <2> QED
    BY <1>7, <2>2, <2>3
<1>10. pc'[me] \in StagePcs(prog[me]) /\ pc'[me] # "start"
  BY <1>4, <1>7
<1>11. Local
  BY <1>1, <1>2, <1>3, <1>7, <1>8, <1>9, <1>10 DEF Local
<1> QED
  BY <1>11, LocalKeeps

\* An exit changes nothing of its own.
LEMMA ExitKeeps ==
    ASSUME PipeInv, step = "in", prog[me] \in StagePrograms, ExitOp,
           UNCHANGED <<tableVars, readyq, current, pipe, waitVars, prog, cmd, spawned,
                       pc, got, next, remain, lineBuf, total, uart>>
    PROVE  PipeInv'
<1>1. /\ me \in Procs /\ OwnTypes /\ DataOf(me)
      /\ pc[me] \in StagePcs(prog[me])
  BY Own
<1>2. OwnTypes'
  BY <1>1 DEF OwnTypes
<1>3. DataOf(me)'
  <2>1. me' = me
    BY DEF me
  <2> QED
    BY <1>1, <2>1 DEF DataOf
<1>4. Local
  BY <1>1, <1>2, <1>3 DEF Local
<1> QED
  BY <1>4, LocalKeeps

LEMMA LastLineKeeps ==
    ASSUME PipeInv, LastLine
    PROVE  PipeInv'
<1>1. /\ step = "in" /\ pc[me] = "line"
      /\ UNCHANGED <<tableVars, readyq, current, pipe, waitVars, prog, arg, got, lineBuf, pat,
                     limit, total, userVars>>
  BY DEF LastLine, At
<1>2. UNCHANGED <<tableVars, readyq, current, pipe, waitVars, prog, cmd, spawned,
                  got, lineBuf, total, uart>>
  BY <1>1 DEF userVars
<1>3. prog[me] \in Programs /\ prog[me] \in StagePrograms
  BY <1>1, WhoIsAt DEF StagePrograms
<1>4. CASE prog[me] = "wc"
  <2>1. /\ next' = [next EXCEPT ![me] = 0] /\ remain' = [remain EXCEPT ![me] = 2]
        /\ pc' = [pc EXCEPT ![me] = "put"] /\ UNCHANGED <<pstate, step>>
    BY <1>4 DEF LastLine, StartPuts, Goto
  <2>2. /\ me \in Procs /\ OwnTypes
        /\ StagePcs(prog[me]) = {"start", "loop", "read", "line", "put"}
    BY <1>1, <1>3, Own
  <2>3. OwnTypes'
    BY <1>2, <2>1, <2>2 DEF OwnTypes, Pcs
  <2>4. /\ pc'[me] = "put"
        /\ \A p \in Procs \ {me} :
             pc'[p] = pc[p] /\ got'[p] = got[p] /\ next'[p] = next[p] /\ remain'[p] = remain[p]
    BY <1>2, <2>1, <2>2 DEF OwnTypes
  <2>5. DataOf(me)'
    <3>1. me' = me /\ prog' = prog
      BY <1>2 DEF me
    <3> QED
      BY <1>4, <2>4, <3>1 DEF DataOf, Bytewise
  <2>6. Local
    BY <1>1, <1>2, <1>3, <2>1, <2>2, <2>3, <2>4, <2>5 DEF Local
  <2> QED
    BY <2>6, LocalKeeps
<1>5. CASE prog[me] # "wc"
  <2>1. ExitOp /\ UNCHANGED <<next, remain, pc>>
    BY <1>5 DEF LastLine
  <2> QED
    BY <1>1, <1>2, <1>3, <2>1, ExitKeeps
<1> QED
  BY <1>4, <1>5

LEMMA PutDoneKeeps ==
    ASSUME PipeInv, PutDone
    PROVE  PipeInv'
<1>1. /\ step = "in" /\ pc[me] = "put"
      /\ UNCHANGED <<tableVars, readyq, current, pipe, waitVars, prog, arg, got, next, remain,
                     lineBuf, pat, total, userVars>>
  BY DEF PutDone, At
<1>2. UNCHANGED <<tableVars, readyq, current, pipe, waitVars, prog, cmd, spawned,
                  got, next, remain, lineBuf, total, uart>>
  BY <1>1 DEF userVars
<1>3. prog[me] \in Programs \cup {"echo"} /\ prog[me] \in StagePrograms
  BY <1>1, WhoIsAt DEF StagePrograms
<1>4. CASE prog[me] \in Bytewise
  <2>0. prog[me] \in Programs
    BY <1>4 DEF Bytewise, Programs
  <2>1. pc' = [pc EXCEPT ![me] = "loop"] /\ UNCHANGED <<pstate, step>>
    BY <1>4 DEF PutDone, Goto
  <2>2. /\ me \in Procs /\ OwnTypes
        /\ StagePcs(prog[me]) = {"start", "loop", "read", "line", "put"}
    BY <1>1, <1>3, <2>0, Own
  <2>3. OwnTypes'
    BY <1>2, <2>1, <2>2 DEF OwnTypes, Pcs
  <2>4. /\ pc'[me] = "loop"
        /\ \A p \in Procs \ {me} :
             pc'[p] = pc[p] /\ got'[p] = got[p] /\ next'[p] = next[p] /\ remain'[p] = remain[p]
    BY <1>2, <2>1, <2>2 DEF OwnTypes
  <2>5. DataOf(me)'
    <3>1. me' = me /\ prog' = prog
      BY <1>2 DEF me
    <3> QED
      BY <2>4, <3>1 DEF DataOf
  <2>6. Local
    BY <1>1, <1>2, <1>3, <2>1, <2>2, <2>3, <2>4, <2>5 DEF Local
  <2> QED
    BY <2>6, LocalKeeps
<1>5. CASE prog[me] \notin Bytewise
  <2>1. ExitOp /\ UNCHANGED pc
    BY <1>5 DEF PutDone
  <2> QED
    BY <1>1, <1>2, <1>3, <2>1, ExitKeeps
<1> QED
  BY <1>4, <1>5

LEMMA StageExitKeeps ==
    ASSUME PipeInv, StageExit
    PROVE  PipeInv'
<1>1. /\ step = "in" /\ (pc[me] = "loop" \/ prog[me] = "sync") /\ ExitOp
      /\ UNCHANGED <<tableVars, readyq, current, pipe, waitVars, progVars, userVars>>
  BY DEF StageExit, At, Runs
<1>2. UNCHANGED <<tableVars, readyq, current, pipe, waitVars, prog, cmd, spawned,
                  pc, got, next, remain, lineBuf, total, uart>>
  BY <1>1 DEF progVars, userVars
<1>3. prog[me] \in StagePrograms
  BY <1>1, WhoIsAt DEF StagePrograms
<1> QED
  BY <1>1, <1>2, <1>3, ExitKeeps
-----------------------------------------------------------------------------
(***************************************************************************)
(* A byte read and a byte put out.                                         *)
(***************************************************************************)
\* The processes of one wait list wake.
LEMMA WakeKeepsSched ==
    ASSUME PipeInv, step = "in", NEW list \in Seq(Procs), Distinct(list),
           WakeOp(list, pstate, readyq), UNCHANGED <<current, step>>
    PROVE  /\ SchedRight' /\ pstate' \in [Procs -> ProcStates] /\ readyq' \in Seq(Procs)
           /\ \A p \in Procs :
                pstate'[p] = IF p \in ToSet(list) /\ pstate[p] = "BLOCKED" THEN "READY"
                             ELSE pstate[p]
<1>1. /\ pstate \in [Procs -> ProcStates] /\ readyq \in Seq(Procs) /\ Distinct(readyq)
  BY DEF PipeInv, ProcTypes, PipelineTypeOK, SchedRight
<1>2. /\ pstate' \in [Procs -> ProcStates]
      /\ \A p \in Procs :
           pstate'[p] = IF p \in ToSet(list) /\ pstate[p] = "BLOCKED" THEN "READY" ELSE pstate[p]
      /\ readyq' \in Seq(Procs) /\ Distinct(readyq')
      /\ \A p \in Procs : p \in ToSet(readyq') <=>
           p \in ToSet(readyq) \/ (p \in ToSet(list) /\ pstate[p] = "BLOCKED")
  BY <1>1, WakeFacts
<1>3. me \in Procs /\ pstate[me] = "RUNNING" /\ me = current
  BY MeFacts DEF me
<1>4. Distinct(readyq)'
  BY <1>2 DEF Distinct
<1>5. \A p \in Procs : p \in ToSet(readyq)' <=>
        pstate'[p] \in {"READY", "RUNNING"} \/ (step' = "done" /\ p = current')
  BY <1>2, <1>3 DEF PipeInv, SchedRight
<1>6. \A p \in Procs : pstate'[p] = "RUNNING" => step' \in {"in", "yielded"} /\ p = current'
  BY <1>2 DEF PipeInv, SchedRight
<1>7. current' \in Procs /\ pstate'[current'] = "RUNNING"
  BY <1>2, <1>3
<1> QED
  BY <1>2, <1>4, <1>5, <1>6, <1>7 DEF SchedRight

\* The list woken is that of one pipe, which can give something now.
LEMMA WakeKeepsSleep ==
    ASSUME PipeInv, step = "in", NEW r \in Pipes, UNCHANGED <<inPipe, outPipe>>,
           UNCHANGED pc \/ \A p \in Procs \ {me} : pc'[p] = pc[p],
           NEW list,
           \A p \in Procs :
             pstate'[p] = IF p \in ToSet(list) /\ pstate[p] = "BLOCKED" THEN "READY"
                          ELSE pstate[p],
           \/ /\ list = readers[r] /\ readers' = [readers EXCEPT ![r] = <<>>]
              /\ UNCHANGED writers /\ writers[r] = <<>>
           \/ /\ list = writers[r] /\ writers' = [writers EXCEPT ![r] = <<>>]
              /\ UNCHANGED readers /\ readers[r] = <<>>,
           \A q \in Pipes \ {r} : pipe'[q] = pipe[q]
    PROVE  SleepRight'
<1>1. me \in Procs /\ pstate[me] = "RUNNING"
  BY MeFacts
<1>2. \A p \in Procs : pstate[p] = "BLOCKED" => pc'[p] = pc[p]
  BY <1>1
<1>3. /\ readers \in [Pipes -> Seq(Procs)] /\ writers \in [Pipes -> Seq(Procs)]
  BY DEF PipeInv, ProcTypes, PipelineTypeOK
<1>4. /\ readers'[r] = <<>> /\ writers'[r] = <<>>
      /\ \A q \in Pipes \ {r} : readers'[q] = readers[q] /\ writers'[q] = writers[q]
  BY <1>3
<1>5. \A p \in Procs : p \in ToSet(list) =>
        \/ pc[p] = "read" /\ inPipe[p] = r
        \/ pc[p] = "put" /\ outPipe[p] = r
  BY DEF PipeInv, SleepRight
<1>6. \A p \in Procs : p \in ToSet(list) => pstate'[p] # "BLOCKED"
  OBVIOUS
<1>7. \A p \in Procs : pstate'[p] = "BLOCKED" => pstate[p] = "BLOCKED" /\ pc'[p] = pc[p]
  BY <1>2
<1>8. \A p \in Procs : pstate'[p] = "BLOCKED" =>
        /\ ~ (pc[p] = "read" /\ inPipe[p] = r)
        /\ ~ (pc[p] = "put" /\ outPipe[p] = r)
  <2> SUFFICES ASSUME NEW p \in Procs, pstate'[p] = "BLOCKED"
               PROVE  ~ (pc[p] = "read" /\ inPipe[p] = r) /\ ~ (pc[p] = "put" /\ outPipe[p] = r)
    OBVIOUS
  <2>1. pstate[p] = "BLOCKED" /\ p \notin ToSet(list)
    BY <1>6, <1>7
  <2>2. /\ p \in ToSet(readers[r]) <=> pc[p] = "read" /\ inPipe[p] = r
        /\ p \in ToSet(writers[r]) <=> pc[p] = "put" /\ outPipe[p] = r
    BY <2>1 DEF PipeInv, SleepRight
  <2>3. ToSet(<<>>) = {}
    BY EmptyList
  <2> QED
    BY <2>1, <2>2, <2>3
<1>9. ASSUME NEW q \in Pipes
      PROVE  /\ Distinct(readers'[q]) /\ Distinct(writers'[q])
             /\ \A p \in Procs : p \in ToSet(readers'[q]) <=>
                  pstate'[p] = "BLOCKED" /\ pc'[p] = "read" /\ inPipe'[p] = q
             /\ \A p \in Procs : p \in ToSet(writers'[q]) <=>
                  pstate'[p] = "BLOCKED" /\ pc'[p] = "put" /\ outPipe'[p] = q
             /\ readers'[q] # <<>> => Empty(pipe'[q]) /\ ~ pipe'[q].eof
             /\ writers'[q] # <<>> => Full(pipe'[q])
  <2>1. CASE q = r
    <3>1. \A p \in Procs : pstate'[p] = "BLOCKED" =>
            /\ ~ (pc'[p] = "read" /\ inPipe'[p] = q)
            /\ ~ (pc'[p] = "put" /\ outPipe'[p] = q)
      BY <1>7, <1>8, <2>1
    <3> QED
      BY <1>4, <2>1, <3>1, EmptyList
  <2>2. CASE q # r
    <3>1. readers'[q] = readers[q] /\ writers'[q] = writers[q] /\ pipe'[q] = pipe[q]
      BY <1>4, <2>2
    <3>2. /\ Distinct(readers[q]) /\ Distinct(writers[q])
          /\ \A p \in Procs : p \in ToSet(readers[q]) <=>
               pstate[p] = "BLOCKED" /\ pc[p] = "read" /\ inPipe[p] = q
          /\ \A p \in Procs : p \in ToSet(writers[q]) <=>
               pstate[p] = "BLOCKED" /\ pc[p] = "put" /\ outPipe[p] = q
          /\ readers[q] # <<>> => Empty(pipe[q]) /\ ~ pipe[q].eof
          /\ writers[q] # <<>> => Full(pipe[q])
      BY DEF PipeInv, SleepRight
    <3>3. ASSUME NEW p \in Procs
          PROVE  /\ p \in ToSet(readers[q]) => pstate'[p] = "BLOCKED" /\ pc'[p] = pc[p]
                 /\ p \in ToSet(writers[q]) => pstate'[p] = "BLOCKED" /\ pc'[p] = pc[p]
      BY <1>2, <1>5, <2>2, <3>2
    <3>4. ASSUME NEW p \in Procs
          PROVE  p \in ToSet(readers[q]) <=>
                   pstate'[p] = "BLOCKED" /\ pc'[p] = "read" /\ inPipe'[p] = q
      BY <1>7, <3>2, <3>3
    <3>5. ASSUME NEW p \in Procs
          PROVE  p \in ToSet(writers[q]) <=>
                   pstate'[p] = "BLOCKED" /\ pc'[p] = "put" /\ outPipe'[p] = q
      BY <1>7, <3>2, <3>3
    <3> QED
      BY <3>1, <3>2, <3>4, <3>5
  <2> QED
    BY <2>1, <2>2
<1>10. \A p \in Procs : pstate'[p] = "BLOCKED" =>
         \/ pc'[p] = "read" /\ inPipe'[p] # NULL
         \/ pc'[p] = "put" /\ outPipe'[p] # NULL
  BY <1>7 DEF PipeInv, SleepRight
<1> QED
  BY <1>9, <1>10 DEF SleepRight, Distinct

\* The byte a stage puts out is one.
LEMMA OutByteFacts ==
    ASSUME PipeInv, step = "in", pc[me] = "put", remain[me] > 0
    PROVE  OutByte \in Bytes
<1>1. prog[me] \in Programs \cup {"echo"} /\ prog[me] \in StagePrograms
  BY WhoIsAt DEF StagePrograms
<1>2. /\ me \in Procs /\ LiveStage(me) /\ DataOf(me) /\ OwnTypes /\ LineSize \in Nat
  BY <1>1, Own
<1>3. /\ got[me] \in 0 .. LineSize + WcBufSize /\ next[me] \in Nat /\ remain[me] \in Nat
      /\ lineBuf \in [Programs -> [1 .. LineSize -> Bytes]] /\ total \in 0 .. TotalMod - 1
  BY <1>2 DEF OwnTypes
<1>4. got[me] \in Nat
  BY <1>3, LineSizeAssumption
<1>5. CASE prog[me] = "echo"
  <2>1. cmd \in Commands
    BY <1>2, StageFacts DEF PipeInv
  <2>2. cmd.input \in Seq(Bytes)
    BY <2>1, CommandsAssumption
  <2>3. next[me] + 1 \in 1 .. Len(cmd.input)
    <3>1. next[me] + remain[me] = Len(cmd.input)
      BY <1>2, <1>5 DEF DataOf
    <3> QED
      BY <1>3, <3>1
  <2>4. OutByte = cmd.input[next[me] + 1]
    BY <1>5 DEF OutByte
  <2> DEFINE i == next[me] + 1
  <2> HIDE DEF i
  <2>5. cmd.input[i] \in Bytes
    BY <2>2, <2>3, ElementOfSeq DEF i
  <2> QED
    BY <2>4, <2>5 DEF i
<1>6. CASE prog[me] = "wc"
  <2>1. OutByte = IF remain[me] = 1 THEN NL ELSE total
    BY <1>6 DEF OutByte, TotalByte
  <2> QED
    BY <1>3, <2>1, NLAssumption, CountsAssumption
<1>7. CASE prog[me] = "grep" /\ remain[me] = 1
  <2>1. OutByte = NL
    BY <1>7 DEF OutByte
  <2> QED
    BY <2>1, NLAssumption
<1>8. CASE prog[me] \in Bytewise /\ ~ (prog[me] = "grep" /\ remain[me] = 1)
  <2>1. prog[me] \in Programs /\ prog[me] \notin {"wc", "echo"}
    BY <1>8 DEF Bytewise, Programs
  <2>2. OutByte = lineBuf[prog[me]][next[me] + 1]
    BY <1>8, <2>1 DEF OutByte
  <2>3. next[me] + 1 \in 1 .. LineSize
    <3>1. /\ got[me] < LineSize
          /\ next[me] + remain[me] = IF prog[me] = "grep" THEN got[me] + 1 ELSE got[me]
      BY <1>2, <1>8 DEF DataOf
    <3>2. next[me] \in Nat /\ remain[me] \in Nat /\ got[me] \in Nat /\ LineSize \in Nat
      BY <1>2, <1>3, <1>4
    <3>3. CASE prog[me] = "grep"
      BY <1>8, <3>1, <3>2, <3>3
    <3>4. CASE prog[me] # "grep"
      BY <3>1, <3>2, <3>4
    <3> QED
      BY <3>3, <3>4
  <2>4. lineBuf[prog[me]] \in [1 .. LineSize -> Bytes]
    BY <1>3, <2>1
  <2> QED
    BY <2>2, <2>3, <2>4
<1> QED
  BY <1>1, <1>5, <1>6, <1>7, <1>8 DEF Bytewise, Programs

\* One byte of a ring is put in or taken out, and the other side wakes.
LEMMA PipeStepKeeps ==
    ASSUME PipeInv, step = "in", prog[me] \in StagePrograms, NEW q \in Pipes, NEW r,
           RingOK(r), r.eof = pipe[q].eof, pipe' = [pipe EXCEPT ![q] = r],
           NEW list \in Seq(Procs), WakeOp(list, pstate, readyq),
           \/ /\ list = readers[q] /\ readers' = [readers EXCEPT ![q] = <<>>]
              /\ UNCHANGED writers /\ writers[q] = <<>>
           \/ /\ list = writers[q] /\ writers' = [writers EXCEPT ![q] = <<>>]
              /\ UNCHANGED readers /\ readers[q] = <<>>,
           UNCHANGED <<tableVars, current, step, prog, cmd, spawned>>, OwnTypes',
           \A p \in Procs \ {me} :
             pc'[p] = pc[p] /\ got'[p] = got[p] /\ next'[p] = next[p] /\ remain'[p] = remain[p],
           pc'[me] \in StagePcs(prog[me]), pc'[me] # "start", DataOf(me)'
    PROVE  PipeInv'
<1>1. UNCHANGED <<parent, children, inPipe, outPipe>>
  BY DEF tableVars
<1>2. me \in Procs /\ pstate[me] = "RUNNING"
  BY MeFacts
<1>3. Distinct(list)
  BY DEF PipeInv, SleepRight
<1>4. /\ SchedRight' /\ pstate' \in [Procs -> ProcStates] /\ readyq' \in Seq(Procs)
      /\ \A p \in Procs :
           pstate'[p] = IF p \in ToSet(list) /\ pstate[p] = "BLOCKED" THEN "READY"
                        ELSE pstate[p]
  BY <1>3, WakeKeepsSched
<1>5. /\ pipe \in [Pipes -> PipeType] /\ \A x \in Pipes : RingOK(pipe[x])
      /\ readers \in [Pipes -> Seq(Procs)] /\ writers \in [Pipes -> Seq(Procs)]
      /\ step \in {"none", "in", "yielded", "done"}
  BY TypesParts DEF ListTypes, PipeInv
<1>6. pipe'[q] = r /\ \A x \in Pipes \ {q} : pipe'[x] = pipe[x]
  BY <1>5
<1>7. pipe' \in [Pipes -> PipeType] /\ \A x \in Pipes : RingOK(pipe'[x]) /\ pipe'[x].eof = pipe[x].eof
  <2>1. r \in PipeType
    BY DEF RingOK
  <2> QED
    BY <1>5, <1>6, <2>1
<1>8. SleepRight'
  BY <1>1, <1>4, <1>6, WakeKeepsSleep
<1>9. ListTypes'
  <2>1. readers' \in [Pipes -> Seq(Procs)] /\ writers' \in [Pipes -> Seq(Procs)]
    BY <1>5, EmptyList
  <2> QED
    BY <1>4, <1>5, <1>7, <2>1 DEF ListTypes
<1>10. ProcTypes'
  <2>1. TableTypes'
    BY TableKept DEF PipeInv
  <2> QED
    BY <1>9, <2>1, TypesPrimed
<1>11. StageMove
  <2>1. \A p \in Procs \ {me} :
          pstate'[p] = pstate[p] \/ (pstate[p] = "BLOCKED" /\ pstate'[p] = "READY")
    BY <1>4
  <2>2. pstate'[me] = "RUNNING"
    BY <1>2, <1>4
  <2> QED
    BY <1>1, <1>7, <2>1, <2>2 DEF StageMove
<1> QED
  BY <1>4, <1>8, <1>10, <1>11, StageMoveKeeps DEF PipeInv

LEMMA ReadKeeps ==
    ASSUME PipeInv, Read
    PROVE  PipeInv'
<1> DEFINE q == inPipe[me]
           c == FrontByte(pipe[q])
           n == got[me] + 1
           whole == IF prog[me] = "wc" THEN n = WcBufSize ELSE n + 1 >= LineSize \/ c = NL
<1>1. /\ step = "in" /\ pc[me] = "read" /\ ~ Empty(pipe[q])
      /\ ReadOp(q)
      /\ got' = [got EXCEPT ![me] = n]
      /\ lineBuf' = IF prog[me] \in Bytewise THEN [lineBuf EXCEPT ![prog[me]][n] = c] ELSE lineBuf
      /\ pc' = [pc EXCEPT ![me] = IF whole THEN "line" ELSE "read"]
      /\ UNCHANGED <<tableVars, current, step, prog, arg, next, remain, pat, limit, total,
                     userVars>>
  BY DEF Read, At, Goto
<1>2. UNCHANGED <<cmd, spawned, uart>>
  BY <1>1 DEF userVars
<1>3. prog[me] \in Programs /\ prog[me] \in StagePrograms
  BY <1>1, WhoIsAt DEF StagePrograms
<1>4. /\ me \in Procs /\ LiveStage(me) /\ OwnTypes /\ DataOf(me) /\ LineSize \in Nat
      /\ WcBufSize \in Nat
      /\ StagePcs(prog[me]) = {"start", "loop", "read", "line", "put"}
  BY <1>1, <1>3, Own
<1>5. q \in Pipes
  BY <1>3, <1>4, StageFacts DEF PipeInv
<1>6. /\ RingOK(ReadByte(pipe[q])) /\ ReadByte(pipe[q]).eof = pipe[q].eof /\ c \in Bytes
  <2>1. RingOK(pipe[q])
    BY <1>5 DEF PipeInv, ProcTypes, PipelineTypeOK
  <2> QED
    BY <1>1, <2>1, ReadFacts
<1>7. readers[q] = <<>> /\ writers[q] \in Seq(Procs)
  <2>1. readers[q] = <<>>
    BY <1>1, <1>5 DEF PipeInv, SleepRight
  <2>2. writers[q] \in Seq(Procs)
    BY <1>5 DEF PipeInv, ProcTypes, PipelineTypeOK
  <2> QED
    BY <2>1, <2>2
<1>8. /\ pipe' = [pipe EXCEPT ![q] = ReadByte(pipe[q])]
      /\ WakeOp(writers[q], pstate, readyq)
      /\ writers' = [writers EXCEPT ![q] = <<>>] /\ UNCHANGED readers
  BY <1>1 DEF ReadOp
<1>9. /\ got[me] \in Nat /\ n \in Nat /\ n = got[me] + 1
      /\ prog[me] \in Bytewise => n < LineSize
      /\ prog[me] = "wc" => n <= WcBufSize
      /\ prog[me] \in Bytewise \/ prog[me] = "wc"
  <2>1. got[me] \in 0 .. LineSize + WcBufSize
    BY <1>4 DEF OwnTypes
  <2>2. got[me] \in Nat
    BY <1>4, <2>1
  <2>3. prog[me] \in Bytewise => got[me] + 1 < LineSize
    BY <1>1, <1>4 DEF DataOf
  <2>4. prog[me] = "wc" => got[me] < WcBufSize
    BY <1>1, <1>4 DEF DataOf
  <2>5. prog[me] \in Bytewise \/ prog[me] = "wc"
    BY <1>3 DEF Programs, Bytewise
  <2> QED
    BY <1>4, <2>2, <2>3, <2>4, <2>5
<1> HIDE DEF q, c, n
<1>10. OwnTypes'
  <2>1. lineBuf' \in [Programs -> [1 .. LineSize -> Bytes]]
    <3>1. CASE prog[me] \in Bytewise
      <4>1. n \in 1 .. LineSize
        BY <1>4, <1>9, <3>1
      <4> QED
        BY <1>1, <1>3, <1>4, <1>6, <3>1, <4>1, StoreFacts DEF OwnTypes
    <3>2. CASE prog[me] \notin Bytewise
      BY <1>1, <1>4, <3>2 DEF OwnTypes
    <3> QED
      BY <3>1, <3>2
  <2>2. n \in 0 .. LineSize + WcBufSize
    BY <1>4, <1>9
  <2>3. (IF whole THEN "line" ELSE "read") \in Pcs
    BY DEF Pcs
  <2> HIDE DEF whole
  <2> QED
    BY <1>1, <1>2, <1>4, <2>1, <2>2, <2>3 DEF OwnTypes
<1>11. /\ pc'[me] = IF whole THEN "line" ELSE "read"
       /\ got'[me] = n
       /\ \A p \in Procs \ {me} :
            pc'[p] = pc[p] /\ got'[p] = got[p] /\ next'[p] = next[p] /\ remain'[p] = remain[p]
  <2> HIDE DEF whole
  <2> QED
    BY <1>1, <1>4 DEF OwnTypes
<1>12. DataOf(me)'
  <2>1. me' = me /\ prog' = prog
    BY <1>1 DEF me
  <2>2. /\ prog[me] \in Bytewise => /\ pc'[me] = "read" => n + 1 < LineSize
                                    /\ n < LineSize /\ prog[me] # "wc" /\ prog[me] # "echo"
        /\ prog[me] = "wc" => /\ pc'[me] = "read" => n < WcBufSize
                              /\ n <= WcBufSize
        /\ pc'[me] # "put"
    <3>1. prog[me] \in Bytewise => prog[me] # "wc" /\ prog[me] # "echo"
      BY DEF Bytewise
    <3> QED
      BY <1>4, <1>9, <1>11, <3>1
  <2> QED
    BY <1>11, <2>1, <2>2 DEF DataOf
<1>13. pc'[me] \in StagePcs(prog[me]) /\ pc'[me] # "start"
  BY <1>4, <1>11
<1> QED
  BY <1>1, <1>2, <1>3, <1>5, <1>6, <1>7, <1>8, <1>10, <1>11, <1>12, <1>13, PipeStepKeeps

LEMMA PutKeeps ==
    ASSUME PipeInv, Put
    PROVE  PipeInv'
<1> DEFINE q == outPipe[me]
<1>1. /\ step = "in" /\ pc[me] = "put" /\ remain[me] > 0
      /\ next' = [next EXCEPT ![me] = @ + 1]
      /\ remain' = [remain EXCEPT ![me] = @ - 1]
      /\ UNCHANGED <<tableVars, current, step, prog, arg, pc, got, lineBuf, pat, limit, total,
                     cmd, spawned>>
  BY DEF Put, At, Advance
<1>2. prog[me] \in Programs \cup {"echo"} /\ prog[me] \in StagePrograms
  BY <1>1, WhoIsAt DEF StagePrograms
<1>3. /\ me \in Procs /\ LiveStage(me) /\ OwnTypes /\ DataOf(me)
      /\ pc[me] \in StagePcs(prog[me])
  BY <1>1, <1>2, Own
<1>4. OutByte \in Bytes
  BY <1>1, OutByteFacts
<1>5. /\ next[me] \in Nat /\ remain[me] \in Nat /\ remain[me] - 1 \in Nat
      /\ next'[me] = next[me] + 1 /\ remain'[me] = remain[me] - 1
      /\ next' \in [Procs -> Nat] /\ remain' \in [Procs -> Nat]
      /\ \A p \in Procs \ {me} :
           pc'[p] = pc[p] /\ got'[p] = got[p] /\ next'[p] = next[p] /\ remain'[p] = remain[p]
  <2>1. next \in [Procs -> Nat] /\ remain \in [Procs -> Nat]
    BY <1>3 DEF OwnTypes
  <2>2. next[me] \in Nat /\ remain[me] \in Nat /\ next[me] + 1 \in Nat /\ remain[me] - 1 \in Nat
    BY <1>1, <1>3, <2>1
  <2> QED
    BY <1>1, <1>3, <2>1, <2>2
<1>6. DataOf(me)'
  <2>1. /\ me' = me /\ prog' = prog /\ pc' = pc /\ got' = got /\ cmd' = cmd
    BY <1>1 DEF me
  <2>2. next'[me] + remain'[me] = next[me] + remain[me]
    BY <1>5
  <2> QED
    BY <1>1, <1>3, <2>1, <2>2 DEF DataOf
<1>7. CASE q = NULL
  <2>1. uart' = Append(uart, OutByte) /\ UNCHANGED <<pipe, schedVars, waitVars>>
    BY <1>7 DEF Put
  <2>2. OwnTypes'
    <3>1. uart' \in Seq(Bytes)
      BY <1>3, <1>4, <2>1, AppendProperties DEF OwnTypes
    <3> QED
      BY <1>1, <1>3, <1>5, <3>1 DEF OwnTypes
  <2>3. UNCHANGED <<pstate, readyq>>
    BY <2>1 DEF schedVars
  <2>4. Local
    BY <1>1, <1>2, <1>3, <1>5, <1>6, <2>1, <2>2, <2>3 DEF Local
  <2> QED
    BY <2>4, LocalKeeps
<1>8. CASE q # NULL
  <2>1. ~ Full(pipe[q]) /\ WriteOp(q, OutByte) /\ UNCHANGED uart
    BY <1>8 DEF Put
  <2>2. q \in Pipes
    BY <1>3, <1>8, StageFacts DEF PipeInv
  <2>3. OwnTypes'
    BY <1>1, <1>3, <1>5, <2>1 DEF OwnTypes
  <2>4. /\ RingOK(WriteByte(pipe[q], OutByte))
        /\ WriteByte(pipe[q], OutByte).eof = pipe[q].eof
    <3>1. RingOK(pipe[q])
      BY <2>2 DEF PipeInv, ProcTypes, PipelineTypeOK
    <3> QED
      BY <1>4, <2>1, <3>1, WriteFacts
  <2>5. writers[q] = <<>> /\ readers[q] \in Seq(Procs)
    <3>1. writers[q] = <<>>
      BY <2>1, <2>2 DEF PipeInv, SleepRight
    <3>2. readers[q] \in Seq(Procs)
      BY <2>2 DEF PipeInv, ProcTypes, PipelineTypeOK
    <3> QED
      BY <3>1, <3>2
  <2>6. /\ pipe' = [pipe EXCEPT ![q] = WriteByte(pipe[q], OutByte)]
        /\ WakeOp(readers[q], pstate, readyq)
        /\ readers' = [readers EXCEPT ![q] = <<>>] /\ UNCHANGED writers
    BY <2>1 DEF WriteOp
  <2>7. pc'[me] \in StagePcs(prog[me]) /\ pc'[me] # "start"
    BY <1>1, <1>3
  <2> HIDE DEF q
  <2> QED
    BY <1>1, <1>2, <1>5, <1>6, <2>2, <2>3, <2>4, <2>5, <2>6, <2>7, PipeStepKeeps
<1> QED
  BY <1>7, <1>8
-----------------------------------------------------------------------------
(***************************************************************************)
(* A stage that goes to sleep.                                             *)
(***************************************************************************)
LEMMA BlockKeepsSched ==
    ASSUME PipeInv, step = "in", BlockOp(me), step' = "yielded", UNCHANGED current
    PROVE  /\ SchedRight' /\ pstate' \in [Procs -> ProcStates] /\ readyq' \in Seq(Procs)
           /\ \A p \in Procs : pstate'[p] = IF p = me THEN "BLOCKED" ELSE pstate[p]
<1>1. /\ pstate \in [Procs -> ProcStates] /\ readyq \in Seq(Procs) /\ Distinct(readyq)
  BY DEF PipeInv, ProcTypes, PipelineTypeOK, SchedRight
<1>2. me \in Procs /\ pstate[me] = "RUNNING" /\ me = current
  BY MeFacts DEF me
<1>3. pstate' = [pstate EXCEPT ![me] = "BLOCKED"] /\ readyq' = RemoveFirst(readyq, me)
  BY DEF BlockOp, RemoveReady
<1>4. /\ pstate' \in [Procs -> ProcStates]
      /\ \A p \in Procs : pstate'[p] = IF p = me THEN "BLOCKED" ELSE pstate[p]
  BY <1>1, <1>2, <1>3 DEF ProcStates
<1>5. /\ readyq' \in Seq(Procs) /\ ToSet(readyq') = ToSet(readyq) \ {me} /\ Distinct(readyq')
  BY <1>1, <1>3, RemoveFirstFacts
<1>6. \A p \in Procs : p \in ToSet(readyq)' <=>
        pstate'[p] \in {"READY", "RUNNING"} \/ (step' = "done" /\ p = current')
  BY <1>2, <1>4, <1>5 DEF PipeInv, SchedRight
<1>7. \A p \in Procs : pstate'[p] = "RUNNING" => step' \in {"in", "yielded"} /\ p = current'
  BY <1>2, <1>4 DEF PipeInv, SchedRight
<1>8. Distinct(readyq)' /\ current' \in Procs /\ pstate'[current'] = "BLOCKED"
  BY <1>2, <1>4, <1>5 DEF Distinct
<1> QED
  BY <1>4, <1>5, <1>6, <1>7, <1>8 DEF SchedRight

LEMMA ReadWaitKeeps ==
    ASSUME PipeInv, ReadWait
    PROVE  PipeInv'
<1> DEFINE q == inPipe[me]
<1>1. /\ step = "in" /\ pc[me] = "read" /\ Empty(pipe[q]) /\ ~ pipe[q].eof
      /\ readers' = [readers EXCEPT ![q] = <<me>> \o readers[q]]
      /\ BlockOp(me) /\ UNCHANGED writers
      /\ step' = "yielded"
      /\ UNCHANGED <<tableVars, current, pipe, progVars, userVars>>
  BY DEF ReadWait, At, WaitReaderOp, Yield
<1>2. UNCHANGED <<parent, children, inPipe, outPipe, prog, pc, got, next, remain, lineBuf, total,
                  cmd, spawned, uart>>
  BY <1>1 DEF tableVars, progVars, userVars
<1>3. prog[me] \in Programs /\ prog[me] \in StagePrograms
  BY <1>1, WhoIsAt DEF StagePrograms
<1>4. /\ me \in Procs /\ LiveStage(me) /\ OwnTypes /\ DataOf(me) /\ pc[me] \in StagePcs(prog[me])
      /\ \A r \in Pipes : me \notin ToSet(readers[r]) /\ me \notin ToSet(writers[r])
      /\ pstate[me] = "RUNNING"
  BY <1>1, <1>3, Own, MeFacts
<1>5. q \in Pipes
  BY <1>3, <1>4, StageFacts DEF PipeInv
<1>6. /\ SchedRight' /\ pstate' \in [Procs -> ProcStates] /\ readyq' \in Seq(Procs)
      /\ \A p \in Procs : pstate'[p] = IF p = me THEN "BLOCKED" ELSE pstate[p]
  BY <1>1, BlockKeepsSched
<1> HIDE DEF q
<1>7. /\ readers \in [Pipes -> Seq(Procs)] /\ ListTypes
  BY TypesParts DEF ListTypes, PipeInv
<1>8. /\ readers' \in [Pipes -> Seq(Procs)]
      /\ ToSet(readers'[q]) = ToSet(readers[q]) \cup {me} /\ Distinct(readers'[q])
      /\ \A r \in Pipes \ {q} : readers'[r] = readers[r]
  <2>1. Distinct(readers[q])
    BY <1>5 DEF PipeInv, SleepRight
  <2>2. /\ <<me>> \o readers[q] \in Seq(Procs)
        /\ ToSet(<<me>> \o readers[q]) = ToSet(readers[q]) \cup {me}
        /\ Distinct(<<me>> \o readers[q])
    BY <1>4, <1>5, <1>7, <2>1, ConsFacts
  <2> DEFINE w == <<me>> \o readers[q]
  <2> HIDE DEF w
  <2>3. readers' = [readers EXCEPT ![q] = w]
    BY <1>1 DEF w
  <2>4. readers'[q] = w
    BY <1>5, <1>7, <2>3
  <2>5. readers' \in [Pipes -> Seq(Procs)]
    BY <1>7, <2>2, <2>3 DEF w
  <2> QED
    BY <1>7, <2>2, <2>3, <2>4, <2>5 DEF w
<1>9. SleepRight'
  <2>1. ASSUME NEW r \in Pipes
        PROVE  /\ Distinct(readers'[r]) /\ Distinct(writers'[r])
               /\ \A p \in Procs : p \in ToSet(readers'[r]) <=>
                    pstate'[p] = "BLOCKED" /\ pc'[p] = "read" /\ inPipe'[p] = r
               /\ \A p \in Procs : p \in ToSet(writers'[r]) <=>
                    pstate'[p] = "BLOCKED" /\ pc'[p] = "put" /\ outPipe'[p] = r
               /\ readers'[r] # <<>> => Empty(pipe'[r]) /\ ~ pipe'[r].eof
               /\ writers'[r] # <<>> => Full(pipe'[r])
    <3>1. /\ Distinct(readers[r]) /\ Distinct(writers[r])
          /\ \A p \in Procs : p \in ToSet(readers[r]) <=>
               pstate[p] = "BLOCKED" /\ pc[p] = "read" /\ inPipe[p] = r
          /\ \A p \in Procs : p \in ToSet(writers[r]) <=>
               pstate[p] = "BLOCKED" /\ pc[p] = "put" /\ outPipe[p] = r
          /\ readers[r] # <<>> => Empty(pipe[r]) /\ ~ pipe[r].eof
          /\ writers[r] # <<>> => Full(pipe[r])
      BY DEF PipeInv, SleepRight
    <3>2. \A p \in Procs : p \in ToSet(writers'[r]) <=>
            pstate'[p] = "BLOCKED" /\ pc'[p] = "put" /\ outPipe'[p] = r
      BY <1>1, <1>2, <1>4, <1>6, <3>1
    <3>3. \A p \in Procs : p \in ToSet(readers'[r]) <=>
            pstate'[p] = "BLOCKED" /\ pc'[p] = "read" /\ inPipe'[p] = r
      <4>0. \A p \in Procs : p \in ToSet(readers[r]) <=>
              pstate[p] = "BLOCKED" /\ pc[p] = "read" /\ inPipe[p] = r
        BY <3>1
      <4>1. CASE r = q
        <5>1. \A p \in Procs : p \in ToSet(readers'[r]) <=> p \in ToSet(readers[r]) \/ p = me
          BY <1>8, <4>1
        <5>2. inPipe[me] = r /\ pc[me] = "read"
          BY <1>1, <4>1 DEF q
        <5> QED
          BY <1>2, <1>4, <1>6, <4>0, <5>1, <5>2
      <4>2. CASE r # q
        <5>1. readers'[r] = readers[r]
          BY <1>8, <4>2
        <5>2. inPipe[me] # r
          BY <4>2 DEF q
        <5> QED
          BY <1>2, <1>4, <1>6, <4>0, <5>1, <5>2
      <4> QED
        BY <4>1, <4>2
    <3>4. readers'[r] # <<>> => Empty(pipe'[r]) /\ ~ pipe'[r].eof
      BY <1>1, <1>8, <3>1
    <3>5. Distinct(readers'[r]) /\ Distinct(writers'[r])
      BY <1>1, <1>8, <3>1
    <3> QED
      BY <1>1, <3>1, <3>2, <3>3, <3>4, <3>5
  <2>2. \A p \in Procs : pstate'[p] = "BLOCKED" =>
           \/ pc'[p] = "read" /\ inPipe'[p] # NULL
           \/ pc'[p] = "put" /\ outPipe'[p] # NULL
    BY <1>1, <1>2, <1>5, <1>6, Names DEF PipeInv, SleepRight, q
  <2> QED
    BY <2>1, <2>2 DEF SleepRight, Distinct
<1>10. ProcTypes'
  <2>1. TableTypes'
    BY <1>1, <1>2, TableKept DEF PipeInv
  <2>2. OwnTypes'
    BY <1>2, <1>4 DEF OwnTypes
  <2>3. ListTypes'
    BY <1>1, <1>6, <1>7, <1>8 DEF ListTypes
  <2> QED
    BY <2>1, <2>2, <2>3, TypesPrimed
<1>11. StageMove
  <2>1. DataOf(me)'
    <3>1. me' = me
      BY <1>1 DEF me
    <3> QED
      BY <1>2, <1>4, <3>1 DEF DataOf
  <2> QED
    BY <1>1, <1>2, <1>3, <1>4, <1>6, <2>1 DEF StageMove
<1> QED
  BY <1>6, <1>9, <1>10, <1>11, StageMoveKeeps DEF PipeInv

LEMMA PutWaitKeeps ==
    ASSUME PipeInv, PutWait
    PROVE  PipeInv'
<1> DEFINE q == outPipe[me]
<1>1. /\ step = "in" /\ pc[me] = "put" /\ q # NULL /\ Full(pipe[q])
      /\ writers' = [writers EXCEPT ![q] = <<me>> \o writers[q]]
      /\ BlockOp(me) /\ UNCHANGED readers
      /\ step' = "yielded"
      /\ UNCHANGED <<tableVars, current, pipe, progVars, userVars>>
  BY DEF PutWait, At, WaitWriterOp, Yield
<1>2. UNCHANGED <<parent, children, inPipe, outPipe, prog, pc, got, next, remain, lineBuf, total,
                  cmd, spawned, uart>>
  BY <1>1 DEF tableVars, progVars, userVars
<1>3. prog[me] \in Programs \cup {"echo"} /\ prog[me] \in StagePrograms
  BY <1>1, WhoIsAt DEF StagePrograms
<1>4. /\ me \in Procs /\ LiveStage(me) /\ OwnTypes /\ DataOf(me) /\ pc[me] \in StagePcs(prog[me])
      /\ \A r \in Pipes : me \notin ToSet(readers[r]) /\ me \notin ToSet(writers[r])
      /\ pstate[me] = "RUNNING"
  BY <1>1, <1>3, Own, MeFacts
<1>5. q \in Pipes
  BY <1>1, <1>4, StageFacts DEF PipeInv
<1>6. /\ SchedRight' /\ pstate' \in [Procs -> ProcStates] /\ readyq' \in Seq(Procs)
      /\ \A p \in Procs : pstate'[p] = IF p = me THEN "BLOCKED" ELSE pstate[p]
  BY <1>1, BlockKeepsSched
<1> HIDE DEF q
<1>7. /\ writers \in [Pipes -> Seq(Procs)] /\ ListTypes
  BY TypesParts DEF ListTypes, PipeInv
<1>8. /\ writers' \in [Pipes -> Seq(Procs)]
      /\ ToSet(writers'[q]) = ToSet(writers[q]) \cup {me} /\ Distinct(writers'[q])
      /\ \A r \in Pipes \ {q} : writers'[r] = writers[r]
  <2>1. Distinct(writers[q])
    BY <1>5 DEF PipeInv, SleepRight
  <2>2. /\ <<me>> \o writers[q] \in Seq(Procs)
        /\ ToSet(<<me>> \o writers[q]) = ToSet(writers[q]) \cup {me}
        /\ Distinct(<<me>> \o writers[q])
    BY <1>4, <1>5, <1>7, <2>1, ConsFacts
  <2> DEFINE w == <<me>> \o writers[q]
  <2> HIDE DEF w
  <2>3. writers' = [writers EXCEPT ![q] = w]
    BY <1>1 DEF w
  <2>4. writers'[q] = w
    BY <1>5, <1>7, <2>3
  <2>5. writers' \in [Pipes -> Seq(Procs)]
    BY <1>7, <2>2, <2>3 DEF w
  <2> QED
    BY <1>7, <2>2, <2>3, <2>4, <2>5 DEF w
<1>9. SleepRight'
  <2>1. ASSUME NEW r \in Pipes
        PROVE  /\ Distinct(readers'[r]) /\ Distinct(writers'[r])
               /\ \A p \in Procs : p \in ToSet(readers'[r]) <=>
                    pstate'[p] = "BLOCKED" /\ pc'[p] = "read" /\ inPipe'[p] = r
               /\ \A p \in Procs : p \in ToSet(writers'[r]) <=>
                    pstate'[p] = "BLOCKED" /\ pc'[p] = "put" /\ outPipe'[p] = r
               /\ readers'[r] # <<>> => Empty(pipe'[r]) /\ ~ pipe'[r].eof
               /\ writers'[r] # <<>> => Full(pipe'[r])
    <3>1. /\ Distinct(readers[r]) /\ Distinct(writers[r])
          /\ \A p \in Procs : p \in ToSet(readers[r]) <=>
               pstate[p] = "BLOCKED" /\ pc[p] = "read" /\ inPipe[p] = r
          /\ \A p \in Procs : p \in ToSet(writers[r]) <=>
               pstate[p] = "BLOCKED" /\ pc[p] = "put" /\ outPipe[p] = r
          /\ readers[r] # <<>> => Empty(pipe[r]) /\ ~ pipe[r].eof
          /\ writers[r] # <<>> => Full(pipe[r])
      BY DEF PipeInv, SleepRight
    <3>2. \A p \in Procs : p \in ToSet(readers'[r]) <=>
            pstate'[p] = "BLOCKED" /\ pc'[p] = "read" /\ inPipe'[p] = r
      BY <1>1, <1>2, <1>4, <1>6, <3>1
    <3>3. \A p \in Procs : p \in ToSet(writers'[r]) <=>
            pstate'[p] = "BLOCKED" /\ pc'[p] = "put" /\ outPipe'[p] = r
      <4>0. \A p \in Procs : p \in ToSet(writers[r]) <=>
              pstate[p] = "BLOCKED" /\ pc[p] = "put" /\ outPipe[p] = r
        BY <3>1
      <4>1. CASE r = q
        <5>1. \A p \in Procs : p \in ToSet(writers'[r]) <=> p \in ToSet(writers[r]) \/ p = me
          BY <1>8, <4>1
        <5>2. outPipe[me] = r /\ pc[me] = "put"
          BY <1>1, <4>1 DEF q
        <5> QED
          BY <1>2, <1>4, <1>6, <4>0, <5>1, <5>2
      <4>2. CASE r # q
        <5>1. writers'[r] = writers[r]
          BY <1>8, <4>2
        <5>2. outPipe[me] # r
          BY <4>2 DEF q
        <5> QED
          BY <1>2, <1>4, <1>6, <4>0, <5>1, <5>2
      <4> QED
        BY <4>1, <4>2
    <3>4. writers'[r] # <<>> => Full(pipe'[r])
      BY <1>1, <1>8, <3>1
    <3>5. Distinct(readers'[r]) /\ Distinct(writers'[r])
      BY <1>1, <1>8, <3>1
    <3> QED
      BY <1>1, <3>1, <3>2, <3>3, <3>4, <3>5
  <2>2. \A p \in Procs : pstate'[p] = "BLOCKED" =>
           \/ pc'[p] = "read" /\ inPipe'[p] # NULL
           \/ pc'[p] = "put" /\ outPipe'[p] # NULL
    BY <1>1, <1>2, <1>5, <1>6, Names DEF PipeInv, SleepRight, q
  <2> QED
    BY <2>1, <2>2 DEF SleepRight, Distinct
<1>10. ProcTypes'
  <2>1. TableTypes'
    BY <1>1, <1>2, TableKept DEF PipeInv
  <2>2. OwnTypes'
    BY <1>2, <1>4 DEF OwnTypes
  <2>3. ListTypes'
    BY <1>1, <1>6, <1>7, <1>8 DEF ListTypes
  <2> QED
    BY <2>1, <2>2, <2>3, TypesPrimed
<1>11. StageMove
  <2>1. DataOf(me)'
    <3>1. me' = me
      BY <1>1 DEF me
    <3> QED
      BY <1>2, <1>4, <3>1 DEF DataOf
  <2> QED
    BY <1>1, <1>2, <1>3, <1>4, <1>6, <2>1 DEF StageMove
<1> QED
  BY <1>6, <1>9, <1>10, <1>11, StageMoveKeeps DEF PipeInv
-----------------------------------------------------------------------------
(***************************************************************************)
(* The scheduler, and the turns that only wait.                            *)
(***************************************************************************)
\* A step that leaves every stage where it is.
Calm ==
    /\ UNCHANGED <<parent, children, inPipe, outPipe, prog, got, next, remain, cmd, spawned>>
    /\ \A p \in Procs : Live(p)' <=> Live(p)
    /\ \A p \in Procs : LiveStage(p) => pc'[p] = pc[p]
    /\ \A p \in Procs : Live(p) /\ pc'[p] \in {"start", "spawn"} => pc[p] = pc'[p]
    /\ \A p \in Procs : IsIdle(p) => IsIdle(p)'
    /\ \A p \in Procs : IsCli(p) => IsCli(p)'
    /\ \A p \in Procs : IsSh(p) => IsSh(p)'

LEMMA CalmKeeps ==
    ASSUME PipeInv, Calm
    PROVE  FamilyRight' /\ RolesRight' /\ DataRight'
<1>1. /\ UNCHANGED <<parent, children, inPipe, outPipe, prog, got, next, remain, cmd, spawned>>
      /\ \A p \in Procs : Live(p)' <=> Live(p)
      /\ \A p \in Procs : LiveStage(p) => pc'[p] = pc[p]
      /\ \A p \in Procs : Live(p) /\ pc'[p] \in {"start", "spawn"} => pc[p] = pc'[p]
      /\ \A p \in Procs : (IsIdle(p) => IsIdle(p)') /\ (IsCli(p) => IsCli(p)')
                          /\ (IsSh(p) => IsSh(p)')
  BY DEF Calm
<1>2. FamilyRight'
  BY <1>1, FamilyKept DEF PipeInv
<1>3. RolesRight'
  <2>1. ASSUME NEW p \in Procs, Live(p)
        PROVE  (IsIdle(p) \/ IsCli(p) \/ IsSh(p) \/ IsStage(p))'
    <3>1. IsIdle(p) \/ IsCli(p) \/ IsSh(p) \/ IsStage(p)
      BY <2>1 DEF PipeInv, RolesRight
    <3>2. IsStage(p) => IsStage(p)'
      <4> SUFFICES ASSUME IsStage(p) PROVE IsStage(p)'
        OBVIOUS
      <4>1. LiveStage(p)
        BY <2>1 DEF IsStage, LiveStage
      <4>2. pc'[p] = pc[p]
        BY <1>1, <4>1
      <4> QED
        BY <1>1, <4>2 DEF IsStage, StageNo
    <3> QED
      BY <1>1, <3>1, <3>2
  <2> QED
    BY <1>1, <2>1, RolesKept DEF PipeInv
<1>4. DataRight'
  <2> SUFFICES ASSUME NEW p \in Procs, LiveStage(p)' PROVE DataOf(p)'
    BY DEF DataRight
  <2>1. LiveStage(p)
    BY <1>1 DEF LiveStage
  <2>2. DataOf(p) /\ pc'[p] = pc[p]
    BY <1>1, <2>1 DEF PipeInv, DataRight
  <2> QED
    BY <1>1, <2>2 DEF DataOf
<1> QED
  BY <1>2, <1>3, <1>4

\* The pipes are left alone, and the dead stay dead.
LEMMA EofKept ==
    ASSUME PipeInv, Calm, UNCHANGED pipe,
           \A p \in Procs : pstate[p] = "ZOMBIE" /\ ~ (step = "done" /\ current = p) =>
             pstate'[p] = "ZOMBIE" /\ ~ (step' = "done" /\ current' = p)
    PROVE  EofRight'
<1>1. /\ UNCHANGED <<outPipe, prog, cmd, spawned>>
      /\ \A p \in Procs : Live(p)' <=> Live(p)
      /\ \A p \in Procs : Live(p) /\ pc'[p] \in {"start", "spawn"} => pc[p] = pc'[p]
  BY DEF Calm
<1>2. ASSUME NEW p \in Procs, LiveStage(p)', outPipe'[p] # NULL, pipe'[outPipe'[p]].eof
      PROVE  pstate'[p] = "ZOMBIE" /\ ~ (step' = "done" /\ current' = p)
  <2>1. LiveStage(p) /\ outPipe[p] # NULL /\ pipe[outPipe[p]].eof
    BY <1>1, <1>2 DEF LiveStage
  <2> QED
    BY <2>1 DEF PipeInv, EofRight
<1>3. ASSUME NEW p \in Procs, Live(p)', prog'[p] = "shell", pc'[p] = "spawn",
             NEW q \in Pipes, spawned' < q, q < Len(cmd'.stages)
      PROVE  ~ pipe'[q].eof
  <2>1. Live(p) /\ prog[p] = "shell" /\ pc[p] = "spawn" /\ spawned < q /\ q < Len(cmd.stages)
    BY <1>1, <1>3
  <2> QED
    BY <2>1 DEF PipeInv, EofRight
<1> QED
  BY <1>2, <1>3 DEF EofRight

LEMMA OwnKept ==
    ASSUME ProcTypes, UNCHANGED <<pc, got, next, remain, lineBuf, total, uart>>
    PROVE  OwnTypes'
BY TypesParts DEF OwnTypes

LEMMA DispatchKeeps ==
    ASSUME PipeInv, Dispatch, UNCHANGED <<progVars, userVars>>
    PROVE  PipeInv'
<1> DEFINE n == Picked
<1>1. /\ step = "none" /\ readyq # <<>>
      /\ current' = n /\ pstate' = [pstate EXCEPT ![n] = "RUNNING"] /\ step' = "in"
      /\ UNCHANGED <<tableVars, readyq, pipe, readers, writers, prog, pc, got, next, remain,
                     lineBuf, total, cmd, spawned, uart>>
  BY DEF Dispatch, progVars, userVars, waitVars
<1>2. UNCHANGED <<parent, children, inPipe, outPipe>>
  BY <1>1 DEF tableVars
<1>3. ListTypes /\ TableTypes
  BY TypesParts DEF PipeInv
<1>4. n \in ToSet(readyq) /\ n \in Procs
  <2>1. /\ readyq \in Seq(Procs) /\ Len(readyq) \in Nat /\ Len(readyq) # 0
        /\ \A u : u \in ToSet(readyq) <=> \E i \in 1 .. Len(readyq) : readyq[i] = u
    BY <1>1, <1>3, LenProperties, EmptySeq, ToSetFacts DEF ListTypes
  <2>2. 1 \in 1 .. Len(readyq) /\ (Len(readyq) > 1 => 2 \in 1 .. Len(readyq))
    BY <2>1
  <2>3. n = readyq[1] \/ (Len(readyq) > 1 /\ n = readyq[2])
    BY DEF Picked
  <2> HIDE DEF n
  <2>4. n \in ToSet(readyq)
    BY <2>1, <2>2, <2>3
  <2>5. ToSet(readyq) \subseteq Procs
    BY <2>1, ToSetFacts
  <2> QED
    BY <2>4, <2>5
<1> HIDE DEF n
<1>5. pstate[n] = "READY"
  BY <1>1, <1>4 DEF PipeInv, SchedRight
<1>6. /\ pstate' \in [Procs -> ProcStates]
      /\ \A p \in Procs : pstate'[p] = IF p = n THEN "RUNNING" ELSE pstate[p]
  BY <1>1, <1>3, <1>4 DEF ListTypes, ProcStates
<1>7. SchedRight'
  <2>1. \A p \in Procs : p \in ToSet(readyq)' <=>
          pstate'[p] \in {"READY", "RUNNING"} \/ (step' = "done" /\ p = current')
    BY <1>1, <1>4, <1>6 DEF PipeInv, SchedRight
  <2>2. \A p \in Procs : pstate'[p] = "RUNNING" => step' \in {"in", "yielded"} /\ p = current'
    BY <1>1, <1>6 DEF PipeInv, SchedRight
  <2>3. Distinct(readyq)'
    BY <1>1 DEF PipeInv, SchedRight, Distinct
  <2> QED
    BY <1>1, <1>4, <1>6, <2>1, <2>2, <2>3 DEF SchedRight
<1>8. ProcTypes'
  <2>1. TableTypes'
    BY <1>1, <1>2, <1>3, <1>4 DEF TableTypes
  <2>2. OwnTypes'
    BY <1>1, OwnKept DEF PipeInv
  <2>3. ListTypes'
    BY <1>1, <1>3, <1>6 DEF ListTypes
  <2> QED
    BY <2>1, <2>2, <2>3, TypesPrimed
<1>9. SleepRight'
  BY <1>1, <1>2, <1>5, <1>6, SleepKept DEF PipeInv
<1>10. Calm
  <2>1. \A p \in Procs : Live(p)' <=> Live(p)
    BY <1>5, <1>6 DEF Live
  <2>2. \A p \in Procs : IsIdle(p) => IsIdle(p)'
    BY <1>1, <1>2, <1>6, Names DEF IsIdle
  <2>3. \A p \in Procs : IsCli(p) => IsCli(p)'
    BY <1>1, <1>2, <1>6, Names DEF IsCli
  <2>4. \A p \in Procs : IsSh(p) => IsSh(p)'
    BY <1>1, <1>2, <1>5, <1>6 DEF IsSh
  <2> QED
    BY <1>1, <1>2, <2>1, <2>2, <2>3, <2>4 DEF Calm
<1>11. EofRight'
  BY <1>1, <1>5, <1>6, <1>10, EofKept
<1> QED
  BY <1>7, <1>8, <1>9, <1>10, <1>11, CalmKeeps DEF PipeInv

\* The states of the processes change only between READY, RUNNING and, when it exits,
\* ZOMBIE; the programs stay where they are.
LEMMA TurnKeeps ==
    ASSUME PipeInv, UNCHANGED <<tableVars, current, pipe, readers, writers, prog, pc, got, next,
                                remain, lineBuf, total, cmd, spawned, uart>>,
           pstate' \in [Procs -> ProcStates], readyq' \in Seq(Procs),
           step' \in {"none", "in", "yielded", "done"}, SchedRight',
           \A p \in Procs : \/ pstate'[p] = pstate[p]
                            \/ /\ pstate[p] \in {"READY", "RUNNING"}
                               /\ pstate'[p] \in {"READY", "RUNNING"},
           step' # "done", step # "done"
    PROVE  PipeInv'
<1>2. UNCHANGED <<parent, children, inPipe, outPipe>>
  BY DEF tableVars
<1>8. ProcTypes'
  <2>1. TableTypes'
    BY TableKept DEF PipeInv
  <2>2. OwnTypes'
    BY OwnKept DEF PipeInv
  <2>3. ListTypes'
    <3>1. ListTypes
      BY TypesParts DEF PipeInv
    <3> QED
      BY <3>1 DEF ListTypes
  <2> QED
    BY <2>1, <2>2, <2>3, TypesPrimed
<1>9. SleepRight'
  BY <1>2, SleepKept DEF PipeInv
<1>10. Calm
  <2>1. \A p \in Procs : Live(p)' <=> Live(p)
    BY DEF Live
  <2>2. \A p \in Procs : IsIdle(p) => IsIdle(p)'
    BY <1>2, Names DEF IsIdle
  <2>3. \A p \in Procs : IsCli(p) => IsCli(p)'
    BY <1>2, Names DEF IsCli
  <2>4. \A p \in Procs : IsSh(p) => IsSh(p)'
    BY <1>2 DEF IsSh
  <2> QED
    BY <1>2, <2>1, <2>2, <2>3, <2>4 DEF Calm
<1>11. EofRight'
  <2>1. \A p \in Procs : pstate[p] = "ZOMBIE" => pstate'[p] = "ZOMBIE"
    OBVIOUS
  <2> QED
    BY <1>10, <2>1, EofKept
<1> QED
  BY <1>8, <1>9, <1>10, <1>11, CalmKeeps DEF PipeInv

LEMMA YieldedKeeps ==
    ASSUME PipeInv, Yielded, UNCHANGED <<progVars, userVars>>
    PROVE  PipeInv'
<1>1. /\ step = "yielded" /\ step' = "none"
      /\ UNCHANGED <<tableVars, current, pipe, readers, writers, prog, pc, got, next, remain,
                     lineBuf, total, cmd, spawned, uart>>
  BY DEF Yielded, progVars, userVars, waitVars
<1>2. /\ pstate \in [Procs -> ProcStates] /\ readyq \in Seq(Procs) /\ Distinct(readyq)
      /\ current \in Procs /\ pstate[current] \in {"RUNNING", "BLOCKED"}
      /\ \A p \in Procs : p \in ToSet(readyq) <=> pstate[p] \in {"READY", "RUNNING"}
      /\ \A p \in Procs : pstate[p] = "RUNNING" => p = current
  BY <1>1 DEF PipeInv, ProcTypes, PipelineTypeOK, SchedRight
<1> DEFINE r == RemoveFirst(readyq, current)
<1>3. r \in Seq(Procs) /\ ToSet(r) = ToSet(readyq) \ {current} /\ Distinct(r)
  BY <1>2, RemoveFirstFacts
<1>4. CASE pstate[current] = "BLOCKED"
  <2>1. readyq' = r /\ UNCHANGED pstate
    BY <1>4 DEF Yielded, RemoveReady
  <2> HIDE DEF r
  <2>2. SchedRight'
    <3>1. \A p \in Procs : p \in ToSet(readyq)' <=>
            pstate'[p] \in {"READY", "RUNNING"} \/ (step' = "done" /\ p = current')
      BY <1>1, <1>2, <1>3, <1>4, <2>1
    <3>2. \A p \in Procs : pstate'[p] = "RUNNING" => step' \in {"in", "yielded"} /\ p = current'
      BY <1>2, <1>4, <2>1
    <3>3. Distinct(readyq)'
      BY <1>3, <2>1 DEF Distinct
    <3> QED
      BY <1>1, <3>1, <3>2, <3>3 DEF SchedRight
  <2> QED
    BY <1>1, <1>2, <1>3, <2>1, <2>2, TurnKeeps
<1>5. CASE pstate[current] = "RUNNING"
  <2>1. readyq' = Append(r, current) /\ pstate' = [pstate EXCEPT ![current] = "READY"]
    BY <1>5 DEF Yielded, Rotated, RemoveReady
  <2> HIDE DEF r
  <2>2. /\ readyq' \in Seq(Procs) /\ ToSet(readyq') = ToSet(r) \cup {current} /\ Distinct(readyq')
    BY <1>2, <1>3, <2>1, AppendFacts
  <2>3. /\ pstate' \in [Procs -> ProcStates]
        /\ \A p \in Procs : pstate'[p] = IF p = current THEN "READY" ELSE pstate[p]
    BY <1>2, <2>1 DEF ProcStates
  <2>4. SchedRight'
    <3>1. \A p \in Procs : p \in ToSet(readyq)' <=>
            pstate'[p] \in {"READY", "RUNNING"} \/ (step' = "done" /\ p = current')
      BY <1>1, <1>2, <1>3, <2>2, <2>3
    <3>2. \A p \in Procs : pstate'[p] = "RUNNING" => step' \in {"in", "yielded"} /\ p = current'
      BY <1>2, <2>3
    <3>3. Distinct(readyq)'
      BY <2>2 DEF Distinct
    <3> QED
      BY <1>1, <3>1, <3>2, <3>3 DEF SchedRight
  <2> QED
    BY <1>1, <1>2, <1>5, <2>2, <2>3, <2>4, TurnKeeps
<1> QED
  BY <1>2, <1>4, <1>5

\* NoInput and WaitChildren: a turn, and no more.
LEMMA YieldKeeps ==
    ASSUME PipeInv, step = "in", step' = "yielded",
           UNCHANGED <<tableVars, schedVars, current, pipe, waitVars, progVars, userVars>>
    PROVE  PipeInv'
<1>1. /\ UNCHANGED <<tableVars, current, pipe, readers, writers, prog, pc, got, next, remain,
                     lineBuf, total, cmd, spawned, uart>>
      /\ UNCHANGED <<pstate, readyq>>
  BY DEF schedVars, progVars, userVars, waitVars
<1>2. SchedRight'
  <2>1. SchedRight
    BY DEF PipeInv
  <2> QED
    BY <1>1, <2>1 DEF SchedRight, Distinct
<1>3. pstate \in [Procs -> ProcStates] /\ readyq \in Seq(Procs)
  BY DEF PipeInv, ProcTypes, PipelineTypeOK
<1> QED
  BY <1>1, <1>2, <1>3, TurnKeeps
LEMMA FinishedKeeps ==
    ASSUME PipeInv, Finished, UNCHANGED <<progVars, userVars>>
    PROVE  PipeInv'
<1> DEFINE q == outPipe[current]
           wait == IF q = NULL THEN <<>> ELSE readers[q] \o writers[q]
           par == IF parent[current] = NULL THEN <<>> ELSE <<parent[current]>>
           list == wait \o par
           rest == RemoveReady(readyq, current)
<1>1. /\ step = "done" /\ step' = "none"
      /\ WakeOp(list, [pstate EXCEPT ![current] = "ZOMBIE"], rest)
      /\ UNCHANGED <<tableVars, current, prog, pc, got, next, remain, lineBuf, total, cmd,
                     spawned, uart>>
  BY DEF Finished, progVars, userVars
<1>2. UNCHANGED <<parent, children, inPipe, outPipe>>
  BY <1>1 DEF tableVars
<1>3. IF q = NULL THEN UNCHANGED <<pipe, readers, writers>>
      ELSE /\ pipe' = [pipe EXCEPT ![q] = Closed(pipe[q])]
           /\ readers' = [readers EXCEPT ![q] = <<>>]
           /\ writers' = [writers EXCEPT ![q] = <<>>]
  BY DEF Finished, waitVars
<1>4. /\ ListTypes /\ TableTypes /\ current \in Procs /\ pstate[current] = "ZOMBIE"
      /\ Live(current)
  BY <1>1, TypesParts DEF PipeInv, SchedRight, Live
<1>5. IsSh(current) \/ IsStage(current)
  BY <1>4 DEF PipeInv, RolesRight, IsIdle, IsCli
<1>6. q # NULL => q \in Pipes /\ LiveStage(current)
  BY <1>4, <1>5 DEF IsSh, IsStage, LiveStage, TableTypes
<1>7. parent[current] \in Procs /\ pstate[parent[current]] # "BLOCKED"
  <2>1. parent[current] \in Procs
    BY <1>5, Names DEF IsSh, IsStage
  <2>2. Live(parent[current])
    BY <1>4, <2>1, Names DEF PipeInv, FamilyRight
  <2>3. PICK r \in Procs : r = parent[current]
    BY <2>1
  <2>4. IsIdle(r) \/ IsCli(r) \/ IsSh(r) \/ IsStage(r)
    BY <2>2, <2>3 DEF PipeInv, RolesRight
  <2>5. prog[r] = "shell" \/ r = Cli
    BY <1>5, <2>3 DEF IsSh, IsStage
  <2>6. ~ IsStage(r) \/ r = Cli
    BY <2>5, Names DEF IsStage
  <2>7. r = Cli => pstate[r] \in {"READY", "RUNNING"}
    BY CliFacts DEF PipeInv, IsCli
  <2> QED
    BY <2>1, <2>3, <2>4, <2>6, <2>7 DEF IsIdle, IsCli, IsSh
<1>8. /\ list \in Seq(Procs) /\ Distinct(list)
      /\ \A p \in Procs : p \in ToSet(list) <=>
           \/ q # NULL /\ (p \in ToSet(readers[q]) \/ p \in ToSet(writers[q]))
           \/ p = parent[current]
  <2>1. /\ wait \in Seq(Procs) /\ Distinct(wait)
        /\ \A p \in Procs : p \in ToSet(wait) <=>
             q # NULL /\ (p \in ToSet(readers[q]) \/ p \in ToSet(writers[q]))
    <3>1. CASE q = NULL
      BY <3>1, EmptyList
    <3>2. CASE q # NULL
      <4>1. /\ readers[q] \in Seq(Procs) /\ writers[q] \in Seq(Procs)
            /\ Distinct(readers[q]) /\ Distinct(writers[q])
        BY <1>4, <1>6, <3>2 DEF ListTypes, PipeInv, SleepRight
      <4>2. ToSet(readers[q]) \cap ToSet(writers[q]) = {}
        <5>1. ToSet(readers[q]) \subseteq Procs
          BY <4>1, ToSetFacts
        <5>2. \A p \in Procs : p \in ToSet(readers[q]) => pc[p] = "read"
          BY <1>6, <3>2 DEF PipeInv, SleepRight
        <5>3. \A p \in Procs : p \in ToSet(writers[q]) => pc[p] = "put"
          BY <1>6, <3>2 DEF PipeInv, SleepRight
        <5> QED
          BY <5>1, <5>2, <5>3
      <4> DEFINE w == readers[q] \o writers[q]
      <4>3. /\ w \in Seq(Procs) /\ ToSet(w) = ToSet(readers[q]) \cup ToSet(writers[q])
            /\ Distinct(w)
        BY <4>1, <4>2, ConcatFacts
      <4> HIDE DEF w
      <4>4. wait = w
        BY <3>2 DEF w
      <4> QED
        BY <3>2, <4>3, <4>4
    <3> QED
      BY <3>1, <3>2
  <2>2. /\ par \in Seq(Procs) /\ Distinct(par) /\ ToSet(par) = {parent[current]}
    <3>1. par = <<parent[current]>>
      BY <1>7, Names
    <3> HIDE DEF par
    <3>2. par \in Seq(Procs) /\ Len(par) = 1 /\ par[1] = parent[current]
      BY <1>7, <3>1
    <3>3. Distinct(par)
      BY <3>2 DEF Distinct
    <3>4. \A u : u \in ToSet(par) <=> \E i \in 1 .. Len(par) : par[i] = u
      BY <3>2, ToSetFacts
    <3>5. \A i : i \in 1 .. Len(par) <=> i = 1
      BY <3>2
    <3>6. ToSet(par) = {parent[current]}
      BY <3>2, <3>4, <3>5
    <3> QED
      BY <3>2, <3>3, <3>6
  <2>3. ToSet(wait) \cap ToSet(par) = {}
    <3>1. parent[current] \notin ToSet(wait)
      BY <1>6, <1>7, <2>1 DEF PipeInv, SleepRight
    <3> QED
      BY <2>2, <3>1
  <2> HIDE DEF wait, par
  <2>4. /\ wait \o par \in Seq(Procs) /\ ToSet(wait \o par) = ToSet(wait) \cup ToSet(par)
        /\ Distinct(wait \o par)
    BY <2>1, <2>2, <2>3, ConcatFacts
  <2> QED
    BY <2>1, <2>2, <2>4
<1> HIDE DEF list
<1>9. /\ rest \in Seq(Procs) /\ ToSet(rest) = ToSet(readyq) \ {current} /\ Distinct(rest)
  BY <1>4, RemoveFirstFacts DEF RemoveReady, ListTypes, PipeInv, SchedRight
<1>10. [pstate EXCEPT ![current] = "ZOMBIE"] = pstate
  BY <1>4 DEF ListTypes
<1> HIDE DEF rest
<1>11. /\ pstate' \in [Procs -> ProcStates]
       /\ \A p \in Procs :
            pstate'[p] = IF p \in ToSet(list) /\ pstate[p] = "BLOCKED" THEN "READY" ELSE pstate[p]
       /\ readyq' \in Seq(Procs) /\ Distinct(readyq')
       /\ \A p \in Procs : p \in ToSet(readyq') <=>
            p \in ToSet(rest) \/ (p \in ToSet(list) /\ pstate[p] = "BLOCKED")
  <2>1. WakeOp(list, pstate, rest)
    BY <1>1, <1>10
  <2>2. pstate \in [Procs -> ProcStates]
    BY <1>4 DEF ListTypes
  <2> QED
    BY <1>8, <1>9, <2>1, <2>2, WakeFacts
<1> HIDE DEF q
<1>12. SchedRight'
  <2>1. \A p \in Procs : p \in ToSet(readyq)' <=>
          pstate'[p] \in {"READY", "RUNNING"} \/ (step' = "done" /\ p = current')
    BY <1>1, <1>4, <1>9, <1>11 DEF PipeInv, SchedRight
  <2>2. \A p \in Procs : pstate'[p] = "RUNNING" => step' \in {"in", "yielded"} /\ p = current'
    BY <1>1, <1>11 DEF PipeInv, SchedRight
  <2>3. Distinct(readyq)'
    BY <1>11 DEF Distinct
  <2> QED
    BY <1>1, <2>1, <2>2, <2>3 DEF SchedRight
<1>13. /\ pipe' \in [Pipes -> PipeType] /\ \A x \in Pipes : RingOK(pipe'[x])
       /\ readers' \in [Pipes -> Seq(Procs)] /\ writers' \in [Pipes -> Seq(Procs)]
       /\ \A x \in Pipes : x # q =>
            pipe'[x] = pipe[x] /\ readers'[x] = readers[x] /\ writers'[x] = writers[x]
       /\ q # NULL => readers'[q] = <<>> /\ writers'[q] = <<>>
  <2>1. CASE q = NULL
    BY <1>3, <1>4, <2>1 DEF ListTypes
  <2>2. CASE q # NULL
    <3>1. q \in Pipes /\ RingOK(pipe[q])
      BY <1>4, <1>6, <2>2 DEF ListTypes
    <3>2. RingOK(Closed(pipe[q])) /\ Closed(pipe[q]) \in PipeType
      BY <3>1, ClosedFacts DEF RingOK
    <3>3. /\ pipe' = [pipe EXCEPT ![q] = Closed(pipe[q])]
          /\ readers' = [readers EXCEPT ![q] = <<>>]
          /\ writers' = [writers EXCEPT ![q] = <<>>]
      BY <1>3, <2>2
    <3>4. pipe' \in [Pipes -> PipeType] /\ \A x \in Pipes : RingOK(pipe'[x])
      BY <1>4, <3>1, <3>2, <3>3 DEF ListTypes
    <3>5. readers' \in [Pipes -> Seq(Procs)] /\ writers' \in [Pipes -> Seq(Procs)]
      BY <1>4, <3>3, EmptyList DEF ListTypes
    <3>6. readers'[q] = <<>> /\ writers'[q] = <<>>
      BY <1>4, <3>1, <3>3 DEF ListTypes
    <3>7. \A x \in Pipes : x # q =>
            pipe'[x] = pipe[x] /\ readers'[x] = readers[x] /\ writers'[x] = writers[x]
      BY <1>4, <3>1, <3>3 DEF ListTypes
    <3> QED
      BY <3>4, <3>5, <3>6, <3>7
  <2> QED
    BY <2>1, <2>2
<1>14. ProcTypes'
  <2>1. TableTypes'
    BY <1>1, TableKept DEF PipeInv
  <2>2. OwnTypes'
    BY <1>1, OwnKept DEF PipeInv
  <2>3. ListTypes'
    BY <1>1, <1>11, <1>13 DEF ListTypes
  <2> QED
    BY <2>1, <2>2, <2>3, TypesPrimed
<1>15. /\ \A p \in Procs : pstate'[p] = "BLOCKED" =>
            pstate[p] = "BLOCKED" /\ p \notin ToSet(list)
       /\ \A p \in Procs : pstate[p] = "BLOCKED" /\ p \notin ToSet(list) => pstate'[p] = "BLOCKED"
  BY <1>11
<1>16. SleepRight'
  <2>1. ASSUME NEW x \in Pipes
        PROVE  /\ Distinct(readers'[x]) /\ Distinct(writers'[x])
               /\ \A p \in Procs : p \in ToSet(readers'[x]) <=>
                    pstate'[p] = "BLOCKED" /\ pc'[p] = "read" /\ inPipe'[p] = x
               /\ \A p \in Procs : p \in ToSet(writers'[x]) <=>
                    pstate'[p] = "BLOCKED" /\ pc'[p] = "put" /\ outPipe'[p] = x
               /\ readers'[x] # <<>> => Empty(pipe'[x]) /\ ~ pipe'[x].eof
               /\ writers'[x] # <<>> => Full(pipe'[x])
    <3>1. /\ Distinct(readers[x]) /\ Distinct(writers[x])
          /\ \A p \in Procs : p \in ToSet(readers[x]) <=>
               pstate[p] = "BLOCKED" /\ pc[p] = "read" /\ inPipe[p] = x
          /\ \A p \in Procs : p \in ToSet(writers[x]) <=>
               pstate[p] = "BLOCKED" /\ pc[p] = "put" /\ outPipe[p] = x
          /\ readers[x] # <<>> => Empty(pipe[x]) /\ ~ pipe[x].eof
          /\ writers[x] # <<>> => Full(pipe[x])
      BY DEF PipeInv, SleepRight
    <3>2. CASE x = q
      <4>1. q # NULL /\ q \in Pipes
        BY <3>2, Names
      <4>2. \A p \in Procs : pstate'[p] = "BLOCKED" =>
              ~ (pc'[p] = "read" /\ inPipe'[p] = x) /\ ~ (pc'[p] = "put" /\ outPipe'[p] = x)
        BY <1>1, <1>2, <1>8, <1>15, <3>1, <3>2, <4>1
      <4> QED
        BY <1>13, <3>2, <4>1, <4>2, EmptyList
    <3>3. CASE x # q
      <4>1. readers'[x] = readers[x] /\ writers'[x] = writers[x] /\ pipe'[x] = pipe[x]
        BY <1>13, <3>3
      <4>2. ASSUME NEW p \in Procs,
                   pstate[p] = "BLOCKED",
                   (pc[p] = "read" /\ inPipe[p] = x) \/ (pc[p] = "put" /\ outPipe[p] = x)
            PROVE  p \notin ToSet(list)
        <5>1. q # NULL => /\ p \in ToSet(readers[q]) => pc[p] = "read" /\ inPipe[p] = q
                          /\ p \in ToSet(writers[q]) => pc[p] = "put" /\ outPipe[p] = q
          BY <1>6 DEF PipeInv, SleepRight
        <5> QED
          BY <1>7, <1>8, <3>3, <4>2, <5>1
      <4>3. \A p \in Procs : p \in ToSet(readers[x]) <=>
              pstate'[p] = "BLOCKED" /\ pc'[p] = "read" /\ inPipe'[p] = x
        BY <1>1, <1>2, <1>15, <3>1, <4>2
      <4>4. \A p \in Procs : p \in ToSet(writers[x]) <=>
              pstate'[p] = "BLOCKED" /\ pc'[p] = "put" /\ outPipe'[p] = x
        BY <1>1, <1>2, <1>15, <3>1, <4>2
      <4> QED
        BY <3>1, <4>1, <4>3, <4>4
    <3> QED
      BY <3>2, <3>3
  <2>2. \A p \in Procs : pstate'[p] = "BLOCKED" =>
           \/ pc'[p] = "read" /\ inPipe'[p] # NULL
           \/ pc'[p] = "put" /\ outPipe'[p] # NULL
    BY <1>1, <1>2, <1>15 DEF PipeInv, SleepRight
  <2> QED
    BY <2>1, <2>2 DEF SleepRight, Distinct
<1>17. Calm
  <2>0. \A p \in Procs :
          pstate'[p] = pstate[p] \/ (pstate[p] = "BLOCKED" /\ pstate'[p] = "READY")
    BY <1>11
  <2>1. \A p \in Procs : Live(p)' <=> Live(p)
    BY <2>0 DEF Live
  <2>2. \A p \in Procs : IsIdle(p) => IsIdle(p)'
    BY <1>1, <1>2, <2>0 DEF IsIdle
  <2>3. \A p \in Procs : IsCli(p) => IsCli(p)'
    BY <1>1, <1>2, <2>0 DEF IsCli
  <2>4. \A p \in Procs : IsSh(p) => IsSh(p)'
    BY <1>1, <1>2, <2>0 DEF IsSh
  <2> QED
    BY <1>1, <1>2, <2>1, <2>2, <2>3, <2>4 DEF Calm
<1>18. EofRight'
  <2>0. \A p \in Procs : pstate[p] # "BLOCKED" => pstate'[p] = pstate[p]
    BY <1>11
  <2>1. ASSUME NEW p \in Procs, LiveStage(p)', outPipe'[p] # NULL, pipe'[outPipe'[p]].eof
        PROVE  pstate'[p] = "ZOMBIE" /\ ~ (step' = "done" /\ current' = p)
    <3>1. LiveStage(p) /\ outPipe[p] # NULL /\ outPipe[p] \in Pipes
      BY <1>1, <1>2, <1>4, <1>17, <2>1 DEF LiveStage, Calm, TableTypes
    <3>2. CASE outPipe[p] = q
      <4>1. LiveStage(current)
        BY <1>6, <3>1, <3>2
      <4>2. StageNo(p) = q /\ StageNo(current) = q
        BY <1>4, <3>1, <3>2, <4>1, StageFacts DEF PipeInv, q
      <4>3. p = current
        BY <1>4, <3>1, <4>1, <4>2 DEF PipeInv, RolesRight
      <4> QED
        BY <1>1, <1>4, <2>0, <4>3
    <3>3. CASE outPipe[p] # q
      <4>1. pipe[outPipe[p]].eof
        BY <1>2, <1>13, <2>1, <3>1, <3>3
      <4>2. pstate[p] = "ZOMBIE"
        BY <3>1, <4>1 DEF PipeInv, EofRight
      <4> QED
        BY <1>1, <2>0, <4>2
    <3> QED
      BY <3>2, <3>3
  <2>2. ASSUME NEW p \in Procs, Live(p)', prog'[p] = "shell", pc'[p] = "spawn",
               NEW x \in Pipes, spawned' < x, x < Len(cmd'.stages)
        PROVE  ~ pipe'[x].eof
    <3>1. /\ Live(p) /\ prog[p] = "shell" /\ pc[p] = "spawn" /\ spawned < x
          /\ x < Len(cmd.stages)
      BY <1>1, <1>17, <2>2 DEF Calm
    <3>2. ~ pipe[x].eof
      BY <3>1 DEF PipeInv, EofRight
    <3>3. x # q
      <4> SUFFICES ASSUME x = q PROVE FALSE
        OBVIOUS
      <4>1. q # NULL
        BY Names
      <4>2. LiveStage(current)
        BY <1>6, <4>1
      <4>3. q = StageNo(current) /\ StageNo(current) \in 1 .. spawned /\ spawned \in Nat
        BY <1>4, <4>1, <4>2, StageFacts DEF PipeInv, q
      <4>4. x <= spawned /\ x \in Nat
        BY <4>3
      <4> QED
        BY <3>1, <4>3, <4>4
    <3> QED
      BY <1>13, <3>2, <3>3
  <2> QED
    BY <2>1, <2>2 DEF EofRight
<1> QED
  BY <1>12, <1>14, <1>16, <1>17, <1>18, CalmKeeps DEF PipeInv
-----------------------------------------------------------------------------
(***************************************************************************)
(* The command line and the shell.                                         *)
(***************************************************************************)
LEMMA ExitShellKeeps ==
    ASSUME PipeInv, ExitShell
    PROVE  PipeInv'
<1>1. /\ step = "in" /\ prog[me] = "shell" /\ pc[me] = "start" /\ ExitOp
      /\ UNCHANGED <<tableVars, readyq, current, pipe, readers, writers, prog, pc, got, next,
                     remain, lineBuf, total, cmd, spawned, uart>>
  BY DEF ExitShell, Runs, At, waitVars, progVars, userVars
<1>2. UNCHANGED <<parent, children, inPipe, outPipe>>
  BY <1>1 DEF tableVars
<1>3. me \in Procs /\ pstate[me] = "RUNNING" /\ IsSh(me) /\ me = current
  BY <1>1, MeFacts DEF me
<1>4. /\ SchedRight' /\ pstate' \in [Procs -> ProcStates] /\ step' = "done"
      /\ \A p \in Procs : pstate'[p] = IF p = me THEN "ZOMBIE" ELSE pstate[p]
  BY <1>1, ExitKeepsSched DEF ExitOp
<1>5. ProcTypes'
  <2>1. TableTypes'
    BY <1>1, TableKept DEF PipeInv
  <2>2. OwnTypes'
    BY <1>1, OwnKept DEF PipeInv
  <2>3. ListTypes'
    <3>1. ListTypes
      BY TypesParts DEF PipeInv
    <3> QED
      BY <1>1, <1>4, <3>1 DEF ListTypes
  <2> QED
    BY <2>1, <2>2, <2>3, TypesPrimed
<1>6. SleepRight'
  BY <1>1, <1>2, <1>3, <1>4, SleepKept DEF PipeInv
<1>7. Calm
  <2>1. \A p \in Procs : Live(p)' <=> Live(p)
    BY <1>3, <1>4 DEF Live
  <2>2. \A p \in Procs : IsIdle(p) => IsIdle(p)'
    BY <1>1, <1>2, <1>4, Names DEF IsIdle
  <2>3. \A p \in Procs : IsCli(p) => IsCli(p)'
    BY <1>1, <1>2, <1>4, Names DEF IsCli
  <2>4. \A p \in Procs : IsSh(p) => IsSh(p)'
    BY <1>1, <1>2, <1>4 DEF IsSh
  <2> QED
    BY <1>1, <1>2, <2>1, <2>2, <2>3, <2>4 DEF Calm
<1>8. EofRight'
  BY <1>1, <1>3, <1>4, <1>7, EofKept DEF me
<1> QED
  BY <1>4, <1>5, <1>6, <1>7, <1>8, CalmKeeps DEF PipeInv

\* A parent goes to wait for its children.
LEMMA WaitKeeps ==
    ASSUME PipeInv, step = "in", prog[me] \in {"cli", "shell"},
           pc' = [pc EXCEPT ![me] = "wait"],
           UNCHANGED <<procVars, prog, got, next, remain, lineBuf, total, userVars>>
    PROVE  PipeInv'
<1>1. /\ UNCHANGED <<tableVars, current, prog, cmd, spawned>>
      /\ UNCHANGED <<parent, children, inPipe, outPipe>>
      /\ UNCHANGED <<pstate, readyq, step, pipe, readers, writers, uart>>
  BY DEF procVars, tableVars, userVars
<1>2. me \in Procs /\ pstate[me] = "RUNNING" /\ prog[me] \notin StagePrograms /\ (IsCli(me) \/ IsSh(me))
  BY MeFacts, Names
<1>3. OwnTypes /\ ListTypes
  BY TypesParts DEF PipeInv
<1>4. \A p \in Procs : pc'[p] = IF p = me THEN "wait" ELSE pc[p]
  BY <1>2, <1>3 DEF OwnTypes
<1>5. ProcTypes'
  <2>1. TableTypes'
    BY <1>1, TableKept DEF PipeInv
  <2>2. OwnTypes'
    BY <1>1, <1>2, <1>3 DEF OwnTypes, Pcs
  <2>3. ListTypes'
    BY <1>1, <1>3 DEF ListTypes
  <2> QED
    BY <2>1, <2>2, <2>3, TypesPrimed
<1>6. SleepRight'
  BY <1>1, <1>2, <1>4, SleepKept DEF PipeInv
<1>7. Calm
  <2>1. \A p \in Procs : Live(p)' <=> Live(p)
    BY <1>1 DEF Live
  <2>2. \A p \in Procs : IsIdle(p) => IsIdle(p)'
    BY <1>1, <1>2, <1>4 DEF IsIdle, IsCli, IsSh
  <2>3. \A p \in Procs : IsCli(p) => IsCli(p)'
    BY <1>1, <1>4 DEF IsCli
  <2>4. \A p \in Procs : IsSh(p) => IsSh(p)'
    BY <1>1, <1>2, <1>4 DEF IsSh
  <2> QED
    BY <1>1, <1>2, <1>4, <2>1, <2>2, <2>3, <2>4 DEF Calm, LiveStage
<1>8. EofRight'
  BY <1>1, <1>7, EofKept
<1>9. SchedRight'
  BY <1>1 DEF PipeInv, SchedRight, Distinct
<1> QED
  BY <1>5, <1>6, <1>7, <1>8, <1>9, CalmKeeps DEF PipeInv

\* A parent back at its start has no live child: no stages then, and no shell unless it
\* is the shell itself.
LEMMA NoStages ==
    ASSUME PipeInv, step = "in", prog[me] \in {"cli", "shell"}, pc[me] = "start"
    PROVE  /\ \A p \in Procs : ~ LiveStage(p)
           /\ prog[me] = "cli" => \A p \in Procs : Live(p) => prog[p] # "shell"
           /\ \A p \in Procs : pstate[p] # "BLOCKED"
<1>1. me \in Procs /\ Live(me) /\ (prog[me] = "cli" => IsCli(me)) /\ (prog[me] = "shell" => IsSh(me))
  BY MeFacts
<1>2. \A c \in Procs : Live(c) /\ parent[c] # NULL => Live(parent[c]) /\ pc[parent[c]] # "start"
  BY DEF PipeInv, FamilyRight
<1>3. prog[me] = "cli" => \A p \in Procs : Live(p) => prog[p] # "shell"
  <2> SUFFICES ASSUME prog[me] = "cli", NEW p \in Procs, Live(p), prog[p] = "shell" PROVE FALSE
    OBVIOUS
  <2>1. IsSh(p)
    BY Names DEF PipeInv, RolesRight, IsIdle, IsCli, IsStage
  <2>2. parent[p] = me /\ parent[p] # NULL
    BY <1>1, <2>1, Names DEF IsSh, IsCli
  <2> QED
    BY <1>2, <2>2
<1>4. \A p \in Procs : ~ LiveStage(p)
  <2> SUFFICES ASSUME NEW p \in Procs, LiveStage(p) PROVE FALSE
    OBVIOUS
  <2>1. IsStage(p)
    BY StageFacts DEF PipeInv
  <2>2. PICK r \in Procs : r = parent[p]
    BY <2>1 DEF IsStage
  <2>3. Live(r) /\ pc[r] # "start" /\ prog[r] = "shell"
    BY <1>2, <2>1, <2>2, Names DEF IsStage, LiveStage
  <2>4. CASE prog[me] = "cli"
    BY <1>3, <2>3, <2>4
  <2>5. CASE prog[me] = "shell"
    BY <1>1, <2>3, <2>5 DEF PipeInv, RolesRight
  <2> QED
    BY <2>4, <2>5
<1>5. \A p \in Procs : pstate[p] # "BLOCKED"
  <2> SUFFICES ASSUME NEW p \in Procs, pstate[p] = "BLOCKED" PROVE FALSE
    OBVIOUS
  <2>1. Live(p)
    BY DEF Live
  <2>2. IsIdle(p) \/ IsCli(p) \/ IsSh(p) \/ IsStage(p)
    BY <2>1 DEF PipeInv, RolesRight
  <2>3. ~ IsStage(p)
    BY <1>4, <2>1 DEF LiveStage, IsStage
  <2> QED
    BY <2>2, <2>3 DEF IsIdle, IsCli, IsSh
<1> QED
  BY <1>3, <1>4, <1>5

LEMMA TypeCommandKeeps ==
    ASSUME PipeInv, NEW c \in Commands, TypeCommand(c)
    PROVE  PipeInv'
<1>1. /\ step = "in" /\ prog[me] = "shell" /\ pc[me] = "start"
      /\ cmd' = c /\ spawned' = 0 /\ uart' = <<>>
      /\ pipe' = [q \in Pipes |-> IF q < Len(c.stages) THEN EmptyPipe ELSE pipe[q]]
      /\ writers' = [q \in Pipes |-> IF q < Len(c.stages) THEN <<>> ELSE writers[q]]
      /\ readers' = [q \in Pipes |-> IF q < Len(c.stages) THEN <<>> ELSE readers[q]]
      /\ pc' = [pc EXCEPT ![me] = "spawn"]
      /\ UNCHANGED <<tableVars, pstate, readyq, current, step, prog, got, next, remain,
                     lineBuf, total>>
  BY DEF TypeCommand, Runs, At, Goto, schedVars
<1>2. UNCHANGED <<parent, children, inPipe, outPipe>>
  BY <1>1 DEF tableVars
<1>3. me \in Procs /\ pstate[me] = "RUNNING" /\ IsSh(me) /\ Live(me)
  BY <1>1, MeFacts
<1>4. /\ \A p \in Procs : ~ LiveStage(p)
      /\ \A p \in Procs : pstate[p] # "BLOCKED"
  BY <1>1, NoStages
<1>5. OwnTypes /\ ListTypes /\ TableTypes
  BY TypesParts DEF PipeInv
<1>6. \A p \in Procs : pc'[p] = IF p = me THEN "spawn" ELSE pc[p]
  BY <1>1, <1>3, <1>5 DEF OwnTypes
<1>7. Len(c.stages) \in Nat
  BY CommandsAssumption
<1>8. \A q \in Pipes : readers[q] = <<>> /\ writers[q] = <<>>
  <2> SUFFICES ASSUME NEW q \in Pipes PROVE readers[q] = <<>> /\ writers[q] = <<>>
    OBVIOUS
  <2>1. readers[q] \in Seq(Procs) /\ writers[q] \in Seq(Procs)
    BY <1>5 DEF ListTypes
  <2>2. ToSet(readers[q]) = {} /\ ToSet(writers[q]) = {}
    <3>1. ToSet(readers[q]) \subseteq Procs /\ ToSet(writers[q]) \subseteq Procs
      BY <2>1, ToSetFacts
    <3>2. \A p \in Procs : p \notin ToSet(readers[q]) /\ p \notin ToSet(writers[q])
      BY <1>4 DEF PipeInv, SleepRight
    <3> QED
      BY <3>1, <3>2
  <2> QED
    BY <2>1, <2>2, ToSetFacts
<1>9. \A q \in Pipes : readers'[q] = <<>> /\ writers'[q] = <<>>
  BY <1>1, <1>8
<1>10. ProcTypes'
  <2>1. TableTypes'
    <3>1. spawned' \in 0 .. Len(cmd'.stages)
      BY <1>1, <1>7
    <3> QED
      BY <1>1, <1>2, <1>5, <3>1 DEF TableTypes
  <2>2. OwnTypes'
    BY <1>1, <1>3, <1>5 DEF OwnTypes, Pcs
  <2>3. ListTypes'
    <3>1. pipe' \in [Pipes -> PipeType] /\ \A q \in Pipes : RingOK(pipe'[q])
      <4>1. RingOK(EmptyPipe) /\ EmptyPipe \in PipeType
        BY EmptyFacts DEF RingOK
      <4> QED
        BY <1>1, <1>5, <4>1 DEF ListTypes
    <3>2. readers' \in [Pipes -> Seq(Procs)] /\ writers' \in [Pipes -> Seq(Procs)]
      BY <1>1, <1>8, EmptyList
    <3> QED
      BY <1>1, <1>5, <3>1, <3>2 DEF ListTypes
  <2> QED
    BY <2>1, <2>2, <2>3, TypesPrimed
<1>11. SchedRight'
  BY <1>1 DEF PipeInv, SchedRight, Distinct
<1>12. SleepRight'
  BY <1>1, <1>4, <1>9, EmptyList DEF SleepRight
<1>13. FamilyRight'
  <2>1. \A p \in Procs : Live(p)' <=> Live(p)
    BY <1>1 DEF Live
  <2>2. \A p \in Procs : Live(p) /\ pc'[p] = "start" => pc[p] = "start"
    BY <1>6
  <2> QED
    BY <1>2, <2>1, <2>2, FamilyKept DEF PipeInv
<1>14. RolesRight'
  <2>1. \A p \in Procs : Live(p)' <=> Live(p)
    BY <1>1 DEF Live
  <2>2. \A p \in Procs : IsIdle(p) => IsIdle(p)'
    BY <1>1, <1>2, <1>3, <1>6 DEF IsIdle, IsSh
  <2>3. \A p \in Procs : IsCli(p) => IsCli(p)'
    BY <1>1, <1>2, <1>3, <1>6 DEF IsCli, IsSh
  <2>4. \A p \in Procs : IsSh(p) => IsSh(p)'
    BY <1>1, <1>2, <1>3, <1>6 DEF IsSh
  <2>5. \A p \in Procs : Live(p) => IsIdle(p) \/ IsCli(p) \/ IsSh(p)
    BY <1>4 DEF PipeInv, RolesRight, LiveStage, IsStage
  <2>6. \A p \in Procs : Live(p) => (IsIdle(p) \/ IsCli(p) \/ IsSh(p) \/ IsStage(p))'
    BY <2>2, <2>3, <2>4, <2>5
  <2> QED
    BY <1>1, <1>2, <2>1, <2>2, <2>3, <2>6, RolesKept DEF PipeInv
<1>15. \A p \in Procs : ~ LiveStage(p)'
  BY <1>1, <1>4 DEF LiveStage, Live
<1>16. DataRight'
  BY <1>15 DEF DataRight
<1>17. EofRight'
  <2>1. \A q \in Pipes : q < Len(c.stages) => ~ pipe'[q].eof
    BY <1>1, EmptyFacts
  <2> QED
    BY <1>1, <1>15, <2>1 DEF EofRight
<1> QED
  BY <1>10, <1>11, <1>12, <1>13, <1>14, <1>16, <1>17 DEF PipeInv

\* The list of the process made and those of its parent and of the others.
LEMMA SpawnFacts ==
    ASSUME PipeInv, step = "in", NEW p \in Procs, NEW in \in Pipes \cup {NULL},
           NEW out \in Pipes \cup {NULL}, SpawnOp(p, me, in, out), UNCHANGED <<current, step>>,
           NEW y, y # "start",
           \A x \in Procs : pc'[x] = IF x = p THEN "start" ELSE IF x = me THEN y ELSE pc[x]
    PROVE  /\ pstate[p] = "UNUSED" /\ p # me
           /\ \A x \in Procs : pstate'[x] = IF x = p THEN "READY" ELSE pstate[x]
           /\ \A x \in Procs : parent'[x] = IF x = p THEN me ELSE parent[x]
           /\ \A x \in Procs : inPipe'[x] = IF x = p THEN in ELSE inPipe[x]
           /\ \A x \in Procs : outPipe'[x] = IF x = p THEN out ELSE outPipe[x]
           /\ pstate' \in [Procs -> ProcStates] /\ readyq' \in Seq(Procs)
           /\ parent' \in [Procs -> Procs \cup {NULL}] /\ children' \in [Procs -> Seq(Procs)]
           /\ inPipe' \in [Procs -> Pipes \cup {NULL}]
           /\ outPipe' \in [Procs -> Pipes \cup {NULL}]
           /\ SchedRight' /\ FamilyRight'
<1>1. /\ p = Min(Unused) /\ Unused # {}
      /\ pstate' = [pstate EXCEPT ![p] = "READY"]
      /\ parent' = [parent EXCEPT ![p] = me]
      /\ children' = [children EXCEPT ![p] = <<>>, ![me] = <<p>> \o @]
      /\ inPipe' = [inPipe EXCEPT ![p] = in]
      /\ outPipe' = [outPipe EXCEPT ![p] = out]
      /\ readyq' = AddReady(readyq, p)
  BY DEF SpawnOp
<1>2. /\ me \in Procs /\ pstate[me] = "RUNNING" /\ me = current /\ Live(me)
  BY MeFacts DEF me
<1>3. ListTypes /\ TableTypes
  BY TypesParts DEF PipeInv
<1>4. pstate[p] = "UNUSED" /\ p # me
  <2>1. Unused \in SUBSET Nat
    BY ProcsAssumption DEF Unused, Procs
  <2>2. p \in Unused
    BY <1>1, <2>1, MinOfNats
  <2> QED
    BY <1>2, <2>2 DEF Unused
<1>5. /\ \A x \in Procs : pstate'[x] = IF x = p THEN "READY" ELSE pstate[x]
      /\ \A x \in Procs : parent'[x] = IF x = p THEN me ELSE parent[x]
      /\ \A x \in Procs : inPipe'[x] = IF x = p THEN in ELSE inPipe[x]
      /\ \A x \in Procs : outPipe'[x] = IF x = p THEN out ELSE outPipe[x]
  BY <1>1, <1>3 DEF ListTypes, TableTypes
<1>6. /\ pstate' \in [Procs -> ProcStates]
      /\ parent' \in [Procs -> Procs \cup {NULL}]
      /\ inPipe' \in [Procs -> Pipes \cup {NULL}]
      /\ outPipe' \in [Procs -> Pipes \cup {NULL}]
  BY <1>1, <1>2, <1>3 DEF ListTypes, TableTypes, ProcStates
<1>7. /\ children' \in [Procs -> Seq(Procs)]
      /\ ToSet(children'[p]) = {}
      /\ ToSet(children'[me]) = ToSet(children[me]) \cup {p}
      /\ \A x \in Procs \ {p, me} : children'[x] = children[x]
  <2> DEFINE w == <<p>> \o children[me]
  <2>1. w \in Seq(Procs) /\ ToSet(w) = ToSet(children[me]) \cup {p}
    BY <1>2, <1>3, ConsFacts DEF TableTypes
  <2>2. children' = [children EXCEPT ![p] = <<>>, ![me] = w]
    BY <1>1, <1>2, <1>3, <1>4 DEF TableTypes
  <2> HIDE DEF w
  <2>3. /\ children' \in [Procs -> Seq(Procs)]
        /\ children'[p] = <<>> /\ children'[me] = w
        /\ \A x \in Procs \ {p, me} : children'[x] = children[x]
    BY <1>2, <1>3, <1>4, <2>1, <2>2, EmptyList DEF TableTypes
  <2> QED
    BY <2>1, <2>3, EmptyList
<1>8. /\ readyq' \in Seq(Procs) /\ ToSet(readyq') = ToSet(readyq) \cup {p} /\ Distinct(readyq')
  <2>1. p \notin ToSet(readyq)
    BY <1>4 DEF PipeInv, SchedRight
  <2>2. readyq' = <<p>> \o readyq
    <3>1. \A u : Contains(readyq, u) <=> u \in ToSet(readyq)
      <4>1. readyq \in Seq(Procs)
        BY <1>3 DEF ListTypes
      <4> QED
        BY <4>1, ToSetFacts DEF Contains
    <3> QED
      BY <1>1, <2>1, <3>1 DEF AddReady
  <2>3. Distinct(readyq) /\ readyq \in Seq(Procs)
    BY <1>3 DEF PipeInv, SchedRight, ListTypes
  <2> QED
    BY <2>1, <2>2, <2>3, ConsFacts
<1>9. SchedRight'
  <2>1. \A x \in Procs : x \in ToSet(readyq)' <=>
          pstate'[x] \in {"READY", "RUNNING"} \/ (step' = "done" /\ x = current')
    BY <1>4, <1>5, <1>8 DEF PipeInv, SchedRight
  <2>2. \A x \in Procs : pstate'[x] = "RUNNING" => step' \in {"in", "yielded"} /\ x = current'
    BY <1>5 DEF PipeInv, SchedRight
  <2>3. Distinct(readyq)' /\ current' \in Procs /\ pstate'[current'] = "RUNNING"
    BY <1>2, <1>4, <1>5, <1>8 DEF Distinct
  <2> QED
    BY <2>1, <2>2, <2>3 DEF SchedRight
<1>10. FamilyRight'
  <2>0. \A x \in Procs : pstate'[x] # "UNUSED" <=> Live(x) \/ x = p
    BY <1>4, <1>5 DEF Live
  <2>1. \A x \in Procs : parent[x] = p => ~ Live(x)
    BY <1>4, Names DEF PipeInv, FamilyRight, Live
  <2>2. ASSUME NEW a \in Procs, NEW c \in Procs, pstate'[a] # "UNUSED"
        PROVE  c \in ToSet(children'[a]) <=> pstate'[c] # "UNUSED" /\ parent'[c] = a
    <3>1. Live(a) => (c \in ToSet(children[a]) <=> Live(c) /\ parent[c] = a)
      BY DEF PipeInv, FamilyRight
    <3>2. CASE a = p
      BY <1>4, <1>5, <1>7, <2>0, <2>1, <3>2
    <3>3. CASE a = me
      BY <1>2, <1>4, <1>5, <1>7, <2>0, <3>1, <3>3 DEF Live
    <3>4. CASE a \notin {p, me}
      BY <1>4, <1>5, <1>7, <2>0, <2>2, <3>1, <3>4 DEF Live
    <3> QED
      BY <3>2, <3>3, <3>4
  <2>3. ASSUME NEW c \in Procs, pstate'[c] # "UNUSED", parent'[c] # NULL
        PROVE  pstate'[parent'[c]] # "UNUSED" /\ pc'[parent'[c]] # "start"
    <3>1. CASE c = p
      <4>1. parent'[c] = me /\ pc'[me] = y /\ pstate'[me] = "RUNNING"
        BY <1>2, <1>4, <1>5, <3>1
      <4> QED
        BY <4>1
    <3>2. CASE c # p
      <4>1. Live(c) /\ parent'[c] = parent[c] /\ parent[c] \in Procs
        BY <1>3, <1>5, <2>0, <2>3, <3>2 DEF TableTypes
      <4>2. PICK r \in Procs : r = parent[c]
        BY <4>1
      <4>3. Live(r) /\ pc[r] # "start"
        BY <2>3, <4>1, <4>2 DEF PipeInv, FamilyRight
      <4>4. r # p
        BY <1>4, <4>3 DEF Live
      <4>5. pc'[r] # "start" /\ pstate'[r] # "UNUSED"
        BY <2>0, <4>3, <4>4
      <4> QED
        BY <4>1, <4>2, <4>5
    <3> QED
      BY <3>1, <3>2
  <2> QED
    BY <2>2, <2>3 DEF FamilyRight, Live
<1> QED
  BY <1>4, <1>5, <1>6, <1>7, <1>8, <1>9, <1>10

\* The new process sleeps nowhere, and the others sleep on.
LEMMA SpawnKeepsSleep ==
    ASSUME PipeInv, NEW p \in Procs, pstate[p] # "BLOCKED",
           UNCHANGED <<readers, writers, pipe>>,
           \A x \in Procs : pstate'[x] = IF x = p THEN "READY" ELSE pstate[x],
           \A x \in Procs \ {p} : inPipe'[x] = inPipe[x] /\ outPipe'[x] = outPipe[x],
           \A x \in Procs : pstate[x] = "BLOCKED" => pc'[x] = pc[x]
    PROVE  SleepRight'
<1>1. \A x \in Procs : (pstate'[x] = "BLOCKED") <=> (pstate[x] = "BLOCKED")
  OBVIOUS
<1>2. \A x \in Procs : pstate[x] = "BLOCKED" =>
        pc'[x] = pc[x] /\ inPipe'[x] = inPipe[x] /\ outPipe'[x] = outPipe[x]
  OBVIOUS
<1>3. ASSUME NEW q \in Pipes
      PROVE  /\ \A x \in Procs : x \in ToSet(readers'[q]) <=>
                  pstate'[x] = "BLOCKED" /\ pc'[x] = "read" /\ inPipe'[x] = q
             /\ \A x \in Procs : x \in ToSet(writers'[q]) <=>
                  pstate'[x] = "BLOCKED" /\ pc'[x] = "put" /\ outPipe'[x] = q
  BY <1>1, <1>2 DEF PipeInv, SleepRight
<1>4. \A x \in Procs : pstate'[x] = "BLOCKED" =>
         \/ pc'[x] = "read" /\ inPipe'[x] # NULL
         \/ pc'[x] = "put" /\ outPipe'[x] # NULL
  BY <1>1, <1>2 DEF PipeInv, SleepRight
<1>5. \A q \in Pipes :
        /\ Distinct(readers[q])' /\ Distinct(writers[q])'
        /\ readers'[q] # <<>> => Empty(pipe'[q]) /\ ~ pipe'[q].eof
        /\ writers'[q] # <<>> => Full(pipe'[q])
  BY DEF PipeInv, SleepRight, Distinct
<1> QED
  BY <1>3, <1>4, <1>5 DEF SleepRight

LEMMA MountFsKeeps ==
    ASSUME PipeInv, MountFs
    PROVE  PipeInv'
<1>1. /\ step = "in" /\ prog[me] = "cli" /\ pc[me] = "start"
      /\ UNCHANGED <<current, step, pipe, readers, writers, lineBuf, total, cmd, spawned, uart>>
  BY DEF MountFs, Runs, At, waitVars, userVars
<1>2. CASE Unused = {}
  <2>1. /\ pc' = [pc EXCEPT ![me] = "wait"]
        /\ UNCHANGED <<procVars, prog, got, next, remain, lineBuf, total, userVars>>
    BY <1>2 DEF MountFs, Goto, procVars, tableVars, schedVars, waitVars
  <2> QED
    BY <1>1, <2>1, WaitKeeps
<1>3. CASE Unused # {}
  <2>1. PICK p \in Procs :
          /\ SpawnOp(p, me, NULL, NULL)
          /\ Load(p, "shell", NULL)
          /\ pc' = [pc EXCEPT ![me] = "wait", ![p] = "start"]
    BY <1>3 DEF MountFs
  <2>2. /\ prog' = [prog EXCEPT ![p] = "shell"] /\ got' = [got EXCEPT ![p] = 0]
        /\ next' = [next EXCEPT ![p] = 0] /\ remain' = [remain EXCEPT ![p] = 0]
    BY <2>1 DEF Load
  <2>3. /\ me \in Procs /\ pstate[me] = "RUNNING" /\ IsCli(me) /\ me = Cli /\ Live(me)
    BY <1>1, MeFacts DEF IsCli
  <2>4. OwnTypes /\ ListTypes /\ TableTypes
    BY TypesParts DEF PipeInv
  <2>5. \A x \in Procs : pc'[x] = IF x = p THEN "start" ELSE IF x = me THEN "wait" ELSE pc[x]
    BY <2>1, <2>3, <2>4 DEF OwnTypes
  <2>6. /\ pstate[p] = "UNUSED" /\ p # me
        /\ \A x \in Procs : pstate'[x] = IF x = p THEN "READY" ELSE pstate[x]
        /\ \A x \in Procs : parent'[x] = IF x = p THEN me ELSE parent[x]
        /\ \A x \in Procs : inPipe'[x] = IF x = p THEN NULL ELSE inPipe[x]
        /\ \A x \in Procs : outPipe'[x] = IF x = p THEN NULL ELSE outPipe[x]
        /\ pstate' \in [Procs -> ProcStates] /\ readyq' \in Seq(Procs)
        /\ parent' \in [Procs -> Procs \cup {NULL}] /\ children' \in [Procs -> Seq(Procs)]
        /\ inPipe' \in [Procs -> Pipes \cup {NULL}]
        /\ outPipe' \in [Procs -> Pipes \cup {NULL}]
        /\ SchedRight' /\ FamilyRight'
    <3>1. "wait" # "start"
      OBVIOUS
    <3>2. SpawnOp(p, me, NULL, NULL) /\ NULL \in Pipes \cup {NULL}
      BY <2>1
    <3> QED
      BY <1>1, <2>5, <3>1, <3>2, SpawnFacts
  <2>7. /\ \A x \in Procs : ~ LiveStage(x)
        /\ \A x \in Procs : Live(x) => prog[x] # "shell"
        /\ \A x \in Procs : pstate[x] # "BLOCKED"
    BY <1>1, NoStages
  <2>8. \A x \in Procs : prog'[x] = IF x = p THEN "shell" ELSE prog[x]
    BY <2>2, <2>4 DEF TableTypes
  <2>9. \A x \in Procs : pstate'[x] # "UNUSED" <=> Live(x) \/ x = p
    BY <2>6 DEF Live
  <2>10. ProcTypes'
    <3>1. TableTypes'
      <4>1. prog' \in [Procs -> StagePrograms \cup {"idle", "cli", "shell"}]
        BY <2>2, <2>4 DEF TableTypes
      <4> QED
        BY <1>1, <2>4, <2>6, <4>1 DEF TableTypes
    <3>2. OwnTypes'
      <4>1. pc' \in [Procs -> Pcs]
        BY <2>1, <2>4 DEF OwnTypes, Pcs
      <4>2. got' \in [Procs -> 0 .. LineSize + WcBufSize]
        BY <2>2, <2>4, LineSizeAssumption DEF OwnTypes
      <4>3. next' \in [Procs -> Nat] /\ remain' \in [Procs -> Nat]
        BY <2>2, <2>4 DEF OwnTypes
      <4> QED
        BY <1>1, <2>4, <4>1, <4>2, <4>3 DEF OwnTypes
    <3>3. ListTypes'
      BY <1>1, <2>4, <2>6 DEF ListTypes
    <3> QED
      BY <3>1, <3>2, <3>3, TypesPrimed
  <2>11. SleepRight'
    BY <1>1, <2>6, <2>7, SpawnKeepsSleep
  <2>12. RolesRight'
    <3>1. \A x \in Procs : x # p => (IsIdle(x) => IsIdle(x)')
      BY <2>3, <2>5, <2>6, <2>8, Names DEF IsIdle, IsCli, Idle, Cli
    <3>2. \A x \in Procs : x # p => (IsCli(x) => IsCli(x)')
      BY <2>3, <2>5, <2>6, <2>8 DEF IsCli
    <3>3. IsSh(p)'
      BY <2>3, <2>5, <2>6, <2>8 DEF IsSh
    <3>4. \A x \in Procs : Live(x) => IsIdle(x) \/ IsCli(x)
      BY <2>7 DEF PipeInv, RolesRight, LiveStage, IsStage, IsSh
    <3>5. \A x \in Procs : Live(x)' => (IsIdle(x) \/ IsCli(x) \/ IsSh(x) \/ IsStage(x))'
      <4>1. \A x \in Procs : Live(x)' => Live(x) \/ x = p
        BY <2>9 DEF Live
      <4>2. \A x \in Procs : Live(x) => x # p
        BY <2>6 DEF Live
      <4> QED
        BY <3>1, <3>2, <3>3, <3>4, <4>1, <4>2
    <3>6. IsIdle(Idle)' /\ IsCli(Cli)'
      <4>1. IsIdle(Idle) /\ IsCli(Cli) /\ Idle \in Procs /\ Cli \in Procs /\ Live(Idle) /\ Live(Cli)
        BY CliFacts, Names DEF PipeInv
      <4>2. Idle # p /\ Cli # p
        BY <2>6, <4>1 DEF Live
      <4> QED
        BY <3>1, <3>2, <4>1, <4>2
    <3>7. \A x \in Procs : pstate'[x] # "UNUSED" /\ prog'[x] = "shell" => x = p
      BY <2>7, <2>8, <2>9
    <3>8. \A x \in Procs : ~ LiveStage(x)'
      BY <2>7, <2>8, <2>9, Names DEF LiveStage, Live
    <3> QED
      BY <3>5, <3>6, <3>7, <3>8 DEF RolesRight, Live
  <2>13. \A x \in Procs : ~ LiveStage(x)'
    BY <2>7, <2>8, <2>9, Names DEF LiveStage, Live
  <2>14. DataRight'
    BY <2>13 DEF DataRight
  <2>15. EofRight'
    <3>1. \A x \in Procs : ~ (pstate'[x] # "UNUSED" /\ prog'[x] = "shell" /\ pc'[x] = "spawn")
      BY <2>5, <2>7, <2>8, <2>9
    <3> QED
      BY <2>13, <3>1 DEF EofRight, Live
  <2> QED
    BY <2>6, <2>10, <2>11, <2>12, <2>14, <2>15 DEF PipeInv
<1> QED
  BY <1>2, <1>3

LEMMA SpawnStageKeeps ==
    ASSUME PipeInv, SpawnStage
    PROVE  PipeInv'
<1> DEFINE i == spawned + 1
           n == Len(cmd.stages)
           in == IF i = 1 THEN NULL ELSE i - 1
           out == IF i = n THEN NULL ELSE i
           g == cmd.stages[i].prog
<1>1. /\ step = "in" /\ pc[me] = "spawn" /\ i <= n
      /\ spawned' = i
      /\ UNCHANGED <<current, step, pipe, readers, writers, lineBuf, total, cmd, uart>>
  BY DEF SpawnStage, At, waitVars
<1>2. PICK p \in Procs :
        /\ SpawnOp(p, me, in, out)
        /\ Load(p, g, cmd.stages[i].arg)
        /\ pc' = [pc EXCEPT ![p] = "start"]
  BY DEF SpawnStage
<1>3. /\ prog' = [prog EXCEPT ![p] = g] /\ got' = [got EXCEPT ![p] = 0]
      /\ next' = [next EXCEPT ![p] = 0] /\ remain' = [remain EXCEPT ![p] = 0]
  BY <1>2 DEF Load
<1>4. /\ me \in Procs /\ pstate[me] = "RUNNING" /\ prog[me] = "shell" /\ IsSh(me) /\ Live(me)
  BY <1>1, WhoIsAt, MeFacts
<1>5. OwnTypes /\ ListTypes /\ TableTypes
  BY TypesParts DEF PipeInv
<1>6. /\ cmd \in Commands /\ spawned \in Nat /\ n \in Nat /\ i \in 1 .. n /\ i = spawned + 1
      /\ g \in StagePrograms /\ (i < n => i \in Pipes)
      /\ in \in Pipes \cup {NULL} /\ out \in Pipes \cup {NULL}
      /\ (IF in = NULL THEN 1 ELSE in + 1) = i
  <2>1. cmd \in Commands \cup {NoCmd} /\ spawned \in 0 .. n
    BY <1>5 DEF TableTypes
  <2>2. cmd # NoCmd
    <3>1. Len(NoCmd.stages) = 0
      BY DEF NoCmd
    <3> QED
      BY <1>1, <2>1, <3>1
  <2>3. cmd \in Commands
    BY <2>1, <2>2
  <2>4. /\ n \in Nat
        /\ \A k \in 1 .. n : cmd.stages[k].prog \in StagePrograms /\ (k < n => k \in Pipes)
    BY <2>3, CommandsAssumption
  <2>5. spawned \in Nat /\ i \in 1 .. n
    BY <1>1, <2>1, <2>4
  <2>6. i # 1 => i - 1 \in Pipes
    <3>1. i # 1 => i - 1 \in 1 .. n /\ i - 1 < n
      BY <2>4, <2>5
    <3> QED
      BY <2>4, <3>1
  <2>7. i # n => i \in Pipes
    BY <2>4, <2>5
  <2>8. (IF in = NULL THEN 1 ELSE in + 1) = i
    <3>1. CASE i = 1
      BY <3>1
    <3>2. CASE i # 1
      <4>1. in = i - 1 /\ in # NULL
        BY <2>6, <3>2, Names
      <4> QED
        BY <2>5, <4>1
    <3> QED
      BY <3>1, <3>2
  <2> QED
    BY <2>3, <2>4, <2>5, <2>6, <2>7, <2>8
<1>7. out = IF i = n THEN NULL ELSE i
  OBVIOUS
<1> HIDE DEF i, in, out, g
<1>8. \A x \in Procs : pc'[x] = IF x = p THEN "start" ELSE IF x = me THEN "spawn" ELSE pc[x]
  BY <1>1, <1>2, <1>4, <1>5 DEF OwnTypes
<1>9. /\ pstate[p] = "UNUSED" /\ p # me
      /\ \A x \in Procs : pstate'[x] = IF x = p THEN "READY" ELSE pstate[x]
      /\ \A x \in Procs : parent'[x] = IF x = p THEN me ELSE parent[x]
      /\ \A x \in Procs : inPipe'[x] = IF x = p THEN in ELSE inPipe[x]
      /\ \A x \in Procs : outPipe'[x] = IF x = p THEN out ELSE outPipe[x]
      /\ pstate' \in [Procs -> ProcStates] /\ readyq' \in Seq(Procs)
      /\ parent' \in [Procs -> Procs \cup {NULL}] /\ children' \in [Procs -> Seq(Procs)]
      /\ inPipe' \in [Procs -> Pipes \cup {NULL}]
      /\ outPipe' \in [Procs -> Pipes \cup {NULL}]
      /\ SchedRight' /\ FamilyRight'
  <2>1. "spawn" # "start" /\ SpawnOp(p, me, in, out)
    BY <1>2
  <2> QED
    BY <1>1, <1>6, <1>8, <2>1, SpawnFacts
<1>10. \A x \in Procs : pc'[x] = IF x = p THEN "start" ELSE pc[x]
  BY <1>2, <1>5 DEF OwnTypes
<1>11. \A x \in Procs : prog'[x] = IF x = p THEN g ELSE prog[x]
  BY <1>3, <1>5 DEF TableTypes
<1>12. \A x \in Procs : pstate'[x] # "UNUSED" <=> Live(x) \/ x = p
  BY <1>9 DEF Live
<1>13. /\ \A x \in Procs : Live(x) => x # p
       /\ \A x \in Procs : LiveStage(x) => x # p
  BY <1>9 DEF Live, LiveStage
<1>14. ProcTypes'
  <2>1. TableTypes'
    <3>1. prog' \in [Procs -> StagePrograms \cup {"idle", "cli", "shell"}]
      BY <1>3, <1>5, <1>6 DEF TableTypes
    <3>2. spawned' \in 0 .. Len(cmd'.stages)
      BY <1>1, <1>6
    <3> QED
      BY <1>1, <1>5, <1>9, <3>1, <3>2 DEF TableTypes
  <2>2. OwnTypes'
    <3>1. pc' \in [Procs -> Pcs]
      BY <1>2, <1>5 DEF OwnTypes, Pcs
    <3>2. got' \in [Procs -> 0 .. LineSize + WcBufSize]
      BY <1>3, <1>5, LineSizeAssumption DEF OwnTypes
    <3>3. next' \in [Procs -> Nat] /\ remain' \in [Procs -> Nat]
      BY <1>3, <1>5 DEF OwnTypes
    <3> QED
      BY <1>1, <1>5, <3>1, <3>2, <3>3 DEF OwnTypes
  <2>3. ListTypes'
    BY <1>1, <1>5, <1>9 DEF ListTypes
  <2> QED
    BY <2>1, <2>2, <2>3, TypesPrimed
<1>15. SleepRight'
  <2>1. \A x \in Procs : pstate[x] = "BLOCKED" => pc'[x] = pc[x]
    BY <1>9, <1>10
  <2>2. pstate[p] # "BLOCKED"
    BY <1>9
  <2> QED
    BY <1>1, <1>9, <2>1, <2>2, SpawnKeepsSleep
<1>16. IsStage(p)' /\ StageNo(p)' = i
  <2>1. StageNo(p)' = i
    BY <1>6, <1>9 DEF StageNo
  <2>2. pc'[p] = "start" /\ prog'[p] = g
    BY <1>10, <1>11
  <2>3. "start" \in StagePcs(g)
    BY <1>6, Names DEF StagePcs, Programs
  <2>4. prog'[parent'[p]] = "shell" /\ parent'[p] \in Procs
    BY <1>4, <1>9, <1>11
  <2>5. g = cmd.stages[i].prog /\ n = Len(cmd.stages)
    BY DEF g
  <2>6. outPipe'[p] = out /\ i \in 1 .. spawned' /\ cmd' = cmd
    BY <1>1, <1>6, <1>9
  <2> QED
    BY <1>6, <1>7, <2>1, <2>2, <2>3, <2>4, <2>5, <2>6 DEF IsStage
<1>17. ASSUME NEW x \in Procs, LiveStage(x)
       PROVE  IsStage(x)' /\ StageNo(x)' = StageNo(x) /\ StageNo(x) # i
  <2>1. IsStage(x) /\ StageNo(x) \in 1 .. spawned /\ x # p
    BY <1>13, <1>17, StageFacts DEF PipeInv
  <2>2. parent[x] \in Procs /\ parent[x] # NULL
    BY <2>1, Names DEF IsStage
  <2>3. PICK r \in Procs : r = parent[x]
    BY <2>2
  <2>4. Live(r)
    BY <1>17, <2>2, <2>3 DEF PipeInv, FamilyRight, LiveStage
  <2>5. prog'[r] = "shell" /\ parent'[x] = r
    BY <1>9, <1>11, <1>13, <2>1, <2>3, <2>4 DEF IsStage
  <2>6. /\ inPipe'[x] = inPipe[x] /\ outPipe'[x] = outPipe[x] /\ pc'[x] = pc[x]
        /\ prog'[x] = prog[x] /\ cmd' = cmd
    BY <1>1, <1>9, <1>10, <1>11, <2>1
  <2>7. StageNo(x)' = StageNo(x)
    BY <2>6 DEF StageNo
  <2>8. StageNo(x) \in 1 .. spawned' /\ StageNo(x) # i
    BY <1>1, <1>6, <2>1
  <2>9. IsStage(x)'
    BY <2>1, <2>5, <2>6, <2>7, <2>8 DEF IsStage
  <2> QED
    BY <2>7, <2>8, <2>9
<1>18. RolesRight'
  <2>1. \A x \in Procs : x # p => (IsIdle(x) => IsIdle(x)')
    BY <1>9, <1>10, <1>11 DEF IsIdle
  <2>2. \A x \in Procs : x # p => (IsCli(x) => IsCli(x)')
    BY <1>9, <1>10, <1>11 DEF IsCli
  <2>3. \A x \in Procs : x # p => (IsSh(x) => IsSh(x)')
    BY <1>9, <1>10, <1>11 DEF IsSh
  <2>4. ASSUME NEW x \in Procs, pstate'[x] # "UNUSED"
        PROVE  (IsIdle(x) \/ IsCli(x) \/ IsSh(x) \/ IsStage(x))'
    <3>1. CASE x = p
      BY <1>16, <3>1
    <3>2. CASE x # p
      <4>1. Live(x)
        BY <1>12, <2>4, <3>2
      <4>2. IsStage(x) => IsStage(x)'
        BY <1>17, <4>1 DEF IsStage, LiveStage
      <4> QED
        BY <2>1, <2>2, <2>3, <3>2, <4>1, <4>2 DEF PipeInv, RolesRight
    <3> QED
      BY <3>1, <3>2
  <2>5. IsIdle(Idle)' /\ IsCli(Cli)'
    <3>1. IsIdle(Idle) /\ IsCli(Cli) /\ Idle \in Procs /\ Cli \in Procs /\ Live(Idle) /\ Live(Cli)
      BY CliFacts, Names DEF PipeInv
    <3>2. Idle # p /\ Cli # p
      BY <1>13, <3>1
    <3> QED
      BY <2>1, <2>2, <3>1, <3>2
  <2>6. \A x, r \in Procs : pstate'[x] # "UNUSED" /\ pstate'[r] # "UNUSED"
          /\ prog'[x] = "shell" /\ prog'[r] = "shell" => x = r
    <3>1. g # "shell"
      BY <1>6, Names
    <3> QED
      BY <1>11, <1>12, <3>1 DEF PipeInv, RolesRight
  <2>7. \A x \in Procs : LiveStage(x)' => x = p \/ LiveStage(x)
    BY <1>11, <1>12 DEF LiveStage, Live
  <2>8. \A x, r \in Procs : LiveStage(x)' /\ LiveStage(r)' /\ StageNo(x)' = StageNo(r)' => x = r
    BY <1>16, <1>17, <2>7 DEF PipeInv, RolesRight
  <2> QED
    BY <2>4, <2>5, <2>6, <2>8 DEF RolesRight, Live
<1>19. DataRight'
  <2> SUFFICES ASSUME NEW x \in Procs, LiveStage(x)' PROVE DataOf(x)'
    BY DEF DataRight
  <2>1. CASE x = p
    BY <1>10, <2>1 DEF DataOf
  <2>2. CASE x # p
    <3>1. LiveStage(x)
      BY <1>11, <1>12, <2>2 DEF LiveStage, Live
    <3>2. DataOf(x)
      BY <3>1 DEF PipeInv, DataRight
    <3>3. /\ got'[x] = got[x] /\ next'[x] = next[x] /\ remain'[x] = remain[x]
          /\ pc'[x] = pc[x] /\ prog'[x] = prog[x] /\ cmd' = cmd
      BY <1>1, <1>3, <1>5, <1>10, <1>11, <2>2 DEF OwnTypes
    <3> QED
      BY <3>2, <3>3 DEF DataOf
  <2> QED
    BY <2>1, <2>2
<1>20. EofRight'
  <2>0. \A q \in Pipes : spawned < q /\ q < n => ~ pipe[q].eof
    BY <1>1, <1>4 DEF PipeInv, EofRight
  <2>1. ASSUME NEW x \in Procs, LiveStage(x)', outPipe'[x] # NULL, pipe'[outPipe'[x]].eof
        PROVE  pstate'[x] = "ZOMBIE" /\ ~ (step' = "done" /\ current' = x)
    <3>1. CASE x = p
      <4>1. out # NULL /\ pipe[out].eof
        BY <1>1, <1>9, <2>1, <3>1
      <4>2. out = i /\ i # n
        BY <1>7, <4>1
      <4>3. i < n /\ spawned < i /\ i \in Pipes
        BY <1>6, <4>2
      <4> QED
        BY <2>0, <4>1, <4>2, <4>3
    <3>2. CASE x # p
      <4>1. LiveStage(x) /\ outPipe[x] # NULL /\ pipe[outPipe[x]].eof
        BY <1>1, <1>9, <1>11, <1>12, <2>1, <3>2 DEF LiveStage, Live
      <4>2. pstate[x] = "ZOMBIE" /\ ~ (step = "done" /\ current = x)
        BY <4>1 DEF PipeInv, EofRight
      <4> QED
        BY <1>1, <1>9, <3>2, <4>2
    <3> QED
      BY <3>1, <3>2
  <2>2. \A q \in Pipes : spawned' < q /\ q < Len(cmd'.stages) => ~ pipe'[q].eof
    <3>1. \A q \in Pipes : spawned' < q => spawned < q
      BY <1>1, <1>6, Names
    <3> QED
      BY <1>1, <2>0, <3>1
  <2> QED
    BY <2>1, <2>2 DEF EofRight
<1> QED
  BY <1>9, <1>14, <1>15, <1>18, <1>19, <1>20 DEF PipeInv

\* shell_execute() returns to the shell, which waits.
LEMMA SpawnedKeeps ==
    ASSUME PipeInv, Spawned
    PROVE  PipeInv'
<1>1. /\ step = "in" /\ pc[me] = "spawn" /\ pc' = [pc EXCEPT ![me] = "wait"]
      /\ UNCHANGED <<procVars, prog, got, next, remain, lineBuf, total, userVars>>
  BY DEF Spawned, At, Goto
<1>2. prog[me] = "shell"
  BY <1>1, WhoIsAt
<1> QED
  BY <1>1, <1>2, WaitKeeps

\* The children are over: their places are free again, and the parent is back at its start.
LEMMA ReapKeeps ==
    ASSUME PipeInv, Reap
    PROVE  PipeInv'
<1> DEFINE dead == {c \in ToSet(children[me]) : pstate[c] = "ZOMBIE"}
<1>1. /\ step = "in" /\ pc[me] = "wait" /\ ~ HasChildren(me)
      /\ pstate' = [c \in Procs |-> IF c \in dead THEN "UNUSED" ELSE pstate[c]]
      /\ parent' = [c \in Procs |-> IF c \in dead THEN NULL ELSE parent[c]]
      /\ children' = [children EXCEPT ![me] = Keep(children[me], Procs \ dead)]
      /\ pc' = [pc EXCEPT ![me] = "start"]
      /\ UNCHANGED <<readyq, current, step, pipe, readers, writers, inPipe, outPipe, prog, got,
                     next, remain, lineBuf, total, cmd, spawned, uart>>
  BY DEF Reap, ReapOp, At, Goto, waitVars, userVars
<1>2. /\ me \in Procs /\ pstate[me] = "RUNNING" /\ Live(me) /\ prog[me] \in {"cli", "shell"}
      /\ IsCli(me) \/ IsSh(me)
  BY <1>1, MeFacts, WhoIsAt
<1>3. OwnTypes /\ ListTypes /\ TableTypes
  BY TypesParts DEF PipeInv
<1>4. children[me] \in Seq(Procs) /\ ToSet(children[me]) \subseteq Procs
  <2>1. children[me] \in Seq(Procs)
    BY <1>2, <1>3 DEF TableTypes
  <2> QED
    BY <2>1, ToSetFacts
<1>5. \A c \in Procs : c \in dead <=> Live(c) /\ parent[c] = me
  <2>1. \A c \in Procs : c \in ToSet(children[me]) <=> Live(c) /\ parent[c] = me
    BY <1>2 DEF PipeInv, FamilyRight
  <2>2. \A c \in Procs : c \in ToSet(children[me]) => pstate[c] \in {"UNUSED", "ZOMBIE"}
    BY <1>1 DEF HasChildren
  <2> QED
    BY <2>1, <2>2 DEF Live
<1>6. \A c \in Procs : c \in dead => pstate[c] = "ZOMBIE"
  OBVIOUS
<1>7. /\ Keep(children[me], Procs \ dead) \in Seq(Procs)
      /\ \A c \in Procs : c \in ToSet(Keep(children[me], Procs \ dead)) =>
           c \in ToSet(children[me]) /\ c \notin dead
  <2> DEFINE S == Procs \ dead
             w == children[me]
  <2>1. S = Procs \ dead /\ w \in Seq(Procs)
    BY <1>4
  <2> HIDE DEF S, w
  <2>2. Keep(w, S) \in Seq(Procs) /\ ToSet(Keep(w, S)) = ToSet(w) \cap S
    BY <2>1, KeepFacts
  <2>3. \A c \in Procs : c \in ToSet(Keep(w, S)) => c \in ToSet(w) /\ c \notin dead
    BY <2>1, <2>2
  <2> QED
    BY <2>2, <2>3 DEF S, w
<1>8. \A c \in Procs : c \notin ToSet(Keep(children[me], Procs \ dead))
  <2>1. \A c \in Procs : c \in ToSet(children[me]) <=> Live(c) /\ parent[c] = me
    BY <1>2 DEF PipeInv, FamilyRight
  <2> QED
    BY <1>5, <1>7, <2>1
<1> HIDE DEF dead
<1>9. /\ pstate' \in [Procs -> ProcStates] /\ parent' \in [Procs -> Procs \cup {NULL}]
      /\ children' \in [Procs -> Seq(Procs)] /\ pc' \in [Procs -> Pcs]
  <2>1. \A c \in Procs : pstate[c] \in ProcStates /\ parent[c] \in Procs \cup {NULL}
    BY <1>3 DEF ListTypes, TableTypes
  <2>2. pstate' \in [Procs -> ProcStates]
    BY <1>1, <2>1 DEF ProcStates
  <2>3. parent' \in [Procs -> Procs \cup {NULL}]
    BY <1>1, <2>1
  <2>4. children' \in [Procs -> Seq(Procs)]
    <3> DEFINE k == Keep(children[me], Procs \ dead)
    <3>1. k \in Seq(Procs) /\ children' = [children EXCEPT ![me] = k]
      BY <1>1, <1>7
    <3> HIDE DEF k
    <3> QED
      BY <1>3, <3>1 DEF TableTypes
  <2>5. pc' \in [Procs -> Pcs]
    BY <1>1, <1>3 DEF OwnTypes, Pcs
  <2> QED
    BY <2>2, <2>3, <2>4, <2>5
<1>10. /\ \A p \in Procs : p \in dead => pstate'[p] = "UNUSED" /\ parent'[p] = NULL
       /\ \A p \in Procs : p \notin dead => pstate'[p] = pstate[p] /\ parent'[p] = parent[p]
       /\ \A p \in Procs : p # me => pc'[p] = pc[p] /\ children'[p] = children[p]
       /\ pc'[me] = "start" /\ \A c \in Procs : c \notin ToSet(children'[me])
  <2>1. \A p \in Procs : p # me => pc'[p] = pc[p] /\ children'[p] = children[p]
    BY <1>1, <1>3 DEF OwnTypes, TableTypes
  <2>2. pc'[me] = "start"
    BY <1>1, <1>2, <1>3 DEF OwnTypes
  <2>3. children'[me] = Keep(children[me], Procs \ dead)
    BY <1>1, <1>2, <1>3 DEF TableTypes
  <2>4. \A p \in Procs : p \in dead => pstate'[p] = "UNUSED" /\ parent'[p] = NULL
    BY <1>1
  <2>5. \A p \in Procs : p \notin dead => pstate'[p] = pstate[p] /\ parent'[p] = parent[p]
    BY <1>1
  <2> QED
    BY <1>8, <2>1, <2>2, <2>3, <2>4, <2>5
<1>11. \A p \in Procs : Live(p)' <=> Live(p) /\ p \notin dead
  BY <1>10 DEF Live
<1>12. ProcTypes'
  <2>1. OwnTypes'
    BY <1>1, <1>3, <1>9 DEF OwnTypes
  <2>2. ListTypes'
    BY <1>1, <1>3, <1>9 DEF ListTypes
  <2>3. TableTypes'
    BY <1>1, <1>3, <1>9 DEF TableTypes
  <2> QED
    BY <2>1, <2>2, <2>3, TypesPrimed
<1>13. SchedRight'
  <2>1. \A p \in Procs : p \in ToSet(readyq') <=>
          pstate'[p] \in {"READY", "RUNNING"} \/ (step' = "done" /\ p = current')
    BY <1>1, <1>6, <1>10 DEF PipeInv, SchedRight
  <2>2. \A p \in Procs : pstate'[p] = "RUNNING" => step' \in {"in", "yielded"} /\ p = current'
    BY <1>1, <1>10 DEF PipeInv, SchedRight
  <2>3. pstate'[current'] = "RUNNING" /\ current' \in Procs
    BY <1>1, <1>2, <1>6, <1>10 DEF me
  <2>4. Distinct(readyq)'
    BY <1>1 DEF PipeInv, SchedRight, Distinct
  <2> QED
    BY <1>1, <2>1, <2>2, <2>3, <2>4 DEF SchedRight
<1>14. SleepRight'
  <2>1. \A p \in Procs : pstate'[p] = "BLOCKED" <=> pstate[p] = "BLOCKED"
    BY <1>6, <1>10
  <2>2. \A p \in Procs : pstate[p] = "BLOCKED" => pc'[p] = pc[p]
    BY <1>2, <1>10
  <2> QED
    BY <1>1, <2>1, <2>2, SleepKept DEF PipeInv
<1>15. ASSUME NEW c \in Procs, Live(c)', parent'[c] # NULL
       PROVE  pstate'[parent'[c]] # "UNUSED" /\ pc'[parent'[c]] # "start"
  <2>1. c \notin dead /\ parent'[c] = parent[c] /\ Live(c) /\ parent[c] # NULL
    BY <1>10, <1>11, <1>15
  <2>2. PICK r \in Procs : r = parent[c]
    BY <1>3, <2>1 DEF TableTypes
  <2>3. Live(r) /\ pc[r] # "start"
    BY <2>1, <2>2 DEF PipeInv, FamilyRight
  <2>4. r # me
    BY <1>5, <2>1, <2>2
  <2>5. r \notin dead
    <3>1. IsIdle(c) \/ IsCli(c) \/ IsSh(c) \/ IsStage(c)
      BY <2>1 DEF PipeInv, RolesRight
    <3>2. r = Cli \/ prog[r] = "shell"
      BY <2>1, <2>2, <3>1 DEF IsIdle, IsCli, IsSh, IsStage
    <3>3. pstate[Cli] # "ZOMBIE"
      BY CliFacts DEF PipeInv, IsCli
    <3>4. prog[r] = "shell" => IsSh(r)
      BY <2>3, Names DEF PipeInv, RolesRight, IsIdle, IsCli, IsStage
    <3>5. pstate[r] # "ZOMBIE"
      BY <2>3, <3>2, <3>3, <3>4 DEF IsSh
    <3> QED
      BY <1>6, <3>5
  <2>6. pstate'[r] # "UNUSED" /\ pc'[r] # "start"
    BY <1>10, <2>3, <2>4, <2>5 DEF Live
  <2> QED
    BY <2>1, <2>2, <2>6
<1>16. FamilyRight'
  <2>1. ASSUME NEW p \in Procs, NEW c \in Procs, Live(p)'
        PROVE  c \in ToSet(children'[p]) <=> Live(c)' /\ parent'[c] = p
    <3>1. Live(p) /\ p \notin dead /\ p # NULL
      BY <1>11, <2>1, Names
    <3>2. c \in ToSet(children[p]) <=> Live(c) /\ parent[c] = p
      BY <3>1 DEF PipeInv, FamilyRight
    <3>3. CASE p = me
      <4>1. ~ (Live(c)' /\ parent'[c] = me)
        BY <1>2, <1>5, <1>10, <1>11, Names
      <4> QED
        BY <1>10, <3>3, <4>1
    <3>4. CASE p # me
      <4>1. CASE c \in dead
        BY <1>5, <1>10, <3>1, <3>2, <3>4, <4>1
      <4>2. CASE c \notin dead
        BY <1>10, <1>11, <3>2, <3>4, <4>2
      <4> QED
        BY <4>1, <4>2
    <3> QED
      BY <3>3, <3>4
  <2>2. \A c \in Procs : Live(c)' /\ parent'[c] # NULL =>
          pstate'[parent'[c]] # "UNUSED" /\ pc'[parent'[c]] # "start"
    BY <1>15
  <2> QED
    BY <2>1, <2>2 DEF FamilyRight, Live
<1>17. RolesRight'
  <2>1. \A p \in Procs : IsIdle(p) => IsIdle(p)'
    BY <1>1, <1>2, <1>6, <1>10 DEF IsIdle
  <2>2. \A p \in Procs : IsCli(p) => IsCli(p)'
    <3> SUFFICES ASSUME NEW p \in Procs, IsCli(p) PROVE IsCli(p)'
      OBVIOUS
    <3>1. p \notin dead
      BY <1>6 DEF IsCli
    <3> QED
      BY <1>1, <1>10, <3>1 DEF IsCli
  <2>3. IsIdle(Idle)' /\ IsCli(Cli)'
    BY <2>1, <2>2, Names, CliFacts DEF PipeInv, Idle, Cli
  <2>4. ASSUME NEW p \in Procs, Live(p)'
        PROVE  (IsIdle(p) \/ IsCli(p) \/ IsSh(p) \/ IsStage(p))'
    <3>1. Live(p) /\ p \notin dead
      BY <1>11, <2>4
    <3>2. IsIdle(p) \/ IsCli(p) \/ IsSh(p) \/ IsStage(p)
      BY <3>1 DEF PipeInv, RolesRight
    <3>3. IsSh(p) => IsSh(p)'
      BY <1>1, <1>10, <3>1 DEF IsSh
    <3>4. IsStage(p) => IsStage(p)'
      <4> SUFFICES ASSUME IsStage(p) PROVE IsStage(p)'
        OBVIOUS
      <4>1. p # me
        BY <1>2, Names DEF IsStage
      <4>2. pc'[p] = pc[p] /\ parent'[p] = parent[p] /\ StageNo(p)' = StageNo(p)
        BY <1>1, <1>10, <3>1, <4>1 DEF StageNo
      <4> QED
        BY <1>1, <4>2 DEF IsStage
    <3> QED
      BY <2>1, <2>2, <3>2, <3>3, <3>4
  <2>5. \A p, r \in Procs :
          Live(p)' /\ Live(r)' /\ prog'[p] = "shell" /\ prog'[r] = "shell" => p = r
    BY <1>1, <1>11 DEF PipeInv, RolesRight
  <2>6. \A p \in Procs : (LiveStage(p)' => LiveStage(p)) /\ StageNo(p)' = StageNo(p)
    BY <1>1, <1>11 DEF LiveStage, StageNo
  <2>7. \A p, r \in Procs :
          LiveStage(p)' /\ LiveStage(r)' /\ StageNo(p)' = StageNo(r)' => p = r
    BY <2>6 DEF PipeInv, RolesRight
  <2> QED
    BY <2>3, <2>4, <2>5, <2>7 DEF RolesRight
<1>18. DataRight'
  <2> SUFFICES ASSUME NEW p \in Procs, LiveStage(p)' PROVE DataOf(p)'
    BY DEF DataRight
  <2>1. LiveStage(p) /\ p # me
    BY <1>1, <1>2, <1>11, Names DEF LiveStage
  <2>2. DataOf(p) /\ pc'[p] = pc[p]
    BY <1>10, <2>1 DEF PipeInv, DataRight
  <2> QED
    BY <1>1, <2>2 DEF DataOf
<1>19. EofRight'
  <2>1. ASSUME NEW p \in Procs, LiveStage(p)', outPipe'[p] # NULL, pipe'[outPipe'[p]].eof
        PROVE  pstate'[p] = "ZOMBIE" /\ ~ (step' = "done" /\ current' = p)
    <3>1. LiveStage(p) /\ p \notin dead /\ outPipe[p] # NULL /\ pipe[outPipe[p]].eof
      BY <1>1, <1>11, <2>1 DEF LiveStage
    <3>2. pstate[p] = "ZOMBIE"
      BY <3>1 DEF PipeInv, EofRight
    <3> QED
      BY <1>1, <1>10, <3>1, <3>2
  <2>2. ASSUME NEW p \in Procs, Live(p)', prog'[p] = "shell", pc'[p] = "spawn",
               NEW q \in Pipes, spawned' < q, q < Len(cmd'.stages)
        PROVE  ~ pipe'[q].eof
    <3>1. Live(p) /\ prog[p] = "shell" /\ pc[p] = "spawn" /\ spawned < q /\ q < Len(cmd.stages)
      BY <1>1, <1>10, <1>11, <2>2
    <3>2. ~ pipe[q].eof
      BY <3>1 DEF PipeInv, EofRight
    <3> QED
      BY <1>1, <3>2
  <2> QED
    BY <2>1, <2>2 DEF EofRight
<1> QED
  BY <1>12, <1>13, <1>14, <1>16, <1>17, <1>18, <1>19 DEF PipeInv
-----------------------------------------------------------------------------
(***************************************************************************)
(* The initial state, and the theorems.                                    *)
(***************************************************************************)
LEMMA InitRight ==
    ASSUME PipelineInit
    PROVE  PipeInv
<1>1. /\ pstate = [p \in Procs |-> IF p \in {Idle, Cli} THEN "READY" ELSE "UNUSED"]
      /\ parent = [p \in Procs |-> NULL] /\ children = [p \in Procs |-> <<>>]
      /\ readyq = <<Cli, Idle>> /\ current = NULL /\ step = "none"
      /\ pipe = [q \in Pipes |-> EmptyPipe]
      /\ writers = [q \in Pipes |-> <<>>] /\ readers = [q \in Pipes |-> <<>>]
      /\ inPipe = [p \in Procs |-> NULL] /\ outPipe = [p \in Procs |-> NULL]
      /\ prog = [p \in Procs |-> IF p = Cli THEN "cli" ELSE "idle"]
      /\ pc = [p \in Procs |-> "start"]
      /\ got = [p \in Procs |-> 0] /\ next = [p \in Procs |-> 0]
      /\ remain = [p \in Procs |-> 0]
      /\ lineBuf = [g \in Programs |-> [i \in 1 .. LineSize |-> Zero]]
      /\ total = 0 /\ cmd = NoCmd /\ spawned = 0 /\ uart = <<>>
  BY DEF PipelineInit
<1>2. /\ readyq \in Seq(Procs) /\ Distinct(readyq)
      /\ \A p \in Procs : p \in ToSet(readyq) <=> p \in {Idle, Cli}
  <2>1. readyq \in Seq(Procs) /\ Len(readyq) = 2 /\ readyq[1] = Cli /\ readyq[2] = Idle
    BY <1>1, Names
  <2>2. Distinct(readyq)
    BY <2>1 DEF Distinct, Cli, Idle
  <2>3. \A u : u \in ToSet(readyq) <=> \E i \in 1 .. 2 : readyq[i] = u
    BY <2>1, ToSetFacts
  <2>4. \A p \in Procs : p \in ToSet(readyq) <=> p \in {Idle, Cli}
    BY <2>1, <2>3
  <2> QED
    BY <2>1, <2>2, <2>4
<1>3. OwnTypes
  <2>1. 0 \in 0 .. LineSize + WcBufSize /\ 0 \in 0 .. TotalMod - 1
    BY LineSizeAssumption, CountsAssumption
  <2> QED
    BY <1>1, <2>1, BytesAssumption DEF OwnTypes, Pcs
<1>4. ListTypes
  <2>1. RingOK(EmptyPipe) /\ EmptyPipe \in PipeType
    BY EmptyFacts DEF RingOK
  <2> QED
    BY <1>1, <1>2, <2>1 DEF ListTypes, ProcStates
<1>5. TableTypes
  <2>1. 0 \in 0 .. Len(NoCmd.stages)
    BY DEF NoCmd
  <2> QED
    BY <1>1, <2>1 DEF TableTypes
<1>6. SchedRight
  BY <1>1, <1>2 DEF SchedRight
<1>7. SleepRight
  <2>1. \A p \in Procs : pstate[p] # "BLOCKED"
    BY <1>1
  <2> QED
    BY <1>1, <2>1, EmptyList DEF SleepRight
<1>8. FamilyRight
  BY <1>1, EmptyList, Names DEF FamilyRight
<1>9. \A p \in Procs : Live(p) => p \in {Idle, Cli}
  BY <1>1 DEF Live
<1>10. IsIdle(Idle) /\ IsCli(Cli)
  BY <1>1, Names DEF IsIdle, IsCli, Idle, Cli
<1>11. \A p \in Procs : prog[p] \in {"cli", "idle"}
  BY <1>1
<1>12. \A p \in Procs : ~ LiveStage(p)
  BY <1>11, Names DEF LiveStage
<1>13. RolesRight
  BY <1>9, <1>10, <1>11, <1>12 DEF RolesRight
<1>14. DataRight /\ EofRight
  BY <1>11, <1>12 DEF DataRight, EofRight
<1> QED
  BY <1>3, <1>4, <1>5, <1>6, <1>7, <1>8, <1>13, <1>14, TypesParts DEF PipeInv

\* No step of the scheduler or of a program breaks the invariant.
LEMMA StepRight ==
    ASSUME PipeInv, [PipelineNext]_allVars
    PROVE  PipeInv'
<1>1. CASE SchedStep /\ UNCHANGED <<progVars, userVars>>
  BY <1>1, DispatchKeeps, YieldedKeeps, FinishedKeeps DEF SchedStep
<1>2. CASE NoInput
  BY <1>2, YieldKeeps DEF NoInput, Yield
<1>3. CASE WaitChildren
  BY <1>3, YieldKeeps DEF WaitChildren, At, Yield
<1>4. CASE MountFs
  BY <1>4, MountFsKeeps
<1>5. CASE Reap
  BY <1>5, ReapKeeps
<1>6. CASE \E c \in Commands : TypeCommand(c)
  BY <1>6, TypeCommandKeeps
<1>7. CASE SpawnStage
  BY <1>7, SpawnStageKeeps
<1>8. CASE Spawned
  BY <1>8, SpawnedKeeps
<1>9. CASE ExitShell
  BY <1>9, ExitShellKeeps
<1>10. CASE Stage
  BY <1>10, StartEchoKeeps, StartReaderKeeps, StartReadKeeps, ReadKeeps, ReadWaitKeeps,
     ReadEofKeeps, NextBlockKeeps, NextLineKeeps, LastLineKeeps, PutKeeps, PutWaitKeeps,
     PutDoneKeeps, StageExitKeeps DEF Stage
<1>11. CASE UNCHANGED allVars
  <2>1. UNCHANGED <<pstate, parent, children, readyq, current, step, pipe, readers, writers,
                    inPipe, outPipe, prog, pc, got, next, remain, lineBuf, total, cmd, spawned,
                    uart>>
    BY <1>11 DEF allVars, procVars, progVars, userVars
  <2>2. ProcTypes'
    <3>1. OwnTypes'
      BY <2>1, OwnKept DEF PipeInv
    <3>2. ListTypes'
      BY <2>1, TypesParts DEF ListTypes, PipeInv
    <3>3. TableTypes'
      BY <2>1, TypesParts DEF TableTypes, PipeInv
    <3> QED
      BY <3>1, <3>2, <3>3, TypesPrimed
  <2>3. SchedRight'
    BY <2>1 DEF PipeInv, SchedRight, Distinct
  <2>4. SleepRight'
    BY <2>1, SleepKept DEF PipeInv
  <2>5. Calm
    BY <2>1 DEF Calm, Live, IsIdle, IsCli, IsSh
  <2>6. EofRight'
    BY <2>1, <2>5, EofKept
  <2> QED
    BY <2>2, <2>3, <2>4, <2>5, <2>6, CalmKeeps DEF PipeInv
<1> QED
  BY <1>1, <1>2, <1>3, <1>4, <1>5, <1>6, <1>7, <1>8, <1>9, <1>10, <1>11 DEF PipelineNext

\* The inductive invariant holds of every run, whatever the commands, the texts, the
\* number of processes and the sizes of pipes, lines and blocks.
THEOREM PipeInvariant == PipelineSpec => []PipeInv
<1>1. PipelineInit => PipeInv
  BY InitRight
<1>2. PipeInv /\ [PipelineNext]_allVars => PipeInv'
  BY StepRight
<1> QED
  BY <1>1, <1>2, PTL DEF PipelineSpec
-----------------------------------------------------------------------------
LEMMA ContainsFacts ==
    ASSUME NEW T, NEW w \in Seq(T), NEW t
    PROVE  Contains(w, t) <=> t \in ToSet(w)
BY ToSetFacts DEF Contains

LEMMA RunnableRight ==
    ASSUME PipeInv
    PROVE  RunnableListed
<1> SUFFICES ASSUME step = "none"
             PROVE  /\ Len(readyq) = Cardinality(ToSet(readyq))
                    /\ ToSet(readyq) = {p \in Procs : pstate[p] = "READY"}
  BY DEF RunnableListed
<1>1. readyq \in Seq(Procs) /\ Distinct(readyq)
  BY DEF PipeInv, ProcTypes, PipelineTypeOK, SchedRight
<1>2. Len(readyq) = Cardinality(ToSet(readyq)) /\ ToSet(readyq) \subseteq Procs
  BY <1>1, DistinctLength, ToSetFacts
<1>3. \A p \in Procs : p \in ToSet(readyq) <=> pstate[p] = "READY"
  BY DEF PipeInv, SchedRight
<1> QED
  BY <1>2, <1>3

LEMMA SleepersRight ==
    ASSUME PipeInv
    PROVE  SleepersHaveCause
<1> SUFFICES ASSUME NEW p \in Procs, pstate[p] = "BLOCKED"
             PROVE  \E q \in Pipes :
                      \/ Contains(readers[q], p) /\ Empty(pipe[q]) /\ ~ pipe[q].eof
                      \/ Contains(writers[q], p) /\ Full(pipe[q])
  BY DEF SleepersHaveCause
<1>1. /\ readers \in [Pipes -> Seq(Procs)] /\ writers \in [Pipes -> Seq(Procs)]
      /\ inPipe[p] \in Pipes \cup {NULL} /\ outPipe[p] \in Pipes \cup {NULL}
  BY DEF PipeInv, ProcTypes, PipelineTypeOK
<1>2. CASE pc[p] = "read" /\ inPipe[p] # NULL
  <2>1. PICK q \in Pipes : q = inPipe[p]
    BY <1>1, <1>2
  <2>2. p \in ToSet(readers[q])
    BY <1>2, <2>1 DEF PipeInv, SleepRight
  <2>3. readers[q] \in Seq(Procs)
    BY <1>1
  <2>4. readers[q] # <<>> /\ Contains(readers[q], p)
    BY <2>2, <2>3, EmptyList, ContainsFacts
  <2>5. Empty(pipe[q]) /\ ~ pipe[q].eof
    BY <2>4 DEF PipeInv, SleepRight
  <2> QED
    BY <2>4, <2>5
<1>3. CASE pc[p] = "put" /\ outPipe[p] # NULL
  <2>1. PICK q \in Pipes : q = outPipe[p]
    BY <1>1, <1>3
  <2>2. p \in ToSet(writers[q])
    BY <1>3, <2>1 DEF PipeInv, SleepRight
  <2>3. writers[q] \in Seq(Procs)
    BY <1>1
  <2>4. writers[q] # <<>> /\ Contains(writers[q], p)
    BY <2>2, <2>3, EmptyList, ContainsFacts
  <2>5. Full(pipe[q])
    BY <2>4 DEF PipeInv, SleepRight
  <2> QED
    BY <2>4, <2>5
<1> QED
  BY <1>2, <1>3 DEF PipeInv, SleepRight

\* The processes that wait on a pipe, as one list.
LEMMA BothLists ==
    ASSUME PipeInv, NEW q \in Pipes
    PROVE  LET w == readers[q] \o writers[q]
           IN  /\ w \in Seq(Procs) /\ Distinct(w)
               /\ \A p \in Procs : p \in ToSet(w) =>
                    /\ pstate[p] = "BLOCKED"
                    /\ (pc[p] = "read" /\ inPipe[p] = q) \/ (pc[p] = "put" /\ outPipe[p] = q)
<1>1. /\ readers[q] \in Seq(Procs) /\ writers[q] \in Seq(Procs)
      /\ Distinct(readers[q]) /\ Distinct(writers[q])
  BY DEF PipeInv, ProcTypes, PipelineTypeOK, SleepRight
<1>2. /\ \A p \in Procs : p \in ToSet(readers[q]) =>
           pstate[p] = "BLOCKED" /\ pc[p] = "read" /\ inPipe[p] = q
      /\ \A p \in Procs : p \in ToSet(writers[q]) =>
           pstate[p] = "BLOCKED" /\ pc[p] = "put" /\ outPipe[p] = q
  BY DEF PipeInv, SleepRight
<1>3. ToSet(readers[q]) \cap ToSet(writers[q]) = {}
  <2>1. ToSet(readers[q]) \subseteq Procs
    BY <1>1, ToSetFacts
  <2> QED
    BY <1>2, <2>1
<1> DEFINE w == readers[q] \o writers[q]
<1>4. w \in Seq(Procs) /\ ToSet(w) = ToSet(readers[q]) \cup ToSet(writers[q]) /\ Distinct(w)
  BY <1>1, <1>3, ConcatFacts
<1> HIDE DEF w
<1>5. \A p \in Procs : p \in ToSet(w) =>
        /\ pstate[p] = "BLOCKED"
        /\ (pc[p] = "read" /\ inPipe[p] = q) \/ (pc[p] = "put" /\ outPipe[p] = q)
  BY <1>2, <1>4
<1> QED
  BY <1>4, <1>5 DEF w

LEMMA WaitListsRight ==
    ASSUME PipeInv
    PROVE  OneWaitList
<1> DEFINE lists == [q \in Pipes |-> readers[q] \o writers[q]]
<1>1. ASSUME NEW q \in Pipes
      PROVE  /\ lists[q] \in Seq(Procs) /\ Distinct(lists[q])
             /\ \A p \in Procs : p \in ToSet(lists[q]) =>
                  /\ pstate[p] = "BLOCKED"
                  /\ (pc[p] = "read" /\ inPipe[p] = q) \/ (pc[p] = "put" /\ outPipe[p] = q)
  <2>1. lists[q] = readers[q] \o writers[q]
    OBVIOUS
  <2> QED
    BY <2>1, BothLists
<1> HIDE DEF lists
<1>2. \A q \in Pipes : Len(lists[q]) = Cardinality(ToSet(lists[q])) /\ ToSet(lists[q]) \subseteq Procs
  BY <1>1, DistinctLength, ToSetFacts
<1>3. \A q \in Pipes : \A p \in ToSet(lists[q]) :
        /\ pstate[p] = "BLOCKED"
        /\ \A r \in Pipes \ {q} : ~ Contains(lists[r], p)
  <2> SUFFICES ASSUME NEW q \in Pipes, NEW p \in ToSet(lists[q])
               PROVE  /\ pstate[p] = "BLOCKED"
                      /\ \A r \in Pipes \ {q} : ~ Contains(lists[r], p)
    OBVIOUS
  <2>1. p \in Procs
    BY <1>2
  <2>2. /\ pstate[p] = "BLOCKED"
        /\ (pc[p] = "read" /\ inPipe[p] = q) \/ (pc[p] = "put" /\ outPipe[p] = q)
    BY <1>1, <2>1
  <2>3. ASSUME NEW r \in Pipes \ {q} PROVE ~ Contains(lists[r], p)
    <3>1. lists[r] \in Seq(Procs)
      BY <1>1
    <3>2. p \notin ToSet(lists[r])
      BY <1>1, <2>1, <2>2
    <3> QED
      BY <3>1, <3>2, ContainsFacts
  <2> QED
    BY <2>2, <2>3
<1> QED
  BY <1>2, <1>3 DEF OneWaitList, lists

LEMMA FamiliesRight ==
    ASSUME PipeInv
    PROVE  FamiliesIntact
<1>1. ASSUME NEW p \in Procs, pstate[p] # "UNUSED", parent[p] # NULL
      PROVE  Alive(parent[p]) /\ Contains(children[parent[p]], p)
  <2>1. Live(p)
    BY <1>1 DEF Live
  <2>2. PICK r \in Procs : r = parent[p]
    BY <1>1 DEF PipeInv, ProcTypes, PipelineTypeOK
  <2>3. Live(r) /\ pc[r] # "start"
    BY <1>1, <2>1, <2>2 DEF PipeInv, FamilyRight
  <2>4. IsIdle(p) \/ IsCli(p) \/ IsSh(p) \/ IsStage(p)
    BY <2>1 DEF PipeInv, RolesRight
  <2>5. r = Cli \/ prog[r] = "shell"
    BY <1>1, <2>2, <2>4 DEF IsIdle, IsCli, IsSh, IsStage
  <2>6. prog[r] = "shell" => IsSh(r)
    BY <2>3, Names DEF PipeInv, RolesRight, IsIdle, IsCli, IsStage
  <2>7. pstate[r] # "ZOMBIE" /\ pstate[r] # "UNUSED"
    BY <2>3, <2>5, <2>6, CliFacts DEF PipeInv, IsSh, IsCli, Live
  <2>8. p \in ToSet(children[r])
    BY <2>1, <2>2, <2>3 DEF PipeInv, FamilyRight
  <2>9. children[r] \in Seq(Procs)
    BY DEF PipeInv, ProcTypes, PipelineTypeOK
  <2>10. Contains(children[r], p)
    BY <2>8, <2>9, ContainsFacts
  <2> QED
    BY <2>2, <2>7, <2>10 DEF Alive
<1>2. ASSUME NEW p \in Procs, IsShell(p) \/ p = Cli, pc[p] = "start"
      PROVE  children[p] = <<>>
  <2>1. Live(p) /\ p # NULL
    BY <1>2, CliFacts, Names DEF PipeInv, IsShell, Alive, Live
  <2>2. children[p] \in Seq(Procs)
    BY DEF PipeInv, ProcTypes, PipelineTypeOK
  <2>3. \A c \in Procs : c \notin ToSet(children[p])
    BY <1>2, <2>1 DEF PipeInv, FamilyRight
  <2> QED
    BY <2>2, <2>3, ToSetFacts
<1>3. \A p \in Procs : pstate[p] # "UNUSED" /\ parent[p] # NULL =>
        Alive(parent[p]) /\ Contains(children[parent[p]], p)
  BY <1>1
<1>4. \A p \in Procs : (IsShell(p) \/ p = Cli) /\ pc[p] = "start" => children[p] = <<>>
  BY <1>2
<1> QED
  BY <1>3, <1>4 DEF FamiliesIntact

\* The ready list holds the READY processes, each once; a process waits in one list of
\* one pipe, and only while it is BLOCKED; and a parent is there until its children are
\* reaped. So for every number of processes and every order of blocking, waking, exiting
\* and reaping (saramos_scheduler.c, saramos_pipe.c, saramos_process.c).
THEOREM ListsExactHolds == PipelineSpec => []ListsExact
<1>1. PipeInv => ListsExact
  <2> SUFFICES ASSUME PipeInv PROVE ListsExact
    OBVIOUS
  <2>1. PipelineTypeOK
    BY DEF PipeInv, ProcTypes
  <2> QED
    BY <2>1, RunnableRight, WaitListsRight, FamiliesRight DEF ListsExact
<1> QED
  BY <1>1, PipeInvariant, PTL

\* No wake-up is lost: a reader sleeps only on an empty open pipe and a writer only on a
\* full one, whatever order processes read, write, exit and are woken in.
THEOREM NoLostPipeWakeup == PipelineSpec => []SleepersHaveCause
<1>1. PipeInv => SleepersHaveCause
  BY SleepersRight
<1> QED
  BY <1>1, PipeInvariant, PTL
-----------------------------------------------------------------------------
(***************************************************************************)
(* Every pipe is a channel.                                                *)
(***************************************************************************)
LEMMA ChannelStutter ==
    ASSUME UNCHANGED pipe
    PROVE  UNCHANGED Abstract!chanVars
BY DEF Abstract!chanVars

\* A byte put out goes into an open channel that has room for it.
LEMMA PutSends ==
    ASSUME PipeInv, Put
    PROVE  [Abstract!Next]_(Abstract!chanVars)
<1>1. step = "in" /\ pc[me] = "put" /\ remain[me] > 0
  BY DEF Put, At
<1>2. CASE outPipe[me] = NULL
  <2>1. UNCHANGED pipe
    BY <1>2 DEF Put
  <2> QED
    BY <2>1, ChannelStutter
<1>3. CASE outPipe[me] # NULL
  <2>1. PICK q \in Pipes : q = outPipe[me]
    <3>1. me \in Procs
      BY <1>1, MeFacts
    <3> QED
      BY <1>3, <3>1 DEF PipeInv, ProcTypes, PipelineTypeOK
  <2>2. PICK v \in Bytes : v = OutByte
    BY <1>1, OutByteFacts
  <2>3. ~ Full(pipe[q]) /\ pipe' = [pipe EXCEPT ![q] = WriteByte(pipe[q], v)]
    BY <1>3, <2>1, <2>2 DEF Put, WriteOp
  <2>4. pipe \in [Pipes -> PipeType] /\ RingOK(pipe[q])
    BY DEF PipeInv, ProcTypes, PipelineTypeOK
  <2>5. ~ pipe[q].eof
    <3>1. LiveStage(me) /\ pstate[me] = "RUNNING" /\ me \in Procs
      <4>1. prog[me] \in StagePrograms
        BY <1>1, WhoIsAt DEF StagePrograms
      <4> QED
        BY <1>1, <4>1, MeFacts
    <3> QED
      BY <1>3, <2>1, <3>1 DEF PipeInv, EofRight
  <2>6. Len(Contents(pipe[q])) < PipeSize
    BY <2>3, <2>4, RingFacts, PipeSizeAssumption DEF Full
  <2>7. /\ Contents(WriteByte(pipe[q], v)) = Append(Contents(pipe[q]), v)
        /\ WriteByte(pipe[q], v).eof = pipe[q].eof
    BY <2>3, <2>4, WriteFacts
  <2>8. /\ pipe'[q] = WriteByte(pipe[q], v)
        /\ \A r \in Pipes \ {q} : pipe'[r] = pipe[r]
    BY <2>3, <2>4
  <2>9. Abstract!Send(q, v)
    <3> DEFINE old == [r \in Pipes |-> Contents(pipe[r])]
    <3>1. [r \in Pipes |-> Contents(pipe'[r])] = [old EXCEPT ![q] = Append(old[q], v)]
      BY <2>7, <2>8
    <3>2. [r \in Pipes |-> pipe'[r].eof] = [r \in Pipes |-> pipe[r].eof]
      BY <2>7, <2>8
    <3> QED
      BY <2>5, <2>6, <3>1, <3>2 DEF Abstract!Send
  <2> QED
    BY <2>9 DEF Abstract!Next
<1> QED
  BY <1>2, <1>3

\* A byte read is the oldest one.
LEMMA ReadReceives ==
    ASSUME PipeInv, Read
    PROVE  Abstract!Next
<1>1. step = "in" /\ pc[me] = "read"
  BY DEF Read, At
<1>2. PICK q \in Pipes : q = inPipe[me]
  <2>1. prog[me] \in Programs /\ prog[me] \in StagePrograms
    BY <1>1, WhoIsAt DEF StagePrograms
  <2>2. me \in Procs /\ LiveStage(me)
    BY <1>1, <2>1, MeFacts
  <2> QED
    BY <2>1, <2>2, StageFacts DEF PipeInv
<1>3. ~ Empty(pipe[q]) /\ pipe' = [pipe EXCEPT ![q] = ReadByte(pipe[q])]
  BY <1>2 DEF Read, ReadOp
<1>4. pipe \in [Pipes -> PipeType] /\ RingOK(pipe[q])
  BY DEF PipeInv, ProcTypes, PipelineTypeOK
<1>5. /\ Contents(pipe[q]) # <<>> /\ Contents(ReadByte(pipe[q])) = Tail(Contents(pipe[q]))
      /\ ReadByte(pipe[q]).eof = pipe[q].eof
  BY <1>3, <1>4, ReadFacts
<1>6. /\ pipe'[q] = ReadByte(pipe[q])
      /\ \A r \in Pipes \ {q} : pipe'[r] = pipe[r]
  BY <1>3, <1>4
<1>7. Abstract!Receive(q)
  <2> DEFINE old == [r \in Pipes |-> Contents(pipe[r])]
  <2>1. [r \in Pipes |-> Contents(pipe'[r])] = [old EXCEPT ![q] = Tail(old[q])]
    BY <1>5, <1>6
  <2>2. [r \in Pipes |-> pipe'[r].eof] = [r \in Pipes |-> pipe[r].eof]
    BY <1>5, <1>6
  <2> QED
    BY <1>5, <2>1, <2>2 DEF Abstract!Receive
<1> QED
  BY <1>7 DEF Abstract!Next

\* A process that is over closes its channel.
LEMMA FinishedCloses ==
    ASSUME PipeInv, Finished
    PROVE  [Abstract!Next]_(Abstract!chanVars)
<1>1. CASE outPipe[current] = NULL
  <2>1. UNCHANGED pipe
    BY <1>1 DEF Finished
  <2> QED
    BY <2>1, ChannelStutter
<1>2. CASE outPipe[current] # NULL
  <2>1. PICK q \in Pipes : q = outPipe[current]
    <3>1. current \in Procs
      BY DEF PipeInv, SchedRight, Finished
    <3> QED
      BY <1>2, <3>1 DEF PipeInv, ProcTypes, PipelineTypeOK
  <2>2. pipe' = [pipe EXCEPT ![q] = Closed(pipe[q])]
    BY <1>2, <2>1 DEF Finished
  <2>3. pipe \in [Pipes -> PipeType] /\ RingOK(pipe[q])
    BY DEF PipeInv, ProcTypes, PipelineTypeOK
  <2>4. /\ Contents(Closed(pipe[q])) = Contents(pipe[q]) /\ Closed(pipe[q]).eof = TRUE
    <3>1. Closed(pipe[q]).eof = TRUE
      BY <2>3 DEF Closed, PipeType
    <3> QED
      BY <2>3, <3>1, ClosedFacts
  <2>5. /\ pipe'[q] = Closed(pipe[q])
        /\ \A r \in Pipes \ {q} : pipe'[r] = pipe[r]
    BY <2>2, <2>3
  <2>6. Abstract!Close(q)
    <3> DEFINE old == [r \in Pipes |-> pipe[r].eof]
    <3>1. [r \in Pipes |-> Contents(pipe'[r])] = [r \in Pipes |-> Contents(pipe[r])]
      BY <2>4, <2>5
    <3>2. [r \in Pipes |-> pipe'[r].eof] = [old EXCEPT ![q] = TRUE]
      BY <2>4, <2>5
    <3> QED
      BY <3>1, <3>2 DEF Abstract!Close
  <2> QED
    BY <2>6 DEF Abstract!Next
<1> QED
  BY <1>1, <1>2

\* shell_execute() opens the channels of a command anew.
LEMMA TypeCommandReopens ==
    ASSUME PipeInv, NEW c \in Commands, TypeCommand(c)
    PROVE  Abstract!Next
<1> DEFINE S == {q \in Pipes : q < Len(c.stages)}
<1>1. pipe' = [q \in Pipes |-> IF q \in S THEN EmptyPipe ELSE pipe[q]]
  BY DEF TypeCommand
<1>2. S \in SUBSET Pipes
  OBVIOUS
<1> HIDE DEF S
<1>3. \A q \in Pipes : pipe[q] \in PipeType /\ pipe[q].eof \in BOOLEAN
  BY DEF PipeInv, ProcTypes, PipelineTypeOK, PipeType
<1>4. Contents(EmptyPipe) = <<>> /\ EmptyPipe.eof = FALSE
  BY EmptyFacts DEF EmptyPipe
<1>5. [q \in Pipes |-> Contents(pipe'[q])]
        = [q \in Pipes |-> IF q \in S THEN <<>> ELSE Contents(pipe[q])]
  BY <1>1, <1>4
<1>6. [q \in Pipes |-> pipe'[q].eof] = [q \in Pipes |-> pipe[q].eof /\ q \notin S]
  <2>1. ASSUME NEW q \in Pipes PROVE pipe'[q].eof = (pipe[q].eof /\ q \notin S)
    <3>1. CASE q \in S
      BY <1>1, <1>4, <3>1
    <3>2. CASE q \notin S
      BY <1>1, <1>3, <3>2
    <3> QED
      BY <3>1, <3>2
  <2> QED
    BY <2>1
<1>7. Abstract!Reopen(S)
  BY <1>5, <1>6 DEF Abstract!Reopen
<1> QED
  BY <1>2, <1>7 DEF Abstract!Next

LEMMA StepImplements ==
    ASSUME PipeInv, [PipelineNext]_allVars
    PROVE  [Abstract!Next]_(Abstract!chanVars)
<1>1. CASE SchedStep
  <2>1. CASE Finished
    BY <2>1, FinishedCloses
  <2>2. CASE Dispatch \/ Yielded
    BY <2>2, ChannelStutter DEF Dispatch, Yielded
  <2> QED
    BY <1>1, <2>1, <2>2 DEF SchedStep
<1>2. CASE NoInput \/ WaitChildren \/ MountFs \/ Reap \/ SpawnStage \/ Spawned \/ ExitShell
  <2>1. UNCHANGED pipe
    BY <1>2 DEF NoInput, WaitChildren, MountFs, Reap, SpawnStage, Spawned, ExitShell, procVars
  <2> QED
    BY <2>1, ChannelStutter
<1>3. CASE \E c \in Commands : TypeCommand(c)
  BY <1>3, TypeCommandReopens
<1>4. CASE Put
  BY <1>4, PutSends
<1>5. CASE Read
  BY <1>5, ReadReceives
<1>6. CASE Stage /\ ~ Put /\ ~ Read
  <2>1. CASE StartEcho \/ StartReader \/ StartRead \/ ReadEof \/ NextBlock \/ NextLine
    <3>1. UNCHANGED pipe
      BY <2>1 DEF StartEcho, StartReader, StartRead, ReadEof, NextBlock, NextLine, procVars
    <3> QED
      BY <3>1, ChannelStutter
  <2>2. CASE ReadWait \/ LastLine \/ PutWait \/ PutDone \/ StageExit
    <3>1. UNCHANGED pipe
      BY <2>2 DEF ReadWait, LastLine, PutWait, PutDone, StageExit
    <3> QED
      BY <3>1, ChannelStutter
  <2> QED
    BY <1>6, <2>1, <2>2 DEF Stage
<1>7. CASE UNCHANGED allVars
  <2>1. UNCHANGED pipe
    BY <1>7 DEF allVars, procVars
  <2> QED
    BY <2>1, ChannelStutter
<1> QED
  BY <1>1, <1>2, <1>3, <1>4, <1>5, <1>6, <1>7 DEF PipelineNext, Stage

\* The ring of every pipe is a first-in first-out channel of its size: nothing is lost,
\* doubled or overtaken at the wrap, nothing is written to a full or a closed pipe, and
\* what a process has written before it ends is still there for the reader.
THEOREM ImplementsChannelsCorrect == PipelineSpec => ImplementsChannels
<1>1. PipelineInit => Abstract!Init
  <2> SUFFICES ASSUME PipelineInit PROVE Abstract!Init
    OBVIOUS
  <2>1. pipe = [q \in Pipes |-> EmptyPipe]
    BY DEF PipelineInit
  <2>2. Contents(EmptyPipe) = <<>> /\ EmptyPipe.eof = FALSE
    BY EmptyFacts DEF EmptyPipe
  <2> QED
    BY <2>1, <2>2 DEF Abstract!Init
<1>2. PipeInv /\ [PipelineNext]_allVars => [Abstract!Next]_(Abstract!chanVars)
  BY StepImplements
<1> QED
  BY <1>1, <1>2, PipeInvariant, PTL DEF PipelineSpec, ImplementsChannels, Abstract!Spec
-----------------------------------------------------------------------------
(***************************************************************************)
(* The text that comes out.  What a stage has still to put out is a        *)
(* function of what it has read and of what will come to it; the stages    *)
(* one after the other, with what is in the pipes between them, put out    *)
(* the rest of the command's text.                                         *)
(***************************************************************************)

\* What a line program with the option o makes of the text t, of a line l, and the
\* option it goes on with after that.
Through(g, o, t) ==
    CASE g = "cat"  -> t
      [] g = "grep" -> GrepText(t, o)
      [] g = "head" -> HeadText(t, o)
LineText(g, o, l) ==
    CASE g = "grep" -> IF Contains(l, o) THEN Append(l, NL) ELSE <<>>
      [] g # "grep" -> l
Less(g, o) == IF g = "head" THEN o - 1 ELSE o

\* The option a program works with, and the line it has or reads.
Option(g)   == IF g = "grep" THEN pat ELSE IF g = "head" THEN limit ELSE NULL
LineOf(p)   == SubSeq(lineBuf[prog[p]], 1, got[p])
PutLine(p)  == IF prog[p] = "grep" THEN Append(LineOf(p), NL) ELSE LineOf(p)

\* What is left to come out of the process p, when t is left to come into it.
LineRest(p, t) ==
    LET g == prog[p]
        o == Option(g)
    IN  CASE pc[p] = "loop" -> Through(g, o, t)
          [] pc[p] = "read" -> Through(g, o, LineOf(p) \o t)
          [] pc[p] = "line" -> LineText(g, o, LineOf(p)) \o Through(g, Less(g, o), t)
          [] pc[p] = "put"  -> SubSeq(PutLine(p), next[p] + 1, Len(PutLine(p)))
                               \o Through(g, Less(g, o), t)
CountRest(p, t) ==
    CASE pc[p] = "loop" -> <<(total + Len(t)) % TotalMod, NL>>
      [] pc[p] \in {"read", "line"} -> <<(total + (got[p] + Len(t))) % TotalMod, NL>>
      [] pc[p] = "put"  -> SubSeq(<<total, NL>>, 3 - remain[p], 2)
Rest(p, t) ==
    IF pstate[p] = "ZOMBIE" THEN <<>>
    ELSE IF pc[p] = "start" THEN StageText(t, cmd.stages[StageNo(p)])
    ELSE IF prog[p] = "echo" THEN SubSeq(cmd.input, next[p] + 1, Len(cmd.input))
    ELSE IF prog[p] = "wc" THEN CountRest(p, t)
    ELSE LineRest(p, t)

\* What is in the pipe that stage i reads.
Inflow(i) == IF i = 1 THEN <<>> ELSE Contents(pipe[i - 1])

\* left[i] is left to come out of stage i, and the last one's is what the UART lacks.
Flow(left) ==
    /\ left \in [0 .. Len(cmd.stages) -> Seq(Bytes)]
    /\ left[0] = cmd.input
    /\ \A i \in 1 .. Len(cmd.stages) : spawned < i =>
         left[i] = StageText(Inflow(i) \o left[i - 1], cmd.stages[i])
    /\ \A p \in Procs : LiveStage(p) =>
         left[StageNo(p)] = Rest(p, Inflow(StageNo(p)) \o left[StageNo(p) - 1])
    /\ \A i \in 1 .. spawned :
         (\A p \in Procs : LiveStage(p) => StageNo(p) # i) => left[i] = <<>>
    /\ uart \o left[Len(cmd.stages)] = FoldLeft(StageText, cmd.input, cmd.stages)

\* The static locals of a stage that is not over: its options are its own, the line it
\* reads has no end yet, head has lines to go, and wc puts out its two bytes.
LocalOf(p) ==
    /\ pc[p] = "start" => arg[p] = cmd.stages[StageNo(p)].arg
    /\ prog[p] \in Bytewise /\ pc[p] = "read" => \A i \in 1 .. got[p] : lineBuf[prog[p]][i] # NL
    /\ prog[p] = "head" /\ pc[p] # "start" =>
         limit \in Nat /\ (pc[p] \in {"read", "line", "put"} => limit > 0)
    /\ prog[p] = "wc" /\ pc[p] = "put" => remain[p] \in 0 .. 2
LocalsRight ==
    \A p \in Procs : LiveStage(p) /\ pstate[p] # "ZOMBIE" => LocalOf(p)

\* p->argv is a field of every process.
ArgsRight == arg = [p \in Procs |-> arg[p]]

TextRight == LocalsRight /\ \E left : Flow(left)
TextInv   == ArgsRight /\ (Unshared(cmd) => TextRight)
-----------------------------------------------------------------------------
\* The first line of a text that is not empty.
LEMMA LineLenFacts ==
    ASSUME NEW s \in Seq(Bytes), s # <<>>
    PROVE  /\ LineLen(s) \in 1 .. Len(s)
           /\ s[LineLen(s)] = NL \/ LineLen(s) = LineSize - 1 \/ LineLen(s) = Len(s)
           /\ \A i \in 1 .. Len(s) :
                s[i] = NL \/ i = LineSize - 1 \/ i = Len(s) => LineLen(s) <= i
<1> DEFINE S == {i \in 1 .. Len(s) : s[i] = NL \/ i = LineSize - 1 \/ i = Len(s)}
<1>1. Len(s) \in Nat /\ Len(s) # 0
  OBVIOUS
<1>2. S \in SUBSET Nat /\ Len(s) \in S
  BY <1>1
<1>3. LineLen(s) = Min(S)
  BY DEF LineLen
<1>4. LineLen(s) \in S /\ \A y \in S : LineLen(s) <= y
  <2> HIDE DEF S
  <2> QED
    BY <1>2, <1>3, MinOfNats
<1> QED
  BY <1>4

FirstLine(s) == SubSeq(s, 1, LineLen(s))
OtherLines(s) == SubSeq(s, LineLen(s) + 1, Len(s))

LEMMA CutFacts ==
    ASSUME NEW s \in Seq(Bytes), s # <<>>
    PROVE  /\ FirstLine(s) \in Seq(Bytes) /\ OtherLines(s) \in Seq(Bytes)
           /\ Len(OtherLines(s)) < Len(s)
<1>1. LineLen(s) \in 1 .. Len(s) /\ Len(s) \in Nat
  BY LineLenFacts
<1> DEFINE k == LineLen(s)
<1> HIDE DEF k
<1>2. /\ SubSeq(s, 1, k) \in Seq(Bytes) /\ SubSeq(s, k + 1, Len(s)) \in Seq(Bytes)
      /\ Len(SubSeq(s, k + 1, Len(s))) < Len(s)
  <2>1. k \in 1 .. Len(s) /\ Len(s) \in Nat
    BY <1>1 DEF k
  <2> QED
    BY <2>1
<1> QED
  BY <1>2 DEF k, FirstLine, OtherLines

\* Lines up to a length, as Lines is chosen.
Texts(n) == {s \in Seq(Bytes) : Len(s) <= n}
Cut(f, s) == IF s = <<>> THEN <<>> ELSE <<FirstLine(s)>> \o f[OtherLines(s)]
LinesIter(f, n) == f = [s \in Texts(n) |-> Cut(f, s)]

LEMMA LinesIterExists ==
    ASSUME NEW N \in Nat
    PROVE  \E f : LinesIter(f, N)
<1> DEFINE S == {n \in Nat : \E f : LinesIter(f, n)}
<1>1. 0 \in S
  <2> DEFINE f == [s \in Texts(0) |-> <<>>]
  <2>1. \A s \in Texts(0) : s = <<>>
    BY DEF Texts
  <2>2. \A s \in Texts(0) : Cut(f, s) = <<>>
    BY <2>1 DEF Cut
  <2>3. LinesIter(f, 0)
    BY <2>2 DEF LinesIter
  <2> QED
    BY <2>3
<1>2. ASSUME NEW n \in 0 .. N - 1, n \in S PROVE n + 1 \in S
  <2>1. PICK f : LinesIter(f, n)
    BY <1>2
  <2> DEFINE g == [s \in Texts(n + 1) |-> IF s \in Texts(n) THEN f[s] ELSE Cut(f, s)]
  <2>2. ASSUME NEW s \in Texts(n + 1) PROVE g[s] = Cut(g, s)
    <3>1. CASE s = <<>>
      <4>1. s \in Texts(n) /\ Cut(g, s) = <<>> /\ Cut(f, s) = <<>>
        BY <3>1 DEF Texts, Cut
      <4>2. f[s] = Cut(f, s)
        BY <2>1, <4>1 DEF LinesIter
      <4> QED
        BY <4>1, <4>2
    <3>2. CASE s # <<>>
      <4>1. s \in Seq(Bytes) /\ Len(s) <= n + 1 /\ Len(s) \in Nat
        BY DEF Texts
      <4>2. OtherLines(s) \in Seq(Bytes) /\ Len(OtherLines(s)) < Len(s)
        BY <3>2, <4>1, CutFacts
      <4>3. OtherLines(s) \in Texts(n) /\ OtherLines(s) \in Texts(n + 1)
        <5>1. PICK o : o = OtherLines(s)
          OBVIOUS
        <5>2. o \in Seq(Bytes) /\ Len(o) < Len(s) /\ Len(o) \in Nat
          BY <4>2, <5>1
        <5>3. o \in Texts(n) /\ o \in Texts(n + 1)
          BY <4>1, <5>2 DEF Texts
        <5> QED
          BY <5>1, <5>3
      <4>4. g[OtherLines(s)] = f[OtherLines(s)]
        BY <4>3
      <4>5. Cut(g, s) = Cut(f, s)
        BY <4>4 DEF Cut
      <4>6. s \in Texts(n) => f[s] = Cut(f, s)
        BY <2>1 DEF LinesIter
      <4> QED
        BY <4>5, <4>6
    <3> QED
      BY <3>1, <3>2
  <2>3. g = [s \in Texts(n + 1) |-> Cut(g, s)]
    <3> DEFINE h == [s \in Texts(n + 1) |-> Cut(g, s)]
    <3>1. \A s \in Texts(n + 1) : g[s] = h[s]
      BY <2>2
    <3> QED
      BY <3>1
  <2>4. LinesIter(g, n + 1)
    BY <2>3 DEF LinesIter
  <2> HIDE DEF g
  <2> QED
    BY <2>4
<1>3. \A n \in 0 .. N : n \in S
  <2> HIDE DEF S
  <2> QED
    BY <1>1, <1>2, UpTo
<1> QED
  BY <1>3

\* They agree where both are defined.
LEMMA LinesIterSame ==
    ASSUME NEW n \in Nat, NEW m \in Nat, NEW f, NEW g, LinesIter(f, n), LinesIter(g, m),
           n <= m, NEW s \in Texts(n)
    PROVE  f[s] = g[s]
<1> DEFINE S == {k \in Nat : \A t \in Texts(n) : Len(t) <= k => f[t] = g[t]}
<1>1. \A t \in Texts(n) : t \in Texts(m) /\ t \in Seq(Bytes) /\ Len(t) \in Nat /\ Len(t) <= n
  BY DEF Texts
<1>2. \A t \in Texts(n) : f[t] = Cut(f, t) /\ g[t] = Cut(g, t)
  BY <1>1 DEF LinesIter
<1>3. 0 \in S
  <2>1. ASSUME NEW t \in Texts(n), Len(t) <= 0 PROVE f[t] = g[t]
    <3>1. t = <<>>
      BY <1>1, <2>1
    <3> QED
      BY <1>2, <3>1 DEF Cut
  <2> QED
    BY <2>1
<1>4. ASSUME NEW k \in 0 .. n - 1, k \in S PROVE k + 1 \in S
  <2>1. ASSUME NEW t \in Texts(n), Len(t) <= k + 1 PROVE f[t] = g[t]
    <3>1. CASE t = <<>>
      BY <1>2, <3>1 DEF Cut
    <3>2. CASE t # <<>>
      <4>1. PICK o : o = OtherLines(t)
        OBVIOUS
      <4>2. o \in Seq(Bytes) /\ Len(o) < Len(t) /\ Len(o) \in Nat
        BY <1>1, <3>2, <4>1, CutFacts
      <4>3. o \in Texts(n) /\ Len(o) <= k
        BY <1>1, <2>1, <4>2 DEF Texts
      <4>4. f[o] = g[o]
        BY <1>4, <4>3
      <4> QED
        BY <1>2, <4>1, <4>4 DEF Cut
    <3> QED
      BY <3>1, <3>2
  <2> QED
    BY <2>1
<1>5. \A k \in 0 .. n : k \in S
  <2> HIDE DEF S
  <2> QED
    BY <1>3, <1>4, UpTo
<1> QED
  BY <1>1, <1>5

\* The lines of a text are its first one and those of the rest.
LEMMA LinesCut ==
    ASSUME NEW s \in Seq(Bytes)
    PROVE  Lines[s] = Cut(Lines, s)
<1> DEFINE P(f) == f = [t \in Seq(Bytes) |-> Cut(f, t)]
           Up(n) == CHOOSE f : LinesIter(f, n)
           F == [t \in Seq(Bytes) |-> Up(Len(t))[t]]
<1>1. \A n \in Nat : LinesIter(Up(n), n)
  BY LinesIterExists
<1> HIDE DEF Up
<1>2. ASSUME NEW t \in Seq(Bytes) PROVE F[t] = Cut(F, t)
  <2>1. Len(t) \in Nat /\ t \in Texts(Len(t))
    BY DEF Texts
  <2>2. Up(Len(t))[t] = Cut(Up(Len(t)), t)
    BY <1>1, <2>1 DEF LinesIter
  <2>3. CASE t = <<>>
    BY <2>2, <2>3 DEF Cut
  <2>4. CASE t # <<>>
    <3>1. PICK o : o = OtherLines(t)
      OBVIOUS
    <3>2. o \in Seq(Bytes) /\ Len(o) < Len(t) /\ Len(o) \in Nat
      BY <2>4, <3>1, CutFacts
    <3>3. o \in Texts(Len(o)) /\ Len(o) <= Len(t)
      BY <2>1, <3>2 DEF Texts
    <3>4. Up(Len(o))[o] = Up(Len(t))[o]
      BY <1>1, <2>1, <3>2, <3>3, LinesIterSame
    <3>5. F[o] = Up(Len(t))[o]
      BY <3>2, <3>4
    <3> QED
      BY <2>2, <2>4, <3>1, <3>5 DEF Cut
  <2> QED
    BY <2>3, <2>4
<1>3. P(F)
  <2> DEFINE G == [t \in Seq(Bytes) |-> Cut(F, t)]
  <2>1. \A t \in Seq(Bytes) : F[t] = G[t]
    BY <1>2
  <2> HIDE DEF Up
  <2> QED
    BY <2>1
<1>4. Lines = CHOOSE f : P(f)
  BY Zenon DEF Lines, Cut, FirstLine, OtherLines
<1> HIDE DEF F
<1>5. P(Lines)
  <2> HIDE DEF P
  <2> QED
    BY <1>3, <1>4
<1> QED
  BY <1>5
LEMMA LinesType ==
    ASSUME NEW s \in Seq(Bytes)
    PROVE  Lines[s] \in Seq(Seq(Bytes))
<1> DEFINE S == {k \in Nat : \A t \in Seq(Bytes) : Len(t) <= k => Lines[t] \in Seq(Seq(Bytes))}
<1>1. 0 \in S
  <2>1. ASSUME NEW t \in Seq(Bytes), Len(t) <= 0 PROVE Lines[t] \in Seq(Seq(Bytes))
    <3>1. t = <<>>
      BY <2>1
    <3>2. Lines[t] = <<>>
      BY <3>1, LinesCut DEF Cut
    <3> QED
      BY <3>2
  <2> QED
    BY <2>1
<1>2. ASSUME NEW k \in 0 .. Len(s) - 1, k \in S PROVE k + 1 \in S
  <2>1. ASSUME NEW t \in Seq(Bytes), Len(t) <= k + 1 PROVE Lines[t] \in Seq(Seq(Bytes))
    <3>1. CASE t = <<>>
      <4>1. Lines[t] = <<>>
        BY <3>1, LinesCut DEF Cut
      <4> QED
        BY <4>1
    <3>2. CASE t # <<>>
      <4>1. PICK o : o = OtherLines(t)
        OBVIOUS
      <4>2. PICK l : l = FirstLine(t)
        OBVIOUS
      <4>3. o \in Seq(Bytes) /\ Len(o) < Len(t) /\ Len(o) \in Nat /\ Len(t) \in Nat /\ l \in Seq(Bytes)
        BY <3>2, <4>1, <4>2, CutFacts
      <4>4. Len(o) <= k
        BY <2>1, <4>3
      <4>5. Lines[o] \in Seq(Seq(Bytes))
        BY <1>2, <4>3, <4>4
      <4>6. Lines[t] = <<l>> \o Lines[o]
        BY <3>2, <4>1, <4>2, LinesCut DEF Cut
      <4> QED
        BY <4>3, <4>5, <4>6
    <3> QED
      BY <3>1, <3>2
  <2> QED
    BY <2>1
<1>3. Len(s) \in Nat
  OBVIOUS
<1>4. \A k \in 0 .. Len(s) : k \in S
  <2> HIDE DEF S
  <2> QED
    BY <1>1, <1>2, <1>3, UpTo
<1> QED
  BY <1>3, <1>4

LEMMA NoLines == Lines[<<>>] = <<>>
<1>1. <<>> \in Seq(Bytes)
  OBVIOUS
<1> QED
  BY <1>1, LinesCut DEF Cut

\* l is a line when t follows: no end in it, and one after it.
Ended(l, t) ==
    /\ l # <<>>
    /\ \A i \in 1 .. Len(l) - 1 : l[i] # NL /\ i < LineSize - 1
    /\ l[Len(l)] = NL \/ Len(l) = LineSize - 1 \/ t = <<>>

LEMMA LinesEnded ==
    ASSUME NEW l \in Seq(Bytes), NEW t \in Seq(Bytes), Ended(l, t)
    PROVE  Lines[l \o t] = <<l>> \o Lines[t]
<1> DEFINE s == l \o t
           k == LineLen(s)
           n == Len(l)
<1>1. /\ s \in Seq(Bytes) /\ n \in Nat /\ n # 0 /\ Len(t) \in Nat /\ Len(s) = n + Len(t)
      /\ \A i \in 1 .. n : s[i] = l[i]
      /\ s # <<>>
      /\ t = <<>> => Len(t) = 0
  <2>1. l # <<>>
    BY DEF Ended
  <2> QED
    BY <2>1
<1>2. SubSeq(s, 1, n) = l /\ SubSeq(s, n + 1, Len(s)) = t
  OBVIOUS
<1>3. /\ \A i \in 1 .. n - 1 : l[i] # NL /\ i < LineSize - 1
      /\ l[n] = NL \/ n = LineSize - 1 \/ t = <<>>
  BY DEF Ended
<1> HIDE DEF s
<1>4. /\ k \in 1 .. Len(s)
      /\ s[k] = NL \/ k = LineSize - 1 \/ k = Len(s)
      /\ \A i \in 1 .. Len(s) : s[i] = NL \/ i = LineSize - 1 \/ i = Len(s) => k <= i
  BY <1>1, LineLenFacts
<1> HIDE DEF k, n
<1>5. k <= n
  <2>1. n \in 1 .. Len(s) /\ s[n] = l[n] /\ (t = <<>> => n = Len(s))
    BY <1>1
  <2> QED
    BY <1>3, <1>4, <2>1
<1>6. k = n
  <2>1. ASSUME k < n PROVE FALSE
    <3>1. k \in 1 .. n - 1 /\ k \in 1 .. n /\ k # Len(s)
      BY <1>1, <1>4, <2>1
    <3>2. s[k] # NL /\ k < LineSize - 1
      BY <1>1, <1>3, <3>1
    <3> QED
      BY <1>4, <3>1, <3>2, LineSizeAssumption
  <2> QED
    BY <1>1, <1>4, <1>5, <2>1
<1>7. FirstLine(s) = l /\ OtherLines(s) = t
  BY <1>2, <1>6 DEF FirstLine, OtherLines, k
<1>8. Lines[s] = <<l>> \o Lines[t]
  BY <1>1, <1>7, LinesCut DEF Cut
<1> QED
  BY <1>8 DEF s
-----------------------------------------------------------------------------
\* grep and head, a line at a time.
Hit(l, c) == IF Contains(l, c) THEN Append(l, NL) ELSE <<>>
Hits(w, c) == [i \in 1 .. Len(w) |-> Hit(w[i], c)]
Prefix(w, n) == SubSeq(w, 1, IF n <= Len(w) THEN n ELSE Len(w))

LEMMA HitType ==
    ASSUME NEW l \in Seq(Bytes), NEW c
    PROVE  Hit(l, c) \in Seq(Bytes)
BY NLAssumption DEF Hit

LEMMA HitsFacts ==
    ASSUME NEW w \in Seq(Seq(Bytes)), NEW l \in Seq(Bytes), NEW c
    PROVE  /\ Hits(w, c) \in Seq(Seq(Bytes))
           /\ Hits(<<l>> \o w, c) = <<Hit(l, c)>> \o Hits(w, c)
<1> DEFINE r == <<l>> \o w
           N == Len(w)
           a == Hits(w, c)
           b == Hits(r, c)
<1>1. /\ N \in Nat /\ Len(r) = N + 1 /\ r[1] = l /\ r \in Seq(Seq(Bytes))
      /\ \A i \in 1 .. N : r[i + 1] = w[i]
      /\ \A i \in 1 .. N : w[i] \in Seq(Bytes)
      /\ \A i \in 1 .. N + 1 : r[i] \in Seq(Bytes)
  OBVIOUS
<1> HIDE DEF r
<1>2. a = [i \in 1 .. N |-> Hit(w[i], c)] /\ b = [i \in 1 .. N + 1 |-> Hit(r[i], c)]
  BY <1>1 DEF Hits
<1> HIDE DEF a, b, N
<1>3. a \in Seq(Seq(Bytes)) /\ b \in Seq(Seq(Bytes)) /\ Len(a) = N /\ Len(b) = N + 1
  <2>1. \A i \in 1 .. N : Hit(w[i], c) \in Seq(Bytes)
    BY <1>1, HitType
  <2>2. \A i \in 1 .. N + 1 : Hit(r[i], c) \in Seq(Bytes)
    BY <1>1, HitType
  <2> QED
    BY <1>1, <1>2, <2>1, <2>2
<1>4. \A i \in 1 .. N : a[i] = Hit(w[i], c)
  BY <1>2
<1>5. \A i \in 1 .. N + 1 : b[i] = Hit(r[i], c)
  BY <1>2
<1>9. PICK h : h = Hit(l, c)
  OBVIOUS
<1> DEFINE d == <<h>> \o a
<1>6. /\ d \in Seq(Seq(Bytes)) /\ Len(d) = N + 1 /\ d[1] = Hit(l, c)
      /\ \A i \in 1 .. N : d[i + 1] = a[i]
  <2>1. h \in Seq(Bytes)
    BY <1>9, HitType
  <2>2. /\ d \in Seq(Seq(Bytes)) /\ Len(d) = N + 1 /\ d[1] = h
        /\ \A i \in 1 .. N : d[i + 1] = a[i]
    BY <1>1, <1>3, <2>1
  <2> QED
    BY <1>9, <2>2
<1> HIDE DEF d
<1>7. \A i \in 1 .. N + 1 : b[i] = d[i]
  <2>1. ASSUME NEW i \in 1 .. N + 1 PROVE b[i] = d[i]
    <3>1. CASE i = 1
      BY <1>1, <1>5, <1>6, <3>1
    <3>2. CASE i # 1
      <4>1. PICK j : j = i - 1
        OBVIOUS
      <4>2. j \in 1 .. N /\ i = j + 1
        BY <1>1, <3>2, <4>1
      <4> QED
        BY <1>1, <1>4, <1>5, <1>6, <4>2
    <3> QED
      BY <3>1, <3>2
  <2> QED
    BY <2>1
<1>8. b = d
  BY <1>3, <1>6, <1>7, SameSeq
<1> QED
  BY <1>3, <1>8, <1>9 DEF a, b, d, r

LEMMA PrefixFacts ==
    ASSUME NEW w \in Seq(Seq(Bytes)), NEW l \in Seq(Bytes), NEW n \in Nat
    PROVE  /\ Prefix(w, n) \in Seq(Seq(Bytes))
           /\ n > 0 => Prefix(<<l>> \o w, n) = <<l>> \o Prefix(w, n - 1)
           /\ n = 0 => Prefix(w, n) = <<>>
           /\ w = <<>> => Prefix(w, n) = <<>>
<1>1. Prefix(w, n) \in Seq(Seq(Bytes))
  BY DEF Prefix
<1>2. n = 0 => Prefix(w, n) = <<>>
  BY DEF Prefix
<1>3. w = <<>> => Prefix(w, n) = <<>>
  BY DEF Prefix
<1>4. ASSUME n > 0 PROVE Prefix(<<l>> \o w, n) = <<l>> \o Prefix(w, n - 1)
  <2> DEFINE r == <<l>> \o w
             N == Len(w)
             k == IF n <= N + 1 THEN n ELSE N + 1
             a == SubSeq(r, 1, k)
             b == SubSeq(w, 1, k - 1)
             d == <<l>> \o b
  <2>1. /\ N \in Nat /\ Len(r) = N + 1 /\ r[1] = l /\ r \in Seq(Seq(Bytes))
        /\ \A i \in 1 .. N : r[i + 1] = w[i]
    OBVIOUS
  <2> HIDE DEF r
  <2>2. k \in 1 .. N + 1 /\ k - 1 = IF n - 1 <= N THEN n - 1 ELSE N
    BY <1>4, <2>1
  <2>3. Prefix(r, n) = a /\ Prefix(w, n - 1) = b
    BY <2>1, <2>2 DEF Prefix
  <2> HIDE DEF k
  <2>4. /\ a \in Seq(Seq(Bytes)) /\ Len(a) = k /\ \A i \in 1 .. k : a[i] = r[i]
    BY <2>1, <2>2
  <2>5. /\ b \in Seq(Seq(Bytes)) /\ Len(b) = k - 1 /\ \A i \in 1 .. k - 1 : b[i] = w[i]
    BY <2>1, <2>2
  <2> HIDE DEF a, b
  <2>6. /\ d \in Seq(Seq(Bytes)) /\ Len(d) = k /\ d[1] = l
        /\ \A i \in 1 .. k - 1 : d[i + 1] = b[i]
    BY <2>2, <2>5
  <2> HIDE DEF d
  <2>7. ASSUME NEW i \in 1 .. k PROVE a[i] = d[i]
    <3>1. CASE i = 1
      BY <2>1, <2>4, <2>6, <3>1
    <3>2. CASE i # 1
      <4>1. PICK j : j = i - 1
        OBVIOUS
      <4>2. j \in 1 .. k - 1 /\ j \in 1 .. N /\ i = j + 1
        BY <2>1, <2>2, <3>2, <4>1
      <4> QED
        BY <2>1, <2>4, <2>5, <2>6, <4>2
    <3> QED
      BY <3>1, <3>2
  <2>8. a = d
    BY <2>4, <2>6, <2>7, SameSeq
  <2> QED
    BY <2>3, <2>8 DEF d, r
<1> QED
  BY <1>1, <1>2, <1>3, <1>4

LEMMA TextsByLines ==
    ASSUME NEW s \in Seq(Bytes), NEW c, NEW n \in Nat
    PROVE  /\ GrepText(s, c) = FlattenSeq(Hits(Lines[s], c))
           /\ HeadText(s, n) = FlattenSeq(Prefix(Lines[s], n))
<1>1. GrepText(s, c) = FlattenSeq(Hits(Lines[s], c))
  BY DEF GrepText, Hits, Hit
<1>2. PICK w : w = Lines[s]
  OBVIOUS
<1>3. Len(w) \in Nat
  BY <1>2, LinesType
<1>4. Min({n, Len(w)}) = IF n <= Len(w) THEN n ELSE Len(w)
  <2>1. {n, Len(w)} \in SUBSET Nat /\ {n, Len(w)} # {}
    BY <1>3
  <2>2. Min({n, Len(w)}) \in {n, Len(w)} /\ \A y \in {n, Len(w)} : Min({n, Len(w)}) <= y
    BY <2>1, MinOfNats
  <2> QED
    BY <1>3, <2>2
<1>5. HeadText(s, n) = FlattenSeq(Prefix(w, n))
  BY <1>2, <1>4 DEF HeadText, Prefix
<1> QED
  BY <1>1, <1>2, <1>5

LEMMA GrepLine ==
    ASSUME NEW l \in Seq(Bytes), NEW t \in Seq(Bytes), NEW c, Ended(l, t)
    PROVE  GrepText(l \o t, c) = Hit(l, c) \o GrepText(t, c)
<1>1. l \o t \in Seq(Bytes)
  OBVIOUS
<1>2. PICK w : w = Lines[t]
  OBVIOUS
<1>3. w \in Seq(Seq(Bytes)) /\ Lines[l \o t] = <<l>> \o w
  BY <1>2, LinesType, LinesEnded
<1>4. Hits(<<l>> \o w, c) = <<Hit(l, c)>> \o Hits(w, c) /\ Hits(w, c) \in Seq(Seq(Bytes))
  BY <1>3, HitsFacts
<1>5. Hit(l, c) \in Seq(Bytes)
  BY HitType
<1>6. FlattenSeq(<<Hit(l, c)>> \o Hits(w, c)) = Hit(l, c) \o FlattenSeq(Hits(w, c))
  BY <1>4, <1>5, FlattenCons
<1>7. /\ GrepText(l \o t, c) = FlattenSeq(Hits(Lines[l \o t], c))
      /\ GrepText(t, c) = FlattenSeq(Hits(Lines[t], c))
  <2>1. 0 \in Nat
    OBVIOUS
  <2> QED
    BY <1>1, <2>1, TextsByLines
<1> QED
  BY <1>2, <1>3, <1>4, <1>6, <1>7

LEMMA HeadLine ==
    ASSUME NEW l \in Seq(Bytes), NEW t \in Seq(Bytes), NEW n \in Nat, n > 0, Ended(l, t)
    PROVE  HeadText(l \o t, n) = l \o HeadText(t, n - 1)
<1>1. l \o t \in Seq(Bytes) /\ n - 1 \in Nat
  OBVIOUS
<1>2. PICK w : w = Lines[t]
  OBVIOUS
<1>3. w \in Seq(Seq(Bytes)) /\ Lines[l \o t] = <<l>> \o w
  BY <1>2, LinesType, LinesEnded
<1>4. Prefix(<<l>> \o w, n) = <<l>> \o Prefix(w, n - 1)
  BY <1>3, PrefixFacts
<1>5. Prefix(w, n - 1) \in Seq(Seq(Bytes))
  BY <1>1, <1>3, PrefixFacts
<1>6. FlattenSeq(<<l>> \o Prefix(w, n - 1)) = l \o FlattenSeq(Prefix(w, n - 1))
  BY <1>5, FlattenCons
<1>7. HeadText(l \o t, n) = FlattenSeq(Prefix(Lines[l \o t], n))
  BY <1>1, TextsByLines
<1>8. HeadText(t, n - 1) = FlattenSeq(Prefix(Lines[t], n - 1))
  BY <1>1, TextsByLines
<1> QED
  BY <1>2, <1>3, <1>4, <1>6, <1>7, <1>8

LEMMA FlattenNone == FlattenSeq(<<>>) = <<>>
<1>1. Len(<<>>) = 0
  OBVIOUS
<1> QED
  BY <1>1 DEF FlattenSeq

LEMMA GrepFacts ==
    ASSUME NEW t \in Seq(Bytes), NEW c
    PROVE  GrepText(t, c) \in Seq(Bytes) /\ (t = <<>> => GrepText(t, c) = <<>>)
<1>1. PICK w : w = Lines[t]
  OBVIOUS
<1>2. w \in Seq(Seq(Bytes)) /\ (t = <<>> => w = <<>>)
  BY <1>1, LinesType, NoLines
<1>3. <<>> \in Seq(Bytes) /\ 0 \in Nat
  OBVIOUS
<1>4. Hits(w, c) \in Seq(Seq(Bytes))
  BY <1>2, <1>3, HitsFacts
<1>5. w = <<>> => Hits(w, c) = <<>>
  BY DEF Hits
<1>6. FlattenSeq(Hits(w, c)) \in Seq(Bytes)
  BY <1>4, FlattenedType
<1>7. GrepText(t, c) = FlattenSeq(Hits(w, c))
  BY <1>1, <1>3, TextsByLines
<1> QED
  BY <1>2, <1>5, <1>6, <1>7, FlattenNone

LEMMA HeadFacts ==
    ASSUME NEW t \in Seq(Bytes), NEW n \in Nat
    PROVE  HeadText(t, n) \in Seq(Bytes) /\ (t = <<>> \/ n = 0 => HeadText(t, n) = <<>>)
<1>1. PICK w : w = Lines[t]
  OBVIOUS
<1>2. w \in Seq(Seq(Bytes)) /\ (t = <<>> => w = <<>>)
  BY <1>1, LinesType, NoLines
<1>3. <<>> \in Seq(Bytes)
  OBVIOUS
<1>4. /\ Prefix(w, n) \in Seq(Seq(Bytes))
      /\ n = 0 \/ w = <<>> => Prefix(w, n) = <<>>
  BY <1>2, <1>3, PrefixFacts
<1>5. FlattenSeq(Prefix(w, n)) \in Seq(Bytes)
  BY <1>4, FlattenedType
<1>6. HeadText(t, n) = FlattenSeq(Prefix(w, n))
  BY <1>1, TextsByLines
<1> QED
  BY <1>2, <1>4, <1>5, <1>6, FlattenNone
-----------------------------------------------------------------------------
\* The line programs.
LEMMA ThroughFacts ==
    ASSUME NEW g \in Bytewise, NEW o, g = "head" => o \in Nat, NEW t \in Seq(Bytes)
    PROVE  /\ Through(g, o, t) \in Seq(Bytes)
           /\ t = <<>> => Through(g, o, t) = <<>>
           /\ g = "head" /\ o = 0 => Through(g, o, t) = <<>>
<1>1. CASE g = "cat"
  BY <1>1 DEF Through
<1>2. CASE g = "grep"
  BY <1>2, GrepFacts DEF Through
<1>3. CASE g = "head"
  <2>1. Through(g, o, t) = HeadText(t, o)
    BY <1>3 DEF Through
  <2> QED
    BY <1>3, <2>1, HeadFacts
<1> QED
  BY <1>1, <1>2, <1>3 DEF Bytewise

LEMMA LineTextFacts ==
    ASSUME NEW g \in Bytewise, NEW o, NEW l \in Seq(Bytes)
    PROVE  /\ LineText(g, o, l) \in Seq(Bytes)
           /\ l = <<>> => LineText(g, o, l) = <<>>
<1>1. LineText(g, o, l) = IF g = "grep" THEN Hit(l, o) ELSE l
  BY DEF LineText, Hit
<1>2. Hit(l, o) \in Seq(Bytes)
  BY HitType
<1>3. l = <<>> => Hit(l, o) = <<>>
  BY DEF Hit, Contains
<1> QED
  BY <1>1, <1>2, <1>3

\* A line, and then the others; or none at all.
LEMMA ThroughLine ==
    ASSUME NEW g \in Bytewise, NEW o, g = "head" => o \in Nat /\ o > 0,
           NEW l \in Seq(Bytes), NEW t \in Seq(Bytes),
           Ended(l, t) \/ (l = <<>> /\ t = <<>>)
    PROVE  Through(g, o, l \o t) = LineText(g, o, l) \o Through(g, Less(g, o), t)
<1>1. CASE Ended(l, t)
  <2>1. CASE g = "cat"
    BY <2>1 DEF Through, LineText, Less
  <2>2. CASE g = "grep"
    <3>1. Less(g, o) = o /\ LineText(g, o, l) = Hit(l, o)
      BY <2>2 DEF Less, LineText, Hit
    <3>2. Through(g, o, l \o t) = GrepText(l \o t, o) /\ Through(g, o, t) = GrepText(t, o)
      BY <2>2 DEF Through
    <3> QED
      BY <1>1, <3>1, <3>2, GrepLine
  <2>3. CASE g = "head"
    <3>1. Less(g, o) = o - 1 /\ LineText(g, o, l) = l
      BY <2>3 DEF Less, LineText
    <3>2. Through(g, o, l \o t) = HeadText(l \o t, o) /\ Through(g, o - 1, t) = HeadText(t, o - 1)
      BY <2>3 DEF Through
    <3>3. o \in Nat /\ o > 0
      BY <2>3
    <3> QED
      BY <1>1, <3>1, <3>2, <3>3, HeadLine
  <2> QED
    BY <2>1, <2>2, <2>3 DEF Bytewise
<1>2. CASE l = <<>> /\ t = <<>>
  <2>1. l \o t = <<>> /\ <<>> \in Seq(Bytes) /\ <<>> \o <<>> = <<>>
    BY <1>2
  <2>2. Less(g, o) = IF g = "head" THEN o - 1 ELSE o
    BY DEF Less
  <2>3. g = "head" => Less(g, o) \in Nat
    BY <2>2
  <2>4. Through(g, Less(g, o), <<>>) = <<>>
    BY <2>1, <2>3, ThroughFacts
  <2>5. Through(g, o, <<>>) = <<>>
    BY <2>1, ThroughFacts
  <2>6. LineText(g, o, <<>>) = <<>>
    BY <2>1, LineTextFacts
  <2> QED
    BY <1>2, <2>1, <2>4, <2>5, <2>6
<1> QED
  BY <1>1, <1>2

LEMMA StageTextFacts ==
    ASSUME NEW s \in Seq(Bytes), NEW st, st.prog \in StagePrograms,
           st.prog = "head" => st.arg \in Nat
    PROVE  /\ StageText(s, st) \in Seq(Bytes)
           /\ st.prog \in Bytewise => StageText(s, st) = Through(st.prog, st.arg, s)
           /\ st.prog = "wc" => StageText(s, st) = <<Len(s) % TotalMod, NL>>
           /\ st.prog = "sync" => StageText(s, st) = <<>>
           /\ st.prog = "echo" => StageText(s, st) = s
<1>1. st.prog \in {"cat", "grep", "head", "wc", "echo", "sync"}
  BY DEF StagePrograms, Programs
<1>2. CASE st.prog \in Bytewise
  <2>1. StageText(s, st) = Through(st.prog, st.arg, s)
    BY <1>2 DEF StageText, Through, Bytewise
  <2>2. Through(st.prog, st.arg, s) \in Seq(Bytes)
    BY <1>2, ThroughFacts
  <2> QED
    BY <1>2, <2>1, <2>2 DEF Bytewise
<1>3. CASE st.prog = "wc"
  <2>1. StageText(s, st) = <<Len(s) % TotalMod, NL>>
    BY <1>3 DEF StageText
  <2>2. Len(s) % TotalMod \in Bytes /\ NL \in Bytes
    BY CountsAssumption, NLAssumption
  <2> QED
    BY <1>3, <2>1, <2>2 DEF Bytewise
<1>4. CASE st.prog = "sync"
  BY <1>4 DEF StageText, Bytewise
<1>5. CASE st.prog = "echo"
  BY <1>5 DEF StageText, Bytewise
<1> QED
  BY <1>1, <1>2, <1>3, <1>4, <1>5 DEF Bytewise
-----------------------------------------------------------------------------
\* The text of a command: what its fold over the stages is chosen to be.
StageIter(it, c, n) ==
    it = [t \in SUBSET (1 .. n) |->
            IF t = {} THEN c.input ELSE StageText(it[t \ {Max(t)}], c.stages[Max(t)])]

LEMMA StageIterExists ==
    ASSUME NEW c, NEW N \in Nat
    PROVE  \E it : StageIter(it, c, N)
<1> DEFINE S == {n \in Nat : \E it : StageIter(it, c, n)}
<1>1. 0 \in S
  <2> DEFINE it == [t \in SUBSET (1 .. 0) |-> c.input]
  <2>1. \A t \in SUBSET (1 .. 0) : t = {}
    OBVIOUS
  <2>2. StageIter(it, c, 0)
    BY <2>1 DEF StageIter
  <2> QED
    BY <2>2
<1>2. ASSUME NEW n \in 0 .. N - 1, n \in S PROVE n + 1 \in S
  <2>1. PICK a : StageIter(a, c, n)
    BY <1>2
  <2> DEFINE U == SUBSET (1 .. n + 1)
             b == [t \in U |-> IF n + 1 \in t THEN StageText(a[t \ {n + 1}], c.stages[n + 1]) ELSE a[t]]
             g == [t \in U |-> IF t = {} THEN c.input ELSE StageText(b[t \ {Max(t)}], c.stages[Max(t)])]
  <2>2. ASSUME NEW t \in U PROVE b[t] = g[t]
    <3>1. CASE n + 1 \in t
      <4>1. Max(t) = n + 1
        BY <3>1, MaxTop
      <4>2. t \ {n + 1} \in U /\ n + 1 \notin t \ {n + 1} /\ t # {}
        BY <3>1
      <4>3. b[t \ {n + 1}] = a[t \ {n + 1}]
        BY <4>2
      <4>4. g[t] = StageText(b[t \ {n + 1}], c.stages[n + 1])
        BY <4>1, <4>2
      <4> QED
        BY <3>1, <4>3, <4>4
    <3>2. CASE n + 1 \notin t
      <4>1. t \in SUBSET (1 .. n)
        BY <3>2
      <4>2. b[t] = a[t]
        BY <3>2
      <4>3. a[t] = IF t = {} THEN c.input ELSE StageText(a[t \ {Max(t)}], c.stages[Max(t)])
        BY <2>1, <4>1 DEF StageIter
      <4>4. t \ {Max(t)} \in U /\ n + 1 \notin t \ {Max(t)}
        BY <3>2
      <4>5. b[t \ {Max(t)}] = a[t \ {Max(t)}]
        BY <4>4
      <4> QED
        BY <4>2, <4>3, <4>5
    <3> QED
      BY <3>1, <3>2
  <2>3. b = g
    <3> HIDE DEF U
    <3> QED
      BY <2>2
  <2>4. StageIter(b, c, n + 1)
    BY <2>3 DEF StageIter
  <2> HIDE DEF b
  <2> QED
    BY <2>4
<1>3. \A n \in 0 .. N : n \in S
  <2> HIDE DEF S
  <2> QED
    BY <1>1, <1>2, UpTo
<1> QED
  BY <1>3

LEMMA CommandFold ==
    ASSUME NEW c, Len(c.stages) \in Nat, DOMAIN c.stages = 1 .. Len(c.stages)
    PROVE  \E it : /\ StageIter(it, c, Len(c.stages))
                   /\ FoldLeft(StageText, c.input, c.stages) = it[1 .. Len(c.stages)]
<1> DEFINE s == c.stages
           P(it) == it = [t \in SUBSET (1 .. Len(s)) |->
                            IF t = {} THEN c.input ELSE StageText(it[t \ {Max(t)}], s[Max(t)])]
           C == CHOOSE it : P(it)
<1>1. DOMAIN s = 1 .. Len(s) /\ Len(s) \in Nat
  OBVIOUS
<1>2. FoldLeft(StageText, c.input, s) =
        (CHOOSE it : it = [t \in SUBSET DOMAIN s |->
                             IF t = {} THEN c.input ELSE StageText(it[t \ {Max(t)}], s[Max(t)])])[DOMAIN s]
  BY DEF FoldLeft, MapThenFoldSet
<1>3. FoldLeft(StageText, c.input, s) = C[1 .. Len(s)]
  BY <1>1, <1>2, Zenon
<1>4. ASSUME NEW it
      PROVE  P(it) <=> StageIter(it, c, Len(s))
  BY DEF StageIter
<1> HIDE DEF P
<1>5. \E it : P(it)
  <2>1. PICK it : StageIter(it, c, Len(s))
    BY <1>1, StageIterExists
  <2> QED
    BY <1>4, <2>1
<1>6. P(C)
  BY <1>5
<1> HIDE DEF C
<1> QED
  BY <1>3, <1>4, <1>6

\* A command whose stages have their options.
GoodCommand(c) ==
    /\ c.input \in Seq(Bytes)
    /\ Len(c.stages) \in Nat /\ DOMAIN c.stages = 1 .. Len(c.stages)
    /\ \A i \in 1 .. Len(c.stages) :
         /\ c.stages[i].prog \in StagePrograms
         /\ c.stages[i].prog = "head" => c.stages[i].arg \in Nat

\* The texts that come out of the stages, the last one the fold of them all.
LEMMA CommandText ==
    ASSUME NEW c, GoodCommand(c)
    PROVE  \E ref \in [0 .. Len(c.stages) -> Seq(Bytes)] :
             /\ ref[0] = c.input
             /\ \A i \in 1 .. Len(c.stages) : ref[i] = StageText(ref[i - 1], c.stages[i])
             /\ ref[Len(c.stages)] = FoldLeft(StageText, c.input, c.stages)
<1> DEFINE N == Len(c.stages)
<1>1. N \in Nat /\ DOMAIN c.stages = 1 .. N /\ c.input \in Seq(Bytes)
  BY DEF GoodCommand
<1>2. PICK it : StageIter(it, c, N) /\ FoldLeft(StageText, c.input, c.stages) = it[1 .. N]
  BY <1>1, CommandFold
<1> HIDE DEF N
<1> DEFINE ref == [i \in 0 .. N |-> it[1 .. i]]
<1>3. ref[0] = c.input
  <2>1. 1 .. 0 = {} /\ 0 \in 0 .. N /\ {} \in SUBSET (1 .. N)
    BY <1>1
  <2>2. it[{}] = c.input
    BY <1>2, <2>1 DEF StageIter
  <2> QED
    BY <2>1, <2>2
<1>4. ASSUME NEW i \in 1 .. N PROVE ref[i] = StageText(ref[i - 1], c.stages[i])
  <2>1. PICK j : j = i - 1
    OBVIOUS
  <2>2. j \in Nat /\ j \in 0 .. N /\ i \in 0 .. N /\ i = j + 1
    BY <1>1, <2>1
  <2>3. /\ 1 .. j + 1 \in SUBSET (1 .. N) /\ 1 .. j + 1 \in SUBSET (1 .. j + 1) /\ j + 1 \in 1 .. j + 1
        /\ (1 .. j + 1) \ {j + 1} = 1 .. j /\ 1 .. j + 1 # {}
    <3>1. 1 .. j + 1 \in SUBSET (1 .. j + 1) /\ j + 1 \in 1 .. j + 1 /\ 1 .. j + 1 # {}
      BY <2>2
    <3>2. (1 .. j + 1) \ {j + 1} = 1 .. j
      BY <2>2
    <3>3. \A k \in 1 .. j + 1 : k \in 1 .. N
      BY <1>1, <2>2
    <3> QED
      BY <3>1, <3>2, <3>3
  <2>4. Max(1 .. j + 1) = j + 1
    BY <2>2, <2>3, MaxTop
  <2>5. it[1 .. j + 1] = StageText(it[1 .. j], c.stages[j + 1])
    BY <1>2, <2>3, <2>4 DEF StageIter
  <2> QED
    BY <2>1, <2>2, <2>5
<1> HIDE DEF ref
<1> DEFINE S == {k \in Nat : k <= N => ref[k] \in Seq(Bytes)}
<1>5. \A k \in 0 .. N : k \in S
  <2>1. 0 \in S
    BY <1>1, <1>3
  <2>2. ASSUME NEW k \in 0 .. N - 1, k \in S PROVE k + 1 \in S
    <3>1. PICK i : i = k + 1
      OBVIOUS
    <3>2. i \in 1 .. N /\ i \in Nat /\ i - 1 = k /\ k <= N
      BY <1>1, <3>1
    <3>3. ref[k] \in Seq(Bytes)
      BY <2>2, <3>2
    <3>4. ref[i] = StageText(ref[k], c.stages[i])
      BY <1>4, <3>2
    <3>5. /\ c.stages[i].prog \in StagePrograms
          /\ c.stages[i].prog = "head" => c.stages[i].arg \in Nat
      BY <3>2 DEF GoodCommand, N
    <3>6. StageText(ref[k], c.stages[i]) \in Seq(Bytes)
      BY <3>3, <3>5, StageTextFacts
    <3> QED
      BY <3>1, <3>2, <3>4, <3>6
  <2> HIDE DEF S
  <2> QED
    BY <1>1, <2>1, <2>2, UpTo
<1>6. ref \in [0 .. N -> Seq(Bytes)]
  <2>1. \A k \in 0 .. N : ref[k] \in Seq(Bytes)
    BY <1>1, <1>5
  <2>2. ref = [k \in 0 .. N |-> ref[k]]
    BY DEF ref
  <2> QED
    BY <2>1, <2>2
<1>7. ref[N] = FoldLeft(StageText, c.input, c.stages)
  BY <1>1, <1>2 DEF ref
<1> QED
  BY <1>3, <1>4, <1>6, <1>7 DEF N
-----------------------------------------------------------------------------
(***************************************************************************)
(* A step of the stages, or of another process, and what is left.          *)
(***************************************************************************)
LEMMA CommandsGood ==
    ASSUME NEW c \in Commands \cup {NoCmd}
    PROVE  /\ GoodCommand(c) /\ Len(c.stages) \in Nat
           /\ \A i \in 1 .. Len(c.stages) : i # 1 => i - 1 \in Pipes
<1>1. CASE c \in Commands
  <2>1. /\ Len(c.stages) \in Nat /\ DOMAIN c.stages = 1 .. Len(c.stages)
        /\ c.input \in Seq(Bytes)
        /\ \A i \in 1 .. Len(c.stages) :
             /\ c.stages[i].prog \in StagePrograms
             /\ c.stages[i].prog = "head" => c.stages[i].arg \in Nat
             /\ i < Len(c.stages) => i \in Pipes
    BY <1>1, CommandsAssumption
  <2>2. ASSUME NEW i \in 1 .. Len(c.stages), i # 1 PROVE i - 1 \in Pipes
    <3>1. PICK j : j = i - 1
      OBVIOUS
    <3>2. j \in 1 .. Len(c.stages) /\ j < Len(c.stages)
      BY <2>1, <2>2, <3>1
    <3> QED
      BY <2>1, <3>1, <3>2
  <2>3. GoodCommand(c)
    BY <2>1 DEF GoodCommand
  <2> QED
    BY <2>1, <2>2, <2>3
<1>2. CASE c = NoCmd
  <2>1. c.stages = <<>> /\ c.input = <<>>
    BY <1>2 DEF NoCmd
  <2>2. Len(c.stages) = 0 /\ DOMAIN c.stages = 1 .. 0 /\ c.input \in Seq(Bytes)
    BY <2>1
  <2> QED
    BY <2>2 DEF GoodCommand
<1> QED
  BY <1>1, <1>2

LEMMA CommandIsGood ==
    ASSUME ProcTypes
    PROVE  /\ GoodCommand(cmd) /\ Len(cmd.stages) \in Nat /\ spawned \in 0 .. Len(cmd.stages)
           /\ \A i \in 1 .. Len(cmd.stages) : i # 1 => i - 1 \in Pipes
           /\ uart \in Seq(Bytes)
<1>1. cmd \in Commands \cup {NoCmd} /\ spawned \in 0 .. Len(cmd.stages) /\ uart \in Seq(Bytes)
  BY DEF ProcTypes, PipelineTypeOK
<1> QED
  BY <1>1, CommandsGood

LEMMA InflowType ==
    ASSUME ProcTypes, NEW i \in 1 .. Len(cmd.stages)
    PROVE  Inflow(i) \in Seq(Bytes)
<1>1. CASE i = 1
  BY <1>1 DEF Inflow
<1>2. CASE i # 1
  <2>1. i - 1 \in Pipes
    BY <1>2, CommandIsGood
  <2>2. RingOK(pipe[i - 1])
    BY <2>1 DEF ProcTypes, PipelineTypeOK
  <2>3. Contents(pipe[i - 1]) \in Seq(Bytes)
    BY <2>2, RingFacts
  <2> QED
    BY <1>2, <2>3 DEF Inflow
<1> QED
  BY <1>1, <1>2

\* What comes to stage i: what is in its pipe and what is left before it.
LEMMA ComingType ==
    ASSUME ProcTypes, NEW left, Flow(left), NEW i \in 1 .. Len(cmd.stages)
    PROVE  /\ left[i] \in Seq(Bytes) /\ left[i - 1] \in Seq(Bytes)
           /\ Inflow(i) \o left[i - 1] \in Seq(Bytes)
<1>1. left \in [0 .. Len(cmd.stages) -> Seq(Bytes)] /\ Len(cmd.stages) \in Nat
  BY CommandIsGood DEF Flow
<1>2. PICK j : j = i - 1
  OBVIOUS
<1>3. j \in 0 .. Len(cmd.stages) /\ i \in 0 .. Len(cmd.stages)
  BY <1>1, <1>2
<1>4. left[j] \in Seq(Bytes) /\ left[i] \in Seq(Bytes)
  BY <1>1, <1>3
<1>5. Inflow(i) \in Seq(Bytes)
  BY InflowType
<1>6. Inflow(i) \o left[j] \in Seq(Bytes)
  BY <1>4, <1>5
<1> QED
  BY <1>2, <1>4, <1>6

\* What is left after a stage has taken from its pipe or put something out.
LEMMA FlowStep ==
    ASSUME ProcTypes, NEW left, Flow(left), UNCHANGED <<cmd, spawned, inPipe>>,
           NEW k \in 1 .. spawned, NEW new \in Seq(Bytes), NEW m \in Procs,
           LiveStage(m), StageNo(m) = k,
           \A p \in Procs : LiveStage(p)' <=> LiveStage(p),
           \A p \in Procs : LiveStage(p) => StageNo(p) \in 1 .. Len(cmd.stages),
           \A p \in Procs : LiveStage(p) /\ StageNo(p) = k => p = m,
           \A p \in Procs \ {m} : LiveStage(p) =>
             \A t \in Seq(Bytes) : Rest(p, t)' = Rest(p, t),
           NEW flow, flow = Inflow(k)', new = Rest(m, flow \o left[k - 1])',
           \A i \in 1 .. Len(cmd.stages) : i # k /\ i # k + 1 => Inflow(i)' = Inflow(i),
           k < Len(cmd.stages) =>
             Inflow(k + 1)' \o new = Inflow(k + 1) \o left[k] /\ uart' = uart,
           k = Len(cmd.stages) => uart' \o new = uart \o left[k]
    PROVE  \E l : Flow(l)'
<1> DEFINE l == [left EXCEPT ![k] = new]
           n == Len(cmd.stages)
<1>1. /\ left \in [0 .. n -> Seq(Bytes)] /\ n \in Nat /\ spawned \in 0 .. n
      /\ k \in 1 .. n /\ k \in 0 .. n /\ k <= spawned
  BY CommandIsGood DEF Flow
<1> HIDE DEF n
<1>2. /\ l \in [0 .. n -> Seq(Bytes)] /\ l[k] = new
      /\ \A i \in 0 .. n : i # k => l[i] = left[i]
  BY <1>1
<1> HIDE DEF l
<1>3. ASSUME NEW i \in 1 .. n, i # k
      PROVE  Inflow(i)' \o l[i - 1] = Inflow(i) \o left[i - 1]
  <2>1. CASE i = k + 1
    <3>1. i - 1 = k /\ k < Len(cmd.stages)
      BY <1>1, <2>1 DEF n
    <3>2. l[i - 1] = new /\ left[i - 1] = left[k]
      BY <1>2, <3>1
    <3>3. Inflow(k + 1)' \o new = Inflow(k + 1) \o left[k]
      BY <3>1
    <3> QED
      BY <2>1, <3>2, <3>3
  <2>2. CASE i # k + 1
    <3>1. PICK j : j = i - 1
      OBVIOUS
    <3>2. j \in 0 .. n /\ j # k
      BY <1>1, <2>2, <3>1
    <3>3. l[j] = left[j]
      BY <1>2, <3>2
    <3>4. Inflow(i)' = Inflow(i)
      BY <1>3, <2>2 DEF n
    <3> QED
      BY <3>1, <3>3, <3>4
  <2> QED
    BY <2>1, <2>2
<1>4. l[0] = cmd'.input
  <2>1. left[0] = cmd.input /\ 0 \in 0 .. n /\ 0 # k
    BY <1>1 DEF Flow
  <2> QED
    BY <1>2, <2>1
<1>5. ASSUME NEW i \in 1 .. n, spawned' < i
      PROVE  l[i] = StageText(Inflow(i)' \o l[i - 1], cmd'.stages[i])
  <2>1. i # k /\ spawned < i /\ i \in 0 .. n
    BY <1>1, <1>5
  <2>2. left[i] = StageText(Inflow(i) \o left[i - 1], cmd.stages[i])
    BY <2>1 DEF Flow, n
  <2>3. Inflow(i)' \o l[i - 1] = Inflow(i) \o left[i - 1]
    BY <1>3, <2>1
  <2> QED
    BY <1>2, <2>1, <2>2, <2>3
<1>6. ASSUME NEW p \in Procs, LiveStage(p)'
      PROVE  (l[StageNo(p)] = Rest(p, Inflow(StageNo(p)) \o l[StageNo(p) - 1]))'
  <2>1. LiveStage(p) /\ StageNo(p)' = StageNo(p)
    BY <1>6 DEF StageNo
  <2>2. PICK i \in 1 .. n : i = StageNo(p)
    BY <2>1 DEF n
  <2>3. CASE p = m
    <3>1. i = k
      BY <2>2, <2>3
    <3>2. PICK j : j = k - 1
      OBVIOUS
    <3>3. j \in 0 .. n /\ j # k
      BY <1>1, <3>2
    <3>4. l[j] = left[j]
      BY <1>2, <3>3
    <3>5. l[k - 1] = left[k - 1] /\ l[k] = new
      BY <1>2, <3>2, <3>4
    <3>6. (l[k] = Rest(p, Inflow(k) \o l[k - 1]))'
      BY <2>3, <3>5
    <3>7. (StageNo(p) = k)'
      BY <2>1, <2>2, <3>1
    <3> QED
      BY <3>6, <3>7
  <2>4. CASE p # m
    <3>1. i # k
      BY <2>1, <2>2, <2>4
    <3>2. left[i] = Rest(p, Inflow(i) \o left[i - 1])
      BY <2>1, <2>2 DEF Flow
    <3>3. PICK t : t = Inflow(i) \o left[i - 1]
      OBVIOUS
    <3>4. t \in Seq(Bytes)
      BY <2>2, <3>3, ComingType DEF n
    <3>5. Rest(p, t)' = Rest(p, t)
      BY <2>1, <2>4, <3>4
    <3>6. Inflow(i)' \o l[i - 1] = t
      BY <1>3, <2>2, <3>1, <3>3
    <3>7. l[i] = left[i]
      <4>1. i \in 0 .. n
        BY <2>2
      <4> QED
        BY <1>2, <3>1, <4>1
    <3>8. (l[i] = Rest(p, Inflow(i) \o l[i - 1]))'
      BY <3>2, <3>3, <3>5, <3>6, <3>7
    <3>9. (StageNo(p) = i)'
      BY <2>1, <2>2
    <3> QED
      BY <3>8, <3>9
  <2> QED
    BY <2>3, <2>4
<1>7. ASSUME NEW i \in 1 .. spawned', \A p \in Procs : LiveStage(p)' => StageNo(p)' # i
      PROVE  l[i] = <<>>
  <2>1. \A p \in Procs : LiveStage(p) => StageNo(p) # i
    BY <1>7 DEF StageNo
  <2>2. i # k
    BY <2>1
  <2>3. left[i] = <<>>
    BY <2>1 DEF Flow
  <2>4. i \in 0 .. n
    BY <1>1
  <2> QED
    BY <1>2, <2>2, <2>3, <2>4
<1>8. uart' \o l[n] = FoldLeft(StageText, cmd'.input, cmd'.stages)
  <2>1. uart \o left[n] = FoldLeft(StageText, cmd.input, cmd.stages)
    BY DEF Flow, n
  <2>2. CASE k = n
    BY <1>2, <2>1, <2>2 DEF n
  <2>3. CASE k # n
    <3>1. k < Len(cmd.stages) /\ n \in 0 .. n
      BY <1>1, <2>3 DEF n
    <3>2. l[n] = left[n] /\ uart' = uart
      BY <1>2, <2>3, <3>1
    <3> QED
      BY <2>1, <3>2
  <2> QED
    BY <2>2, <2>3
<1>9. Flow(l)'
  <2>1. Len(cmd'.stages) = n
    BY DEF n
  <2> QED
    BY <1>2, <1>4, <1>5, <1>6, <1>7, <1>8, <2>1 DEF Flow
<1> QED
  BY <1>9

\* What is left when no stage moves, but some that are over are forgotten.
LEMMA FlowStill ==
    ASSUME ProcTypes, NEW left, Flow(left), UNCHANGED <<cmd, spawned, uart>>,
           \A p \in Procs : LiveStage(p) => StageNo(p) \in 1 .. Len(cmd.stages),
           \A i \in 1 .. Len(cmd.stages) : Inflow(i)' = Inflow(i),
           \A p \in Procs : LiveStage(p)' =>
             /\ LiveStage(p) /\ inPipe'[p] = inPipe[p]
             /\ \A t \in Seq(Bytes) : Rest(p, t)' = Rest(p, t),
           \A p \in Procs : LiveStage(p) =>
             (LiveStage(p)' /\ inPipe'[p] = inPipe[p]) \/ pstate[p] = "ZOMBIE"
    PROVE  Flow(left)'
<1> DEFINE n == Len(cmd.stages)
<1>1. /\ left \in [0 .. n -> Seq(Bytes)] /\ n \in Nat /\ spawned \in 0 .. n
      /\ left[0] = cmd.input
      /\ \A i \in 1 .. n : spawned < i => left[i] = StageText(Inflow(i) \o left[i - 1], cmd.stages[i])
      /\ uart \o left[n] = FoldLeft(StageText, cmd.input, cmd.stages)
  BY CommandIsGood DEF Flow
<1> HIDE DEF n
<1>2. ASSUME NEW p \in Procs, LiveStage(p)'
      PROVE  (left[StageNo(p)] = Rest(p, Inflow(StageNo(p)) \o left[StageNo(p) - 1]))'
  <2>1. LiveStage(p) /\ StageNo(p)' = StageNo(p)
    BY <1>2 DEF StageNo
  <2>2. PICK i \in 1 .. n : i = StageNo(p)
    BY <2>1 DEF n
  <2>3. PICK t : t = Inflow(i) \o left[i - 1]
    OBVIOUS
  <2>4. t \in Seq(Bytes)
    BY <2>2, <2>3, ComingType DEF n
  <2>5. Rest(p, t)' = Rest(p, t)
    BY <1>2, <2>4
  <2>6. left[i] = Rest(p, t)
    BY <2>1, <2>2, <2>3 DEF Flow
  <2>7. Inflow(i)' = Inflow(i)
    BY <2>2 DEF n
  <2>8. (left[i] = Rest(p, Inflow(i) \o left[i - 1]))'
    BY <2>3, <2>5, <2>6, <2>7
  <2>9. (StageNo(p) = i)'
    BY <2>1, <2>2
  <2> QED
    BY <2>8, <2>9
<1>3. ASSUME NEW i \in 1 .. spawned', \A p \in Procs : LiveStage(p)' => StageNo(p)' # i
      PROVE  left[i] = <<>>
  <2>1. i \in 1 .. spawned
    OBVIOUS
  <2>2. CASE \A p \in Procs : LiveStage(p) => StageNo(p) # i
    BY <2>1, <2>2 DEF Flow
  <2>3. CASE ~ \A p \in Procs : LiveStage(p) => StageNo(p) # i
    <3>1. PICK p \in Procs : LiveStage(p) /\ StageNo(p) = i
      BY <2>3
    <3>2. inPipe'[p] = inPipe[p] => StageNo(p)' = StageNo(p)
      BY DEF StageNo
    <3>3. pstate[p] = "ZOMBIE"
      BY <1>3, <3>1, <3>2
    <3>4. left[i] = Rest(p, Inflow(i) \o left[i - 1])
      BY <3>1 DEF Flow
    <3> QED
      BY <3>3, <3>4 DEF Rest
  <2> QED
    BY <2>2, <2>3
<1>4. \A i \in 1 .. n : spawned' < i =>
        (left[i] = StageText(Inflow(i) \o left[i - 1], cmd.stages[i]))'
  <2>1. ASSUME NEW i \in 1 .. n, spawned' < i
        PROVE  (left[i] = StageText(Inflow(i) \o left[i - 1], cmd.stages[i]))'
    <3>1. Inflow(i)' = Inflow(i)
      BY DEF n
    <3>2. left[i] = StageText(Inflow(i) \o left[i - 1], cmd.stages[i])
      BY <1>1, <2>1
    <3> QED
      BY <3>1, <3>2
  <2> QED
    BY <2>1
<1>5. Len(cmd'.stages) = n
  BY DEF n
<1> QED
  BY <1>1, <1>2, <1>3, <1>4, <1>5 DEF Flow
-----------------------------------------------------------------------------
\* What a process has still to do depends on its own and on its program's locals alone.
SameLocals(p) ==
    /\ pstate[p] = "ZOMBIE" <=> pstate'[p] = "ZOMBIE"
    /\ pc'[p] = pc[p] /\ got'[p] = got[p] /\ next'[p] = next[p] /\ remain'[p] = remain[p]
    /\ prog'[p] = prog[p] /\ arg'[p] = arg[p] /\ inPipe'[p] = inPipe[p]
    /\ prog[p] \in Programs => lineBuf'[prog[p]] = lineBuf[prog[p]]
    /\ prog[p] = "grep" => pat' = pat
    /\ prog[p] = "head" => limit' = limit
    /\ prog[p] = "wc" => total' = total

LEMMA RestKept ==
    ASSUME NEW p \in Procs, LiveStage(p), pc[p] \in StagePcs(prog[p]), SameLocals(p),
           cmd' = cmd, NEW t
    PROVE  Rest(p, t)' = Rest(p, t) /\ (LocalOf(p) => LocalOf(p)')
<1>1. StageNo(p)' = StageNo(p)
  BY DEF StageNo, SameLocals
<1>2. prog[p] \in {"cat", "grep", "head", "wc", "echo", "sync"}
  BY DEF LiveStage, StagePrograms, Programs
<1>3. /\ pc'[p] = pc[p] /\ got'[p] = got[p] /\ next'[p] = next[p] /\ remain'[p] = remain[p]
      /\ prog'[p] = prog[p] /\ arg'[p] = arg[p]
      /\ pstate'[p] = "ZOMBIE" <=> pstate[p] = "ZOMBIE"
  BY DEF SameLocals
<1>4. ASSUME prog[p] \in Bytewise PROVE LineRest(p, t)' = LineRest(p, t) /\ LineOf(p)' = LineOf(p)
  <2>1. lineBuf'[prog[p]] = lineBuf[prog[p]]
    BY <1>4 DEF SameLocals, Bytewise, Programs
  <2>2. LineOf(p)' = LineOf(p)
    BY <1>3, <2>1 DEF LineOf
  <2>3. PutLine(p)' = PutLine(p)
    BY <1>3, <2>2 DEF PutLine
  <2>4. Option(prog[p])' = Option(prog[p])
    BY <1>3 DEF Option, SameLocals
  <2> QED
    BY <1>3, <2>2, <2>3, <2>4 DEF LineRest
<1>5. ASSUME prog[p] = "wc" PROVE CountRest(p, t)' = CountRest(p, t)
  <2>1. total' = total
    BY <1>5 DEF SameLocals
  <2> QED
    BY <1>3, <2>1 DEF CountRest
<1>6. Rest(p, t)' = Rest(p, t)
  <2>1. CASE prog[p] \in Bytewise
    BY <1>1, <1>3, <1>4, <2>1 DEF Rest, Bytewise
  <2>2. CASE prog[p] = "wc"
    BY <1>1, <1>3, <1>5, <2>2 DEF Rest
  <2>3. CASE prog[p] = "echo"
    BY <1>1, <1>3, <2>3 DEF Rest
  <2>4. CASE prog[p] = "sync"
    <3>1. pc[p] = "start"
      BY <2>4 DEF StagePcs, Programs
    <3> QED
      BY <1>1, <1>3, <2>4, <3>1 DEF Rest
  <2> QED
    BY <1>2, <2>1, <2>2, <2>3, <2>4 DEF Bytewise
<1>7. LocalOf(p) => LocalOf(p)'
  <2>1. prog[p] \in Bytewise => lineBuf'[prog[p]] = lineBuf[prog[p]]
    BY DEF SameLocals, Bytewise, Programs
  <2>2. prog[p] = "head" => limit' = limit
    BY DEF SameLocals
  <2> QED
    BY <1>1, <1>3, <2>1, <2>2 DEF LocalOf
<1> QED
  BY <1>6, <1>7

\* Two stages of a command whose programs share nothing run different programs.
LEMMA Alone ==
    ASSUME ProcTypes, RolesRight, Unshared(cmd), NEW p \in Procs, LiveStage(p),
           NEW r \in Procs, LiveStage(r), prog[p] = prog[r], prog[p] \in Programs
    PROVE  p = r
<1>1. /\ IsStage(p) /\ StageNo(p) \in 1 .. spawned /\ IsStage(r) /\ StageNo(r) \in 1 .. spawned
      /\ spawned <= Len(cmd.stages) /\ spawned \in Nat /\ Len(cmd.stages) \in Nat
  BY StageFacts
<1>2. /\ StageNo(p) \in 1 .. Len(cmd.stages) /\ StageNo(r) \in 1 .. Len(cmd.stages)
      /\ prog[p] = cmd.stages[StageNo(p)].prog /\ prog[r] = cmd.stages[StageNo(r)].prog
  <2>1. StageNo(p) \in 1 .. Len(cmd.stages) /\ StageNo(r) \in 1 .. Len(cmd.stages)
    BY <1>1
  <2> QED
    BY <1>1, <2>1 DEF IsStage
<1>3. StageNo(p) = StageNo(r)
  BY <1>2 DEF Unshared
<1> QED
  BY <1>3 DEF RolesRight

\* A step inside a stage changes its own locals and its program's only.
StageTurn ==
    /\ step = "in" /\ prog[me] \in StagePrograms
    /\ UNCHANGED <<inPipe, prog, arg, cmd, spawned>>
    /\ \A p \in Procs : pstate'[p] = "UNUSED" <=> pstate[p] = "UNUSED"
    /\ \A p \in Procs \ {me} :
         /\ pstate'[p] = "ZOMBIE" <=> pstate[p] = "ZOMBIE"
         /\ pc'[p] = pc[p] /\ got'[p] = got[p] /\ next'[p] = next[p] /\ remain'[p] = remain[p]
    /\ \A g \in Programs \ {prog[me]} : lineBuf'[g] = lineBuf[g]
    /\ prog[me] = "grep" \/ pat' = pat
    /\ prog[me] = "head" \/ limit' = limit
    /\ prog[me] = "wc" \/ total' = total

LEMMA OthersStill ==
    ASSUME PipeInv, Unshared(cmd), StageTurn, NEW p \in Procs \ {me}, LiveStage(p)
    PROVE  /\ \A t \in Seq(Bytes) : Rest(p, t)' = Rest(p, t)
           /\ LocalOf(p) => LocalOf(p)'
<1>1. me \in Procs /\ LiveStage(me)
  BY MeFacts DEF StageTurn
<1>2. prog[p] = prog[me] => prog[p] \notin Programs
  BY <1>1, Alone DEF PipeInv
<1>3. prog[p] \in Programs => lineBuf'[prog[p]] = lineBuf[prog[p]]
  BY <1>2 DEF StageTurn
<1>4. {"grep", "head", "wc"} \subseteq Programs
  BY DEF Programs
<1>5. SameLocals(p)
  BY <1>2, <1>3, <1>4 DEF StageTurn, SameLocals
<1>6. pc[p] \in StagePcs(prog[p])
  BY StageFacts DEF PipeInv, IsStage
<1>7. ASSUME NEW t PROVE Rest(p, t)' = Rest(p, t) /\ (LocalOf(p) => LocalOf(p)')
  BY <1>5, <1>6, RestKept DEF StageTurn
<1> QED
  BY <1>7

\* The place of the process that runs a stage.
LEMMA MyStage ==
    ASSUME PipeInv, step = "in", prog[me] \in StagePrograms
    PROVE  /\ me \in Procs /\ LiveStage(me) /\ pstate[me] = "RUNNING"
           /\ Len(cmd.stages) \in Nat /\ spawned \in Nat
           /\ StageNo(me) \in 1 .. spawned /\ StageNo(me) \in 1 .. Len(cmd.stages)
           /\ prog[me] = cmd.stages[StageNo(me)].prog
           /\ outPipe[me] = IF StageNo(me) = Len(cmd.stages) THEN NULL ELSE StageNo(me)
           /\ pc[me] \in StagePcs(prog[me])
           /\ \A p \in Procs : LiveStage(p) => StageNo(p) \in 1 .. Len(cmd.stages)
           /\ \A p \in Procs : LiveStage(p) /\ StageNo(p) = StageNo(me) => p = me
<1>1. me \in Procs /\ LiveStage(me) /\ pstate[me] = "RUNNING"
  BY MeFacts
<1>2. IsStage(me) /\ StageNo(me) \in 1 .. spawned
  BY <1>1, StageFacts DEF PipeInv
<1>3. \A p \in Procs : LiveStage(p) => StageNo(p) \in 1 .. Len(cmd.stages)
  <2>1. ASSUME NEW p \in Procs, LiveStage(p) PROVE StageNo(p) \in 1 .. Len(cmd.stages)
    <3>1. /\ Len(cmd.stages) \in Nat /\ spawned \in Nat
          /\ StageNo(p) \in 1 .. spawned /\ spawned <= Len(cmd.stages)
      BY <2>1, StageFacts DEF PipeInv
    <3> QED
      BY <3>1
  <2> QED
    BY <2>1
<1>4. Len(cmd.stages) \in Nat /\ spawned \in Nat
  BY <1>1, StageFacts DEF PipeInv
<1>5. \A p \in Procs : LiveStage(p) /\ StageNo(p) = StageNo(me) => p = me
  BY <1>1 DEF PipeInv, RolesRight
<1> QED
  BY <1>1, <1>2, <1>3, <1>4, <1>5 DEF IsStage

\* A step of stage k that leaves new to come out of it, with flow in its pipe.
StageStep(left, m, k, new, flow) ==
    /\ m = me /\ k = StageNo(me) /\ new \in Seq(Bytes)
    /\ LocalOf(m)' \/ pstate'[m] = "ZOMBIE"
    /\ flow = Inflow(k)' /\ new = Rest(m, flow \o left[k - 1])'
    /\ \A i \in 1 .. Len(cmd.stages) : i # k /\ i # k + 1 => Inflow(i)' = Inflow(i)
    /\ k < Len(cmd.stages) =>
         Inflow(k + 1)' \o new = Inflow(k + 1) \o left[k] /\ uart' = uart
    /\ k = Len(cmd.stages) => uart' \o new = uart \o left[k]

LEMMA StageStepKeeps ==
    ASSUME PipeInv, Unshared(cmd), LocalsRight, NEW left, Flow(left), StageTurn,
           NEW m, NEW k, NEW new, NEW flow, StageStep(left, m, k, new, flow)
    PROVE  TextRight'
<1>0. /\ m = me /\ k = StageNo(me) /\ new \in Seq(Bytes)
      /\ LocalOf(m)' \/ pstate'[m] = "ZOMBIE"
      /\ flow = Inflow(k)' /\ new = Rest(m, flow \o left[k - 1])'
      /\ \A i \in 1 .. Len(cmd.stages) : i # k /\ i # k + 1 => Inflow(i)' = Inflow(i)
      /\ k < Len(cmd.stages) =>
           Inflow(k + 1)' \o new = Inflow(k + 1) \o left[k] /\ uart' = uart
      /\ k = Len(cmd.stages) => uart' \o new = uart \o left[k]
  BY DEF StageStep
<1>1. /\ me \in Procs /\ LiveStage(me) /\ StageNo(me) \in 1 .. spawned
      /\ \A p \in Procs : LiveStage(p) => StageNo(p) \in 1 .. Len(cmd.stages)
      /\ \A p \in Procs : LiveStage(p) /\ StageNo(p) = StageNo(me) => p = me
  BY MyStage DEF StageTurn
<1>2. \A p \in Procs : LiveStage(p)' <=> LiveStage(p)
  BY DEF LiveStage, Live, StageTurn
<1>3. \A p \in Procs \ {me} : LiveStage(p) =>
        /\ \A t \in Seq(Bytes) : Rest(p, t)' = Rest(p, t)
        /\ LocalOf(p) => LocalOf(p)'
  BY OthersStill
<1>4. LocalsRight'
  <2>1. ASSUME NEW p \in Procs, LiveStage(p)', pstate'[p] # "ZOMBIE" PROVE LocalOf(p)'
    <3>1. CASE p = me
      BY <1>0, <2>1, <3>1
    <3>2. CASE p # me
      <4>1. LiveStage(p) /\ pstate[p] # "ZOMBIE"
        BY <1>2, <2>1, <3>2 DEF StageTurn
      <4>2. LocalOf(p)
        BY <4>1 DEF LocalsRight
      <4> QED
        BY <1>3, <3>2, <4>1, <4>2
    <3> QED
      BY <3>1, <3>2
  <2> QED
    BY <2>1 DEF LocalsRight
<1>5. \E l : Flow(l)'
  <2>1. ProcTypes /\ UNCHANGED <<cmd, spawned, inPipe>>
    BY DEF PipeInv, StageTurn
  <2>2. m \in Procs /\ LiveStage(m) /\ StageNo(m) = k /\ k \in 1 .. spawned
    BY <1>0, <1>1
  <2>3. \A p \in Procs : LiveStage(p) /\ StageNo(p) = k => p = m
    BY <1>0, <1>1
  <2>4. \A p \in Procs \ {m} : LiveStage(p) => \A t \in Seq(Bytes) : Rest(p, t)' = Rest(p, t)
    BY <1>0, <1>3
  <2>5. \A p \in Procs : LiveStage(p) => StageNo(p) \in 1 .. Len(cmd.stages)
    BY <1>1
  <2>6. /\ new \in Seq(Bytes) /\ flow = Inflow(k)'
        /\ new = Rest(m, flow \o left[k - 1])'
    BY <1>0
  <2>7. \A i \in 1 .. Len(cmd.stages) : i # k /\ i # k + 1 => Inflow(i)' = Inflow(i)
    BY <1>0
  <2>8. /\ k < Len(cmd.stages) =>
             Inflow(k + 1)' \o new = Inflow(k + 1) \o left[k] /\ uart' = uart
        /\ k = Len(cmd.stages) => uart' \o new = uart \o left[k]
    BY <1>0
  <2> QED
    BY <1>2, <2>1, <2>2, <2>3, <2>4, <2>5, <2>6, <2>7, <2>8, FlowStep
<1> QED
  BY <1>4, <1>5 DEF TextRight
-----------------------------------------------------------------------------
(***************************************************************************)
(* The actions of the stages.                                              *)
(***************************************************************************)
Going(left) == PipeInv /\ Unshared(cmd) /\ LocalsRight /\ Flow(left)

\* The process m is inside stage k, and t is what comes to it.
Inside(left, m, k, t) ==
    /\ Going(left) /\ step = "in" /\ prog[me] \in StagePrograms
    /\ m = me /\ k = StageNo(me) /\ t = Inflow(k) \o left[k - 1]

LEMMA InsideFacts ==
    ASSUME NEW left, NEW m, NEW k, NEW t, Inside(left, m, k, t)
    PROVE  /\ t \in Seq(Bytes) /\ left[k] \in Seq(Bytes) /\ left[k] = Rest(m, t)
           /\ left[k - 1] \in Seq(Bytes) /\ Inflow(k) \in Seq(Bytes)
           /\ m \in Procs /\ LiveStage(m) /\ LocalOf(m) /\ DataOf(m) /\ pstate[m] = "RUNNING"
           /\ pc[m] \in StagePcs(prog[m])
           /\ k \in 1 .. Len(cmd.stages) /\ k \in 1 .. spawned /\ Len(cmd.stages) \in Nat
           /\ prog[m] = cmd.stages[k].prog
           /\ cmd.stages[k].prog \in StagePrograms
           /\ cmd.stages[k].prog = "head" => cmd.stages[k].arg \in Nat
           /\ prog[m] = "echo" => t = cmd.input
<1>1. ProcTypes /\ PipeInv /\ Flow(left) /\ step = "in" /\ prog[me] \in StagePrograms
  BY DEF Inside, Going, PipeInv
<1>2. /\ m \in Procs /\ LiveStage(m) /\ pstate[m] = "RUNNING" /\ pc[m] \in StagePcs(prog[m])
      /\ k \in 1 .. Len(cmd.stages) /\ k \in 1 .. spawned /\ Len(cmd.stages) \in Nat
      /\ prog[m] = cmd.stages[k].prog
  BY <1>1, MyStage DEF Inside
<1>3. t \in Seq(Bytes) /\ left[k] \in Seq(Bytes) /\ left[k - 1] \in Seq(Bytes)
  BY <1>1, <1>2, ComingType DEF Inside
<1>4. left[k] = Rest(m, t)
  BY <1>2 DEF Inside, Going, Flow
<1>5. LocalOf(m)
  BY <1>2 DEF Inside, Going, LocalsRight
<1>6. GoodCommand(cmd)
  BY <1>1, CommandIsGood
<1>7. ASSUME prog[m] = "echo" PROVE t = cmd.input
  <2>1. Unshared(cmd)
    BY DEF Inside, Going
  <2>2. k = 1
    <3>1. k # 1 => k \in 2 .. Len(cmd.stages)
      BY <1>2
    <3> QED
      BY <1>2, <1>7, <2>1, <3>1 DEF Unshared
  <2>3. Inflow(k) = <<>> /\ left[k - 1] = cmd.input
    BY <1>1, <2>2 DEF Inflow, Flow
  <2>4. cmd.input \in Seq(Bytes)
    BY <1>6 DEF GoodCommand
  <2>5. <<>> \o cmd.input = cmd.input
    BY <2>4
  <2> QED
    BY <2>3, <2>5 DEF Inside
<1>8. Inflow(k) \in Seq(Bytes)
  BY <1>1, <1>2, InflowType
<1>9. DataOf(m)
  BY <1>1, <1>2 DEF PipeInv, DataRight
<1> QED
  BY <1>2, <1>3, <1>4, <1>5, <1>6, <1>7, <1>8, <1>9 DEF GoodCommand

\* A step that touches no pipe and puts nothing out leaves as much to come.
LEMMA InnerKeeps ==
    ASSUME NEW left, NEW m, NEW k, NEW t, Inside(left, m, k, t), StageTurn,
           LocalOf(m)' \/ pstate'[m] = "ZOMBIE",
           UNCHANGED <<pipe, uart>>, Rest(m, t)' = Rest(m, t)
    PROVE  TextRight'
<1>1. PipeInv /\ Unshared(cmd) /\ LocalsRight /\ Flow(left) /\ m = me /\ k = StageNo(me)
  BY DEF Inside, Going
<1>2. PICK new \in Seq(Bytes) : new = left[k]
  BY InsideFacts
<1>3. \A i : Inflow(i)' = Inflow(i)
  BY DEF Inflow
<1>4. PICK flow : flow = Inflow(k)'
  OBVIOUS
<1>5. new = Rest(m, flow \o left[k - 1])'
  <2>1. flow \o left[k - 1] = t
    BY <1>3, <1>4 DEF Inside
  <2>2. left[k] = Rest(m, t)
    BY InsideFacts
  <2> QED
    BY <1>2, <2>1, <2>2
<1>6. \A i \in 1 .. Len(cmd.stages) : i # k /\ i # k + 1 => Inflow(i)' = Inflow(i)
  BY <1>3
<1>7. Inflow(k + 1)' \o new = Inflow(k + 1) \o left[k] /\ uart' \o new = uart \o left[k]
  BY <1>2, <1>3
<1>8. /\ k < Len(cmd.stages) =>
           Inflow(k + 1)' \o new = Inflow(k + 1) \o left[k] /\ uart' = uart
      /\ k = Len(cmd.stages) => uart' \o new = uart \o left[k]
  BY <1>7
<1>9. StageTurn /\ (LocalOf(m)' \/ pstate'[m] = "ZOMBIE")
  OBVIOUS
<1>10. StageStep(left, m, k, new, flow)
  BY <1>1, <1>2, <1>4, <1>5, <1>6, <1>8, <1>9 DEF StageStep
<1> QED
  BY <1>1, <1>9, <1>10, StageStepKeeps

\* Nothing more comes from a pipe that is empty and closed.
LEMMA NothingComes ==
    ASSUME NEW left, NEW m, NEW k, NEW t, Inside(left, m, k, t), prog[m] \in Programs,
           AtEof(pipe[inPipe[m]])
    PROVE  t = <<>>
<1>1. PipeInv /\ ProcTypes /\ RolesRight /\ Flow(left)
  BY DEF Inside, Going, PipeInv
<1>2. /\ m \in Procs /\ LiveStage(m) /\ k \in 1 .. Len(cmd.stages) /\ k \in 1 .. spawned
      /\ Len(cmd.stages) \in Nat
  BY InsideFacts
<1>3. PICK q \in Pipes : q = inPipe[m]
  BY <1>1, <1>2, StageFacts
<1>4. q \in Nat \ {0} /\ q # NULL
  BY Names
<1>5. k = q + 1 /\ k # 1 /\ k - 1 = q /\ q < Len(cmd.stages) /\ q \in 1 .. spawned
  <2>1. k = q + 1
    BY <1>3, <1>4 DEF Inside, StageNo
  <2>2. spawned \in Nat
    BY <1>1, <1>2, StageFacts
  <2> QED
    BY <1>2, <1>4, <2>1, <2>2
<1>6. Inflow(k) = <<>>
  <2>1. RingOK(pipe[q]) /\ pipe[q].count = 0
    BY <1>1, <1>3 DEF ProcTypes, PipelineTypeOK, AtEof, Empty
  <2>2. Len(Contents(pipe[q])) = 0 /\ Contents(pipe[q]) \in Seq(Bytes)
    BY <2>1, RingFacts
  <2> QED
    BY <1>5, <2>2 DEF Inflow
<1>7. left[q] = <<>>
  <2>1. CASE \A p \in Procs : LiveStage(p) => StageNo(p) # q
    BY <1>1, <1>5, <2>1 DEF Flow
  <2>2. CASE ~ \A p \in Procs : LiveStage(p) => StageNo(p) # q
    <3>1. PICK p \in Procs : LiveStage(p) /\ StageNo(p) = q
      BY <2>2
    <3>2. outPipe[p] = q
      <4>1. IsStage(p)
        BY <1>1, <3>1, StageFacts
      <4>2. q # Len(cmd.stages)
        BY <1>2, <1>4, <1>5
      <4> QED
        BY <3>1, <4>1, <4>2 DEF IsStage
    <3>3. pstate[p] = "ZOMBIE"
      <4>1. EofRight /\ pipe[q].eof
        BY <1>1, <1>3 DEF PipeInv, AtEof
      <4> QED
        BY <1>4, <3>1, <3>2, <4>1 DEF EofRight
    <3>4. left[q] = Rest(p, Inflow(q) \o left[q - 1])
      BY <1>1, <3>1 DEF Flow
    <3> QED
      BY <3>3, <3>4 DEF Rest
  <2> QED
    BY <2>1, <2>2
<1> QED
  BY <1>5, <1>6, <1>7 DEF Inside
-----------------------------------------------------------------------------
\* The line a stage has read, and what it makes of the rest.
LEMMA LineFacts ==
    ASSUME NEW left, NEW m, NEW k, NEW t, Inside(left, m, k, t),
           prog[m] \in Bytewise, pc[m] # "start"
    PROVE  /\ prog[m] = "head" => limit \in Nat /\ (pc[m] # "loop" => limit > 0)
           /\ Through(prog[m], Option(prog[m]), t) \in Seq(Bytes)
           /\ pc[m] # "loop" =>
                /\ LineOf(m) \in Seq(Bytes) /\ Len(LineOf(m)) = got[m]
                /\ \A i \in 1 .. got[m] : LineOf(m)[i] = lineBuf[prog[m]][i]
                /\ got[m] \in Nat /\ got[m] < LineSize
                /\ Through(prog[m], Less(prog[m], Option(prog[m])), t) \in Seq(Bytes)
                /\ t = <<>> => Through(prog[m], Less(prog[m], Option(prog[m])), t) = <<>>
                /\ LineText(prog[m], Option(prog[m]), LineOf(m)) \in Seq(Bytes)
<1>1. /\ m \in Procs /\ LocalOf(m) /\ DataOf(m) /\ t \in Seq(Bytes)
      /\ pc[m] \in StagePcs(prog[m]) /\ m = me /\ PipeInv /\ step = "in"
      /\ prog[me] \in StagePrograms
  BY InsideFacts DEF Inside, Going
<1>2. OwnTypes /\ pc[m] \in {"loop", "read", "line", "put"} /\ prog[m] \in Programs
  <2>1. prog[me] \in Programs
    BY <1>1 DEF Bytewise, Programs
  <2> QED
    BY <1>1, <2>1, Own
<1>3. prog[m] = "head" => limit \in Nat /\ (pc[m] # "loop" => limit > 0)
  BY <1>1, <1>2 DEF LocalOf
<1>4. Option(prog[m]) = IF prog[m] = "grep" THEN pat ELSE IF prog[m] = "head" THEN limit ELSE NULL
  BY DEF Option
<1>5. PICK o : o = Option(prog[m])
  OBVIOUS
<1>6. prog[m] = "head" => o \in Nat /\ (pc[m] # "loop" => o > 0)
  BY <1>3, <1>4, <1>5
<1>7. Through(prog[m], o, t) \in Seq(Bytes)
  BY <1>1, <1>6, ThroughFacts
<1>8. ASSUME pc[m] # "loop"
      PROVE  /\ LineOf(m) \in Seq(Bytes) /\ Len(LineOf(m)) = got[m]
             /\ \A i \in 1 .. got[m] : LineOf(m)[i] = lineBuf[prog[m]][i]
             /\ got[m] \in Nat /\ got[m] < LineSize
             /\ Through(prog[m], Less(prog[m], o), t) \in Seq(Bytes)
             /\ t = <<>> => Through(prog[m], Less(prog[m], o), t) = <<>>
             /\ LineText(prog[m], o, LineOf(m)) \in Seq(Bytes)
  <2>1. got[m] \in Nat /\ got[m] < LineSize
    <3>1. got[m] \in 0 .. LineSize + WcBufSize
      BY <1>1, <1>2 DEF OwnTypes
    <3>2. pc[m] = "read" \/ pc[m] = "line" \/ pc[m] = "put"
      BY <1>2, <1>8
    <3> QED
      BY <1>1, <3>1, <3>2, LineSizeAssumption DEF DataOf
  <2>2. lineBuf[prog[m]] \in [1 .. LineSize -> Bytes]
    BY <1>2 DEF OwnTypes
  <2>3. PICK b : b = lineBuf[prog[m]]
    OBVIOUS
  <2>4. PICK n \in Nat : n = got[m] /\ n < LineSize
    BY <2>1
  <2>5. PICK l : l = SubSeq(b, 1, n)
    OBVIOUS
  <2>6. l \in Seq(Bytes) /\ Len(l) = n /\ \A i \in 1 .. n : l[i] = b[i]
    <3>1. b \in Seq(Bytes) /\ Len(b) = LineSize
      BY <2>2, <2>3, LineSizeAssumption
    <3> QED
      BY <2>4, <2>5, <3>1, LineSizeAssumption
  <2>7. l = LineOf(m)
    BY <2>3, <2>4, <2>5 DEF LineOf
  <2>8. PICK u : u = Less(prog[m], o)
    OBVIOUS
  <2>9. prog[m] = "head" => u \in Nat
    BY <1>6, <1>8, <2>8 DEF Less
  <2>10. Through(prog[m], u, t) \in Seq(Bytes) /\ (t = <<>> => Through(prog[m], u, t) = <<>>)
    BY <1>1, <2>9, ThroughFacts
  <2>11. LineText(prog[m], o, l) \in Seq(Bytes)
    BY <2>6, LineTextFacts
  <2> QED
    BY <2>3, <2>4, <2>6, <2>7, <2>8, <2>10, <2>11
<1> QED
  BY <1>3, <1>5, <1>7, <1>8

\* The parts of what is left, at the places of a program.
LEMMA RestAt ==
    ASSUME NEW left, NEW m, NEW k, NEW t, Inside(left, m, k, t)
    PROVE  /\ pc[m] = "start" => Rest(m, t) = StageText(t, cmd.stages[k])
           /\ pc[m] # "start" /\ prog[m] = "echo" =>
                Rest(m, t) = SubSeq(cmd.input, next[m] + 1, Len(cmd.input))
           /\ pc[m] # "start" /\ prog[m] = "wc" => Rest(m, t) = CountRest(m, t)
           /\ prog[m] \in Bytewise =>
                /\ pc[m] = "loop" => Rest(m, t) = Through(prog[m], Option(prog[m]), t)
                /\ pc[m] = "read" => Rest(m, t) = Through(prog[m], Option(prog[m]), LineOf(m) \o t)
                /\ pc[m] = "line" =>
                     Rest(m, t) = LineText(prog[m], Option(prog[m]), LineOf(m))
                                  \o Through(prog[m], Less(prog[m], Option(prog[m])), t)
                /\ pc[m] = "put" =>
                     Rest(m, t) = SubSeq(PutLine(m), next[m] + 1, Len(PutLine(m)))
                                  \o Through(prog[m], Less(prog[m], Option(prog[m])), t)
<1>1. pstate[m] # "ZOMBIE" /\ k = StageNo(m)
  BY InsideFacts DEF Inside
<1>2. pc[m] = "start" => Rest(m, t) = StageText(t, cmd.stages[k])
  BY <1>1 DEF Rest
<1>3. pc[m] # "start" /\ prog[m] = "echo" =>
        Rest(m, t) = SubSeq(cmd.input, next[m] + 1, Len(cmd.input))
  BY <1>1 DEF Rest
<1>4. pc[m] # "start" /\ prog[m] = "wc" => Rest(m, t) = CountRest(m, t)
  BY <1>1 DEF Rest
<1>5. pc[m] # "start" /\ prog[m] \in Bytewise => Rest(m, t) = LineRest(m, t)
  BY <1>1 DEF Rest, Bytewise
<1> QED
  BY <1>2, <1>3, <1>4, <1>5 DEF LineRest

\* A step of the process that runs on its own locals.
LEMMA TurnFacts ==
    ASSUME NEW left, NEW m, NEW k, NEW t, Inside(left, m, k, t),
           UNCHANGED <<inPipe, prog, arg, cmd, spawned>>,
           pstate' = pstate \/ pstate' = [pstate EXCEPT ![m] = "ZOMBIE"]
                            \/ pstate' = [pstate EXCEPT ![m] = "BLOCKED"],
           \A p \in Procs \ {m} :
             pc'[p] = pc[p] /\ got'[p] = got[p] /\ next'[p] = next[p] /\ remain'[p] = remain[p],
           \A g \in Programs \ {prog[m]} : lineBuf'[g] = lineBuf[g],
           prog[m] = "grep" \/ pat' = pat,
           prog[m] = "head" \/ limit' = limit,
           prog[m] = "wc" \/ total' = total
    PROVE  StageTurn
<1>1. step = "in" /\ prog[me] \in StagePrograms /\ m = me /\ m \in Procs /\ pstate[m] = "RUNNING"
  BY InsideFacts DEF Inside
<1>2. \A p \in Procs : pstate'[p] = pstate[p] \/ (p = m /\ pstate'[p] \in {"ZOMBIE", "BLOCKED"})
  <2>1. pstate \in [Procs -> ProcStates]
    BY DEF Inside, Going, PipeInv, ProcTypes, PipelineTypeOK
  <2> QED
    BY <1>1, <2>1
<1>3. \A p \in Procs : pstate'[p] = "UNUSED" <=> pstate[p] = "UNUSED"
  BY <1>1, <1>2
<1>4. \A p \in Procs \ {me} :
         /\ pstate'[p] = "ZOMBIE" <=> pstate[p] = "ZOMBIE"
         /\ pc'[p] = pc[p] /\ got'[p] = got[p] /\ next'[p] = next[p] /\ remain'[p] = remain[p]
  BY <1>1, <1>2
<1> QED
  BY <1>1, <1>3, <1>4 DEF StageTurn

\* What the process that runs is, for the actions of its program.
LEMMA Self ==
    ASSUME NEW left, NEW m, NEW k, NEW t, Inside(left, m, k, t)
    PROVE  /\ m = me /\ m \in Procs /\ OwnTypes /\ pstate[m] = "RUNNING" /\ m = current
           /\ pstate \in [Procs -> ProcStates] /\ k = StageNo(m)
           /\ step = "in" /\ prog[m] \in StagePrograms
<1>1. PipeInv /\ step = "in" /\ prog[me] \in StagePrograms /\ m = me /\ k = StageNo(me)
  BY DEF Inside, Going
<1>2. OwnTypes
  BY <1>1, TypesParts DEF PipeInv
<1>3. pstate \in [Procs -> ProcStates]
  BY <1>1 DEF PipeInv, ProcTypes, PipelineTypeOK
<1>4. m \in Procs /\ pstate[m] = "RUNNING"
  BY InsideFacts
<1> QED
  BY <1>1, <1>2, <1>3, <1>4 DEF me

LEMMA ExitText ==
    ASSUME NEW left, NEW m, NEW k, NEW t, Inside(left, m, k, t), ExitOp,
           UNCHANGED <<inPipe, prog, arg, cmd, spawned, pc, got, next, remain, lineBuf, pat,
                       total, pipe, uart>>,
           prog[m] = "head" \/ limit' = limit,
           Rest(m, t) = <<>>
    PROVE  TextRight'
<1>1. m = me /\ m \in Procs /\ pstate \in [Procs -> ProcStates] /\ m = current
  BY Self
<1>2. pstate' = [pstate EXCEPT ![m] = "ZOMBIE"]
  BY <1>1 DEF ExitOp
<1>3. pstate'[m] = "ZOMBIE"
  BY <1>1, <1>2
<1>4. StageTurn
  BY <1>2, TurnFacts
<1>5. Rest(m, t)' = Rest(m, t)
  BY <1>3 DEF Rest
<1> QED
  BY <1>3, <1>4, <1>5, InnerKeeps

LEMMA StartEchoText ==
    ASSUME NEW left, NEW m, NEW k, NEW t, Inside(left, m, k, t), StartEcho
    PROVE  TextRight'
<1>1. /\ m = me /\ m \in Procs /\ OwnTypes /\ pstate[m] = "RUNNING"
      /\ pstate \in [Procs -> ProcStates] /\ k = StageNo(m)
  BY Self
<1>2. /\ prog[m] = "echo" /\ pc[m] = "start"
      /\ next' = [next EXCEPT ![m] = 0] /\ remain' = [remain EXCEPT ![m] = Len(cmd.input)]
      /\ pc' = [pc EXCEPT ![m] = "put"]
      /\ UNCHANGED <<procVars, prog, arg, got, lineBuf, pat, limit, total, userVars>>
  BY <1>1 DEF StartEcho, Runs, At, StartPuts, Goto
<1>3. /\ UNCHANGED <<inPipe, prog, arg, cmd, spawned, pstate, got, lineBuf, pat, limit, total>>
      /\ UNCHANGED <<pipe, uart>>
  BY <1>2 DEF procVars, userVars
<1>4. pc'[m] = "put" /\ next'[m] = 0 /\ prog'[m] = "echo" /\ pstate'[m] = "RUNNING"
  BY <1>1, <1>2, <1>3 DEF OwnTypes
<1>5. StageTurn
  <2>1. \A p \in Procs \ {m} :
          pc'[p] = pc[p] /\ got'[p] = got[p] /\ next'[p] = next[p] /\ remain'[p] = remain[p]
    BY <1>1, <1>2, <1>3 DEF OwnTypes
  <2> QED
    BY <1>3, <2>1, TurnFacts
<1>6. LocalOf(m)'
  BY <1>4 DEF LocalOf, Bytewise
<1>7. Rest(m, t) = t /\ t = cmd.input /\ t \in Seq(Bytes)
  <2>1. t = cmd.input /\ t \in Seq(Bytes) /\ prog[m] = cmd.stages[k].prog
    BY <1>2, InsideFacts
  <2>2. StageText(t, cmd.stages[k]) = t
    BY <1>2, <2>1, StageTextFacts DEF StagePrograms
  <2> QED
    BY <1>2, <2>1, <2>2, RestAt
<1>8. Rest(m, t)' = t
  <2>1. Rest(m, t)' = SubSeq(cmd'.input, next'[m] + 1, Len(cmd'.input))
    BY <1>4 DEF Rest
  <2>2. Rest(m, t)' = SubSeq(t, 1, Len(t))
    BY <1>3, <1>4, <1>7, <2>1
  <2> QED
    BY <1>7, <2>2
<1> QED
  BY <1>3, <1>5, <1>6, <1>7, <1>8, InnerKeeps

LEMMA StartReaderText ==
    ASSUME NEW left, NEW m, NEW k, NEW t, Inside(left, m, k, t), StartReader
    PROVE  TextRight'
<1>1. /\ m = me /\ m \in Procs /\ OwnTypes /\ pstate[m] = "RUNNING" /\ k = StageNo(m)
  BY Self
<1>2. /\ prog[m] \in Programs /\ pc[m] = "start"
      /\ pat' = IF prog[m] = "grep" THEN arg[m] ELSE pat
      /\ limit' = IF prog[m] = "head" THEN arg[m] ELSE limit
      /\ total' = IF prog[m] = "wc" THEN 0 ELSE total
      /\ pc' = [pc EXCEPT ![m] = "loop"]
      /\ UNCHANGED <<procVars, prog, arg, got, next, remain, lineBuf, userVars>>
  BY <1>1 DEF StartReader, At, Goto
<1>3. /\ UNCHANGED <<inPipe, prog, arg, cmd, spawned, pstate, got, next, remain, lineBuf>>
      /\ UNCHANGED <<pipe, uart>>
  BY <1>2 DEF procVars, userVars
<1>4. pc'[m] = "loop" /\ prog'[m] = prog[m] /\ pstate'[m] = "RUNNING"
  BY <1>1, <1>2, <1>3 DEF OwnTypes
<1>5. StageTurn
  <2>1. \A p \in Procs \ {m} :
          pc'[p] = pc[p] /\ got'[p] = got[p] /\ next'[p] = next[p] /\ remain'[p] = remain[p]
    BY <1>1, <1>2, <1>3 DEF OwnTypes
  <2> QED
    BY <1>2, <1>3, <2>1, TurnFacts
<1>6. PICK st : st = cmd.stages[k]
  OBVIOUS
<1>7. /\ t \in Seq(Bytes) /\ prog[m] = st.prog /\ st.prog \in StagePrograms
      /\ st.prog = "head" => st.arg \in Nat
      /\ arg[m] = st.arg
  <2>1. LocalOf(m)
    BY InsideFacts
  <2> QED
    BY <1>1, <1>2, <1>6, <2>1, InsideFacts DEF LocalOf
<1>8. Rest(m, t) = StageText(t, st)
  BY <1>2, <1>6, RestAt
<1>9. LocalOf(m)'
  BY <1>2, <1>4, <1>7 DEF LocalOf
<1>10. Rest(m, t)' = Rest(m, t)
  <2>1. CASE prog[m] \in Bytewise
    <3>1. PICK o : o = Option(prog[m])'
      OBVIOUS
    <3>2. prog[m] # "cat" => o = st.arg
      BY <1>2, <1>3, <1>7, <2>1, <3>1 DEF Option, Bytewise
    <3>3. Rest(m, t)' = Through(prog[m], o, t)
      BY <1>4, <2>1, <3>1 DEF Rest, LineRest, Bytewise
    <3>4. StageText(t, st) = Through(prog[m], st.arg, t)
      BY <1>7, <2>1, StageTextFacts
    <3>5. CASE prog[m] = "cat"
      BY <1>8, <3>3, <3>4, <3>5 DEF Through
    <3>6. CASE prog[m] # "cat"
      BY <1>8, <3>2, <3>3, <3>4, <3>6
    <3> QED
      BY <3>5, <3>6
  <2>2. CASE prog[m] = "wc"
    <3>1. total' = 0
      BY <1>2, <2>2
    <3>2. Rest(m, t)' = <<(total' + Len(t)) % TotalMod, NL>>
      BY <1>4, <2>2 DEF Rest, CountRest
    <3>3. StageText(t, st) = <<Len(t) % TotalMod, NL>>
      BY <1>7, <2>2, StageTextFacts
    <3>4. 0 + Len(t) = Len(t)
      BY <1>7
    <3> QED
      BY <1>8, <3>1, <3>2, <3>3, <3>4
  <2> QED
    BY <1>2, <2>1, <2>2 DEF Programs, Bytewise
<1> QED
  BY <1>3, <1>5, <1>9, <1>10, InnerKeeps

LEMMA StartReadText ==
    ASSUME NEW left, NEW m, NEW k, NEW t, Inside(left, m, k, t), StartRead
    PROVE  TextRight'
<1>1. m = me /\ m \in Procs /\ OwnTypes /\ pstate[m] = "RUNNING" /\ PipeInv /\ step = "in"
  BY Self DEF Inside, Going
<1>2. /\ pc[m] = "loop" /\ ~ HeadDone
      /\ got' = [got EXCEPT ![m] = 0]
      /\ pc' = [pc EXCEPT ![m] = "read"]
      /\ UNCHANGED <<procVars, prog, arg, next, remain, lineBuf, pat, limit, total, userVars>>
  BY <1>1 DEF StartRead, At, Goto
<1>3. /\ UNCHANGED <<inPipe, prog, arg, cmd, spawned, pstate, next, remain, lineBuf, pat, limit,
                     total>>
      /\ UNCHANGED <<pipe, uart>>
  BY <1>2 DEF procVars, userVars
<1>4. /\ pc'[m] = "read" /\ prog'[m] = prog[m] /\ pstate'[m] = "RUNNING" /\ got'[m] = 0
      /\ prog[m] \in Programs
  <2>1. prog[m] \in Programs
    BY <1>1, <1>2, WhoIsAt
  <2> QED
    BY <1>1, <1>2, <1>3, <2>1 DEF OwnTypes
<1>5. StageTurn
  <2>1. \A p \in Procs \ {m} :
          pc'[p] = pc[p] /\ got'[p] = got[p] /\ next'[p] = next[p] /\ remain'[p] = remain[p]
    BY <1>1, <1>2, <1>3 DEF OwnTypes
  <2> QED
    BY <1>2, <1>3, <2>1, TurnFacts
<1>6. t \in Seq(Bytes)
  BY InsideFacts
<1>7. LocalOf(m)'
  <2>1. prog[m] = "head" => limit \in Nat
    BY <1>2, LineFacts DEF Bytewise
  <2>2. prog[m] = "head" => limit > 0
    BY <1>1, <1>2, <2>1 DEF HeadDone
  <2> QED
    BY <1>3, <1>4, <2>1, <2>2 DEF LocalOf
<1>8. Rest(m, t)' = Rest(m, t)
  <2>1. CASE prog[m] \in Bytewise
    <3>1. LineOf(m)' = <<>>
      <4>1. lineBuf[prog[m]] \in [1 .. LineSize -> Bytes]
        BY <1>1, <1>4 DEF OwnTypes
      <4>2. PICK b \in Seq(Bytes) : b = lineBuf[prog[m]]
        BY <4>1, LineSizeAssumption
      <4>3. SubSeq(b, 1, 0) = <<>>
        OBVIOUS
      <4> QED
        BY <1>3, <1>4, <4>2, <4>3 DEF LineOf
    <3>2. Option(prog[m])' = Option(prog[m])
      BY <1>3 DEF Option
    <3>3. Rest(m, t)' = Through(prog[m], Option(prog[m]), LineOf(m)' \o t)
      BY <1>4, <2>1, <3>2 DEF Rest, LineRest, Bytewise
    <3>4. <<>> \o t = t
      BY <1>6
    <3>5. Rest(m, t) = Through(prog[m], Option(prog[m]), t)
      BY <1>2, <2>1, RestAt
    <3> QED
      BY <3>1, <3>3, <3>4, <3>5
  <2>2. CASE prog[m] = "wc"
    <3>1. Rest(m, t)' = <<(total + (0 + Len(t))) % TotalMod, NL>>
      BY <1>3, <1>4, <2>2 DEF Rest, CountRest
    <3>2. Rest(m, t) = <<(total + Len(t)) % TotalMod, NL>>
      BY <1>2, <2>2, RestAt DEF CountRest
    <3>3. 0 + Len(t) = Len(t)
      BY <1>6
    <3> QED
      BY <3>1, <3>2, <3>3
  <2> QED
    BY <1>4, <2>1, <2>2 DEF Programs, Bytewise
<1> QED
  BY <1>3, <1>5, <1>7, <1>8, InnerKeeps

\* A process that waits keeps what it has.
LEMMA WaitText ==
    ASSUME NEW left, NEW m, NEW k, NEW t, Inside(left, m, k, t), pstate' = [pstate EXCEPT ![m] = "BLOCKED"],
           UNCHANGED <<inPipe, pipe, progVars, userVars>>
    PROVE  TextRight'
<1>1. m = me /\ m \in Procs /\ pstate[m] = "RUNNING" /\ pstate \in [Procs -> ProcStates]
  BY Self
<1>2. /\ UNCHANGED <<inPipe, prog, arg, cmd, spawned, pc, got, next, remain, lineBuf, pat, limit,
                     total>>
      /\ UNCHANGED <<pipe, uart>>
  BY DEF progVars, userVars
<1>3. StageTurn
  BY <1>2, TurnFacts
<1>4. SameLocals(m)
  BY <1>1, <1>2 DEF SameLocals
<1>5. LiveStage(m) /\ pc[m] \in StagePcs(prog[m]) /\ LocalOf(m)
  BY InsideFacts
<1>6. Rest(m, t)' = Rest(m, t) /\ LocalOf(m)'
  BY <1>1, <1>2, <1>4, <1>5, RestKept
<1> QED
  BY <1>2, <1>3, <1>6, InnerKeeps

LEMMA ReadEofText ==
    ASSUME NEW left, NEW m, NEW k, NEW t, Inside(left, m, k, t), ReadEof
    PROVE  TextRight'
<1>1. m = me /\ m \in Procs /\ OwnTypes /\ pstate[m] = "RUNNING" /\ PipeInv /\ step = "in"
  BY Self DEF Inside, Going
<1>2. /\ pc[m] = "read" /\ AtEof(pipe[inPipe[m]])
      /\ pc' = [pc EXCEPT ![m] = "line"]
      /\ UNCHANGED <<procVars, prog, arg, got, next, remain, lineBuf, pat, limit, total, userVars>>
  BY <1>1 DEF ReadEof, At, Goto
<1>3. /\ UNCHANGED <<inPipe, prog, arg, cmd, spawned, pstate, got, next, remain, lineBuf, pat,
                     limit, total>>
      /\ UNCHANGED <<pipe, uart>>
  BY <1>2 DEF procVars, userVars
<1>4. /\ pc'[m] = "line" /\ prog'[m] = prog[m] /\ pstate'[m] = "RUNNING"
      /\ prog[m] \in Programs
  <2>1. prog[m] \in Programs
    BY <1>1, <1>2, WhoIsAt
  <2> QED
    BY <1>1, <1>2, <1>3, <2>1 DEF OwnTypes
<1>5. StageTurn
  <2>1. \A p \in Procs \ {m} :
          pc'[p] = pc[p] /\ got'[p] = got[p] /\ next'[p] = next[p] /\ remain'[p] = remain[p]
    BY <1>1, <1>2, <1>3 DEF OwnTypes
  <2> QED
    BY <1>2, <1>3, <2>1, TurnFacts
<1>6. t \in Seq(Bytes) /\ t = <<>> /\ LocalOf(m) /\ DataOf(m)
  BY <1>2, <1>4, InsideFacts, NothingComes
<1>7. LocalOf(m)'
  BY <1>2, <1>3, <1>4, <1>6 DEF LocalOf
<1>8. Rest(m, t)' = Rest(m, t)
  <2>1. CASE prog[m] \in Bytewise
    <3>1. PICK o : o = Option(prog[m])
      OBVIOUS
    <3>2. PICK l : l = LineOf(m)
      OBVIOUS
    <3>3. /\ l \in Seq(Bytes) /\ Len(l) = got[m]
          /\ \A i \in 1 .. got[m] : l[i] = lineBuf[prog[m]][i]
          /\ got[m] \in Nat /\ prog[m] = "head" => limit \in Nat /\ limit > 0
      BY <1>2, <2>1, <3>2, LineFacts
    <3>4. Ended(l, t) \/ (l = <<>> /\ t = <<>>)
      <4>1. CASE l = <<>>
        BY <1>6, <4>1
      <4>2. CASE l # <<>>
        <5>1. got[m] + 1 < LineSize /\ \A i \in 1 .. got[m] : lineBuf[prog[m]][i] # NL
          BY <1>2, <1>6, <2>1 DEF DataOf, LocalOf
        <5>2. \A i \in 1 .. Len(l) - 1 : l[i] # NL /\ i < LineSize - 1
          BY <3>3, <5>1, LineSizeAssumption
        <5> QED
          BY <1>6, <4>2, <5>2 DEF Ended
      <4> QED
        BY <4>1, <4>2
    <3>5. prog[m] = "head" => o \in Nat /\ o > 0
      <4>1. prog[m] = "head" => o = limit
        BY <3>1 DEF Option
      <4>2. prog[m] = "head" => limit \in Nat /\ limit > 0
        BY <1>2, <2>1, LineFacts
      <4> QED
        BY <4>1, <4>2
    <3>6. Through(prog[m], o, l \o t) = LineText(prog[m], o, l) \o Through(prog[m], Less(prog[m], o), t)
      BY <1>6, <2>1, <3>3, <3>4, <3>5, ThroughLine
    <3>7. Rest(m, t) = Through(prog[m], o, l \o t)
      BY <1>2, <2>1, <3>1, <3>2, RestAt
    <3>8. Option(prog[m])' = o /\ LineOf(m)' = l
      BY <1>3, <3>1, <3>2 DEF Option, LineOf
    <3>9. Rest(m, t)' = LineText(prog[m], o, l) \o Through(prog[m], Less(prog[m], o), t)
      BY <1>4, <2>1, <3>8 DEF Rest, LineRest, Bytewise
    <3> QED
      BY <3>6, <3>7, <3>9
  <2>2. CASE prog[m] = "wc"
    <3>1. Rest(m, t)' = <<(total + (got[m] + Len(t))) % TotalMod, NL>>
      BY <1>3, <1>4, <2>2 DEF Rest, CountRest
    <3>2. Rest(m, t) = <<(total + (got[m] + Len(t))) % TotalMod, NL>>
      BY <1>2, <2>2, RestAt DEF CountRest
    <3> QED
      BY <3>1, <3>2
  <2> QED
    BY <1>4, <2>1, <2>2 DEF Programs, Bytewise
<1> QED
  BY <1>3, <1>5, <1>7, <1>8, InnerKeeps

\* A count goes around wherever the block ends.
LEMMA AddMod ==
    ASSUME NEW n \in Int, n > 0, NEW a \in Int, NEW b \in Int
    PROVE  ((a % n) + b) % n = (a + b) % n
OBVIOUS

LEMMA NextBlockText ==
    ASSUME NEW left, NEW m, NEW k, NEW t, Inside(left, m, k, t), NextBlock
    PROVE  TextRight'
<1>1. m = me /\ m \in Procs /\ OwnTypes /\ pstate[m] = "RUNNING"
  BY Self
<1>2. /\ pc[m] = "line" /\ prog[m] = "wc"
      /\ total' = (total + got[m]) % TotalMod
      /\ pc' = [pc EXCEPT ![m] = "loop"]
      /\ UNCHANGED <<procVars, prog, arg, got, next, remain, lineBuf, pat, limit, userVars>>
  BY <1>1 DEF NextBlock, At, Goto
<1>3. /\ UNCHANGED <<inPipe, prog, arg, cmd, spawned, pstate, got, next, remain, lineBuf, pat,
                     limit>>
      /\ UNCHANGED <<pipe, uart>>
  BY <1>2 DEF procVars, userVars
<1>4. pc'[m] = "loop" /\ prog'[m] = "wc" /\ pstate'[m] = "RUNNING"
  BY <1>1, <1>2, <1>3 DEF OwnTypes
<1>5. StageTurn
  <2>1. \A p \in Procs \ {m} :
          pc'[p] = pc[p] /\ got'[p] = got[p] /\ next'[p] = next[p] /\ remain'[p] = remain[p]
    BY <1>1, <1>2, <1>3 DEF OwnTypes
  <2> QED
    BY <1>2, <1>3, <2>1, TurnFacts
<1>6. LocalOf(m)'
  BY <1>4 DEF LocalOf, Bytewise
<1>7. Rest(m, t)' = Rest(m, t)
  <2>1. Len(t) \in Nat /\ total \in Nat /\ got[m] \in Nat /\ TotalMod \in Nat \ {0}
    <3>1. t \in Seq(Bytes)
      BY InsideFacts
    <3>2. got[m] \in 0 .. LineSize + WcBufSize /\ total \in 0 .. TotalMod - 1
      BY <1>1 DEF OwnTypes
    <3> QED
      BY <3>1, <3>2, CountsAssumption, LineSizeAssumption
  <2>2. Rest(m, t)' = <<(total' + Len(t)) % TotalMod, NL>>
    BY <1>4 DEF Rest, CountRest
  <2>3. Rest(m, t) = <<(total + (got[m] + Len(t))) % TotalMod, NL>>
    BY <1>2, RestAt DEF CountRest
  <2>4. PICK b \in Nat : b = Len(t)
    BY <2>1
  <2>5. PICK a \in Nat : a = total + got[m]
    BY <2>1
  <2>6. ((a % TotalMod) + b) % TotalMod = (a + b) % TotalMod
    <3>1. TotalMod \in Int /\ TotalMod > 0 /\ a \in Int /\ b \in Int
      BY <2>1
    <3> QED
      BY <3>1, AddMod
  <2>7. total' = a % TotalMod
    BY <1>2, <2>5
  <2>8. a + b = total + (got[m] + Len(t))
    BY <2>1, <2>4, <2>5
  <2> QED
    BY <2>2, <2>3, <2>4, <2>6, <2>7, <2>8
<1> QED
  BY <1>3, <1>5, <1>6, <1>7, InnerKeeps

LEMMA NextLineText ==
    ASSUME NEW left, NEW m, NEW k, NEW t, Inside(left, m, k, t), NextLine
    PROVE  TextRight'
<1>1. m = me /\ m \in Procs /\ OwnTypes /\ pstate[m] = "RUNNING"
  BY Self
<1>2. /\ pc[m] = "line" /\ prog[m] \in Bytewise
      /\ lineBuf' = [lineBuf EXCEPT ![prog[m]][got[m] + 1] = Zero]
      /\ \/ prog[m] = "grep" /\ ~ Contains(LineOf(m), pat) /\ Goto("loop")
            /\ UNCHANGED <<next, remain>>
         \/ ~ (prog[m] = "grep" /\ ~ Contains(LineOf(m), pat))
            /\ StartPuts(IF prog[m] = "grep" THEN got[m] + 1 ELSE got[m], "put")
      /\ UNCHANGED <<procVars, prog, arg, got, pat, limit, total, userVars>>
  BY <1>1 DEF NextLine, At, Line, LineOf
<1>3. /\ UNCHANGED <<inPipe, prog, arg, cmd, spawned, pstate, got, pat, limit, total>>
      /\ UNCHANGED <<pipe, uart>>
  BY <1>2 DEF procVars, userVars
<1>4. /\ \A p \in Procs \ {m} : pc'[p] = pc[p] /\ next'[p] = next[p] /\ remain'[p] = remain[p]
      /\ \/ prog[m] = "grep" /\ ~ Contains(LineOf(m), pat) /\ pc'[m] = "loop"
         \/ ~ (prog[m] = "grep" /\ ~ Contains(LineOf(m), pat)) /\ pc'[m] = "put" /\ next'[m] = 0
  <2>1. CASE prog[m] = "grep" /\ ~ Contains(LineOf(m), pat)
    <3>1. pc' = [pc EXCEPT ![m] = "loop"] /\ UNCHANGED <<next, remain>>
      BY <1>1, <1>2, <2>1 DEF Goto
    <3> QED
      BY <1>1, <2>1, <3>1 DEF OwnTypes
  <2>2. CASE ~ (prog[m] = "grep" /\ ~ Contains(LineOf(m), pat))
    <3>1. PICK n : n = IF prog[m] = "grep" THEN got[m] + 1 ELSE got[m]
      OBVIOUS
    <3>2. /\ pc' = [pc EXCEPT ![m] = "put"] /\ next' = [next EXCEPT ![m] = 0]
          /\ remain' = [remain EXCEPT ![m] = n]
      BY <1>1, <1>2, <2>2, <3>1 DEF StartPuts, Goto
    <3> QED
      BY <1>1, <2>2, <3>2 DEF OwnTypes
  <2> QED
    BY <2>1, <2>2
<1>5. prog[m] \in Programs /\ prog[m] # "wc" /\ prog'[m] = prog[m] /\ pstate'[m] = "RUNNING"
  BY <1>1, <1>2, <1>3 DEF Bytewise, Programs
<1>6. PICK l : l = LineOf(m)
  OBVIOUS
<1>7. PICK o : o = Option(prog[m])
  OBVIOUS
<1>8. /\ l \in Seq(Bytes) /\ Len(l) = got[m] /\ got[m] \in Nat /\ got[m] < LineSize
      /\ prog[m] = "head" => limit \in Nat /\ limit > 0
      /\ Through(prog[m], Less(prog[m], o), t) \in Seq(Bytes)
      /\ t \in Seq(Bytes)
  BY <1>2, <1>6, <1>7, LineFacts, InsideFacts
<1>9. /\ \A g \in Programs \ {prog[m]} : lineBuf'[g] = lineBuf[g]
      /\ \A i \in 1 .. got[m] : lineBuf'[prog[m]][i] = lineBuf[prog[m]][i]
      /\ lineBuf'[prog[m]] \in [1 .. LineSize -> Bytes]
  <2>1. lineBuf[prog[m]] \in [1 .. LineSize -> Bytes] /\ lineBuf \in [Programs -> [1 .. LineSize -> Bytes]]
    BY <1>1, <1>5 DEF OwnTypes
  <2>2. PICK n : n = got[m] + 1
    OBVIOUS
  <2>3. lineBuf' = [lineBuf EXCEPT ![prog[m]] = [lineBuf[prog[m]] EXCEPT ![n] = Zero]]
    BY <1>2, <2>2
  <2>4. lineBuf'[prog[m]] = [lineBuf[prog[m]] EXCEPT ![n] = Zero]
    BY <1>5, <2>1, <2>3
  <2>5. \A i \in 1 .. got[m] : i # n /\ i \in 1 .. LineSize
    BY <1>8, <2>2, LineSizeAssumption
  <2>6. \A g \in Programs \ {prog[m]} : lineBuf'[g] = lineBuf[g]
    BY <2>1, <2>3
  <2>7. \A i \in 1 .. got[m] : lineBuf'[prog[m]][i] = lineBuf[prog[m]][i]
    BY <2>1, <2>4, <2>5
  <2>8. lineBuf'[prog[m]] \in [1 .. LineSize -> Bytes]
    BY <2>1, <2>4, BytesAssumption
  <2> QED
    BY <2>6, <2>7, <2>8
<1>10. LineOf(m)' = l
  <2>1. PICK b : b = lineBuf[prog[m]]
    OBVIOUS
  <2>2. PICK d : d = lineBuf'[prog[m]]
    OBVIOUS
  <2>3. PICK n \in Nat : n = got[m] /\ n < LineSize
    BY <1>8
  <2>4. b \in Seq(Bytes) /\ d \in Seq(Bytes) /\ Len(b) = LineSize /\ Len(d) = LineSize
    <3>1. b \in [1 .. LineSize -> Bytes] /\ d \in [1 .. LineSize -> Bytes]
      BY <1>1, <1>5, <1>9, <2>1, <2>2 DEF OwnTypes
    <3> QED
      BY <3>1, LineSizeAssumption
  <2>5. \A i \in 1 .. n : d[i] = b[i]
    BY <1>9, <2>1, <2>2, <2>3
  <2>6. SubSeq(d, 1, n) = SubSeq(b, 1, n)
    BY <2>3, <2>4, <2>5, LineSizeAssumption
  <2>7. LineOf(m)' = SubSeq(d, 1, n)
    BY <1>3, <2>2, <2>3 DEF LineOf
  <2> QED
    BY <1>6, <2>1, <2>3, <2>6, <2>7 DEF LineOf
<1>11. StageTurn
  <2>1. \A p \in Procs \ {m} :
          pc'[p] = pc[p] /\ got'[p] = got[p] /\ next'[p] = next[p] /\ remain'[p] = remain[p]
    BY <1>3, <1>4
  <2> QED
    BY <1>3, <1>9, <2>1, TurnFacts
<1>12. LocalOf(m)'
  <2>1. pc'[m] \in {"loop", "put"}
    BY <1>4
  <2> QED
    BY <1>3, <1>5, <1>8, <2>1 DEF LocalOf
<1>13. Rest(m, t)' = Rest(m, t)
  <2>1. Rest(m, t) = LineText(prog[m], o, l) \o Through(prog[m], Less(prog[m], o), t)
    <3>1. pc[m] = "line" /\ prog[m] \in Bytewise
      BY <1>2
    <3>2. Rest(m, t) = LineText(prog[m], Option(prog[m]), LineOf(m))
                       \o Through(prog[m], Less(prog[m], Option(prog[m])), t)
      BY <3>1, RestAt
    <3> QED
      BY <1>6, <1>7, <3>2
  <2>2. Option(prog[m])' = o
    BY <1>3, <1>7 DEF Option
  <2>3. PICK rest \in Seq(Bytes) : rest = Through(prog[m], Less(prog[m], o), t)
    BY <1>8
  <2>4. CASE prog[m] = "grep" /\ ~ Contains(LineOf(m), pat) /\ pc'[m] = "loop"
    <3>1. Rest(m, t)' = Through(prog[m], o, t)
      BY <1>2, <1>5, <2>2, <2>4 DEF Rest, LineRest, Bytewise
    <3>2. Less(prog[m], o) = o
      BY <2>4 DEF Less
    <3>3. LineText(prog[m], o, l) = <<>>
      BY <1>6, <1>7, <2>4 DEF LineText, Option
    <3>4. <<>> \o rest = rest
      OBVIOUS
    <3> QED
      BY <2>1, <2>3, <3>1, <3>2, <3>3, <3>4
  <2>5. CASE ~ (prog[m] = "grep" /\ ~ Contains(LineOf(m), pat)) /\ pc'[m] = "put" /\ next'[m] = 0
    <3>1. PICK w : w = PutLine(m)'
      OBVIOUS
    <3>2. w = LineText(prog[m], o, l)
      <4>1. w = IF prog[m] = "grep" THEN Append(l, NL) ELSE l
        BY <1>3, <1>10, <3>1 DEF PutLine
      <4>2. CASE prog[m] = "grep"
        <5>1. Contains(l, o)
          BY <1>6, <1>7, <2>5, <4>2 DEF Option
        <5> QED
          BY <4>1, <4>2, <5>1 DEF LineText
      <4>3. CASE prog[m] # "grep"
        BY <4>1, <4>3 DEF LineText
      <4> QED
        BY <4>2, <4>3
    <3>3. w \in Seq(Bytes)
      BY <1>2, <1>8, <3>2, LineTextFacts
    <3>4. SubSeq(w, 0 + 1, Len(w)) = w
      BY <3>3
    <3>5. Rest(m, t)' = SubSeq(w, 0 + 1, Len(w)) \o Through(prog[m], Less(prog[m], o), t)
      BY <1>2, <1>5, <2>2, <2>5, <3>1 DEF Rest, LineRest, Bytewise
    <3> QED
      BY <2>1, <3>2, <3>4, <3>5
  <2> QED
    BY <1>4, <2>4, <2>5
<1> QED
  BY <1>3, <1>11, <1>12, <1>13, InnerKeeps

\* What wc puts out, and what is left of it.
LEMMA TwoBytes ==
    ASSUME NEW a \in Bytes, NEW b \in Bytes
    PROVE  /\ <<a, b>> \in Seq(Bytes) /\ Len(<<a, b>>) = 2
           /\ SubSeq(<<a, b>>, 1, 2) = <<a, b>> /\ SubSeq(<<a, b>>, 2, 2) = <<b>>
           /\ SubSeq(<<a, b>>, 3, 2) = <<>>
<1>0. <<a, b>> \in Seq(Bytes)
  OBVIOUS
<1>1. PICK w \in Seq(Bytes) : w = <<a, b>>
  BY <1>0
<1>2. Len(w) = 2 /\ w[1] = a /\ w[2] = b
  BY <1>1
<1>3. SubSeq(w, 1, 2) = w /\ SubSeq(w, 3, 2) = <<>>
  BY <1>2
<1>4. SubSeq(w, 2, 2) = <<b>>
  <2>1. PICK v : v = SubSeq(w, 2, 2)
    OBVIOUS
  <2>2. v \in Seq(Bytes) /\ Len(v) = 1 /\ v[1] = w[2]
    BY <1>2, <2>1
  <2>3. PICK u : u = <<b>>
    OBVIOUS
  <2>4. u \in Seq(Bytes) /\ Len(u) = 1 /\ u[1] = b
    BY <2>3
  <2>5. \A i \in 1 .. Len(v) : v[i] = u[i]
    BY <1>2, <2>2, <2>4
  <2>6. v = u
    BY <2>2, <2>4, <2>5, SameSeq
  <2> QED
    BY <2>1, <2>3, <2>6
<1> QED
  BY <1>1, <1>2, <1>3, <1>4

LEMMA LastLineText ==
    ASSUME NEW left, NEW m, NEW k, NEW t, Inside(left, m, k, t), LastLine
    PROVE  TextRight'
<1>1. m = me /\ m \in Procs /\ OwnTypes /\ pstate[m] = "RUNNING" /\ PipeInv /\ step = "in"
  BY Self DEF Inside, Going
<1>2. /\ pc[m] = "line" /\ got[m] = 0 /\ AtEof(pipe[inPipe[m]])
      /\ UNCHANGED <<tableVars, readyq, current, pipe, waitVars, prog, arg, got, lineBuf, pat,
                     limit, total, userVars>>
  BY <1>1 DEF LastLine, At, AtEnd
<1>3. /\ UNCHANGED <<inPipe, prog, arg, cmd, spawned, got, lineBuf, pat, limit, total>>
      /\ UNCHANGED <<pipe, uart>>
  BY <1>2 DEF tableVars, userVars
<1>4. prog[m] \in Programs
  BY <1>1, <1>2, WhoIsAt
<1>5. t \in Seq(Bytes) /\ t = <<>>
  BY <1>2, <1>4, InsideFacts, NothingComes
<1>6. CASE prog[m] = "wc"
  <2>1. /\ next' = [next EXCEPT ![m] = 0] /\ remain' = [remain EXCEPT ![m] = 2]
        /\ pc' = [pc EXCEPT ![m] = "put"] /\ UNCHANGED <<pstate, step>>
    BY <1>1, <1>6 DEF LastLine, StartPuts, Goto
  <2>2. pc'[m] = "put" /\ remain'[m] = 2 /\ prog'[m] = "wc" /\ pstate'[m] = "RUNNING"
    BY <1>1, <1>3, <1>6, <2>1 DEF OwnTypes
  <2>3. StageTurn
    <3>1. \A p \in Procs \ {m} :
            pc'[p] = pc[p] /\ got'[p] = got[p] /\ next'[p] = next[p] /\ remain'[p] = remain[p]
      BY <1>1, <1>3, <2>1 DEF OwnTypes
    <3> QED
      BY <1>3, <2>1, <3>1, TurnFacts
  <2>4. LocalOf(m)'
    BY <2>2 DEF LocalOf, Bytewise
  <2>5. Rest(m, t)' = Rest(m, t)
    <3>1. Rest(m, t)' = SubSeq(<<total, NL>>, 3 - 2, 2)
      BY <1>3, <2>2 DEF Rest, CountRest
    <3>2. Rest(m, t) = <<(total + (got[m] + Len(t))) % TotalMod, NL>>
      BY <1>2, <1>6, RestAt DEF CountRest
    <3>3. total \in 0 .. TotalMod - 1 /\ TotalMod \in Nat \ {0}
      BY <1>1, CountsAssumption DEF OwnTypes
    <3>4. total + (got[m] + Len(t)) = total
      BY <1>2, <1>5, <3>3
    <3>5. total % TotalMod = total
      BY <3>3
    <3>6. SubSeq(<<total, NL>>, 3 - 2, 2) = <<total, NL>>
      <4>1. PICK c : c = total
        OBVIOUS
      <4>2. c \in Bytes /\ NL \in Bytes
        BY <3>3, <4>1, CountsAssumption, NLAssumption
      <4>3. SubSeq(<<c, NL>>, 1, 2) = <<c, NL>> /\ 3 - 2 = 1
        BY <4>2, TwoBytes
      <4> QED
        BY <4>1, <4>3
    <3> QED
      BY <3>1, <3>2, <3>4, <3>5, <3>6
  <2> QED
    BY <1>3, <2>3, <2>4, <2>5, InnerKeeps
<1>7. CASE prog[m] # "wc"
  <2>1. ExitOp /\ UNCHANGED <<next, remain, pc>>
    BY <1>1, <1>7 DEF LastLine
  <2>2. prog[m] \in Bytewise
    BY <1>4, <1>7 DEF Programs, Bytewise
  <2>3. PICK l : l = LineOf(m)
    OBVIOUS
  <2>4. l = <<>>
    <3>1. l \in Seq(Bytes) /\ Len(l) = 0
      BY <1>2, <2>2, <2>3, LineFacts
    <3> QED
      BY <3>1
  <2>5. LineText(prog[m], Option(prog[m]), l) = <<>>
    <3>1. <<>> \in Seq(Bytes)
      OBVIOUS
    <3> QED
      BY <2>2, <2>4, <3>1, LineTextFacts
  <2>6. Through(prog[m], Less(prog[m], Option(prog[m])), t) = <<>>
    BY <1>2, <1>5, <2>2, LineFacts
  <2>7. Rest(m, t) = <<>>
    <3>1. <<>> \o <<>> = <<>>
      OBVIOUS
    <3>2. Rest(m, t) = LineText(prog[m], Option(prog[m]), l)
                       \o Through(prog[m], Less(prog[m], Option(prog[m])), t)
      BY <1>2, <2>2, <2>3, RestAt
    <3> QED
      BY <2>5, <2>6, <3>1, <3>2
  <2> QED
    BY <1>3, <2>1, <2>7, ExitText
<1> QED
  BY <1>6, <1>7

\* Nothing is left of what the process puts out, when it has put out all of it.
LEMMA PutDoneText ==
    ASSUME NEW left, NEW m, NEW k, NEW t, Inside(left, m, k, t), PutDone
    PROVE  TextRight'
<1>1. m = me /\ m \in Procs /\ OwnTypes /\ pstate[m] = "RUNNING" /\ PipeInv /\ step = "in"
  BY Self DEF Inside, Going
<1>2. /\ pc[m] = "put" /\ remain[m] = 0
      /\ limit' = IF prog[m] = "head" THEN limit - 1 ELSE limit
      /\ UNCHANGED <<tableVars, readyq, current, pipe, waitVars, prog, arg, got, next, remain,
                     lineBuf, pat, total, userVars>>
  BY <1>1 DEF PutDone, At
<1>3. /\ UNCHANGED <<inPipe, prog, arg, cmd, spawned, got, next, remain, lineBuf, pat, total>>
      /\ UNCHANGED <<pipe, uart>>
  BY <1>2 DEF tableVars, userVars
<1>4. prog[m] \in Programs \cup {"echo"}
  BY <1>1, <1>2, WhoIsAt
<1>5. next[m] \in Nat /\ DataOf(m) /\ t \in Seq(Bytes)
  BY <1>1, InsideFacts DEF OwnTypes
<1>6. CASE prog[m] \in Bytewise
  <2>1. pc' = [pc EXCEPT ![m] = "loop"] /\ UNCHANGED <<pstate, step>>
    BY <1>1, <1>6 DEF PutDone, Goto
  <2>2. pc'[m] = "loop" /\ prog'[m] = prog[m] /\ pstate'[m] = "RUNNING" /\ prog[m] # "wc"
    BY <1>1, <1>3, <1>6, <2>1 DEF OwnTypes, Bytewise
  <2>3. StageTurn
    <3>1. \A p \in Procs \ {m} :
            pc'[p] = pc[p] /\ got'[p] = got[p] /\ next'[p] = next[p] /\ remain'[p] = remain[p]
      BY <1>1, <1>3, <2>1 DEF OwnTypes
    <3> QED
      BY <1>2, <1>3, <2>1, <3>1, TurnFacts
  <2>4. prog[m] = "head" => limit \in Nat /\ limit > 0
    BY <1>2, <1>6, LineFacts
  <2>5. LocalOf(m)'
    BY <1>2, <2>2, <2>4 DEF LocalOf
  <2>6. PICK l : l = LineOf(m)
    OBVIOUS
  <2>7. PICK w : w = PutLine(m)
    OBVIOUS
  <2>8. l \in Seq(Bytes) /\ Len(l) = got[m] /\ got[m] \in Nat
    BY <1>2, <1>6, <2>6, LineFacts
  <2>9. w \in Seq(Bytes) /\ Len(w) = IF prog[m] = "grep" THEN got[m] + 1 ELSE got[m]
    <3>1. w = IF prog[m] = "grep" THEN Append(l, NL) ELSE l
      BY <2>6, <2>7 DEF PutLine
    <3>2. Append(l, NL) \in Seq(Bytes) /\ Len(Append(l, NL)) = Len(l) + 1
      BY <2>8, NLAssumption
    <3> QED
      BY <2>8, <3>1, <3>2
  <2>10. next[m] = Len(w)
    <3>1. next[m] + remain[m] = IF prog[m] = "grep" THEN got[m] + 1 ELSE got[m]
      BY <1>2, <1>5, <1>6 DEF DataOf
    <3> QED
      BY <1>2, <1>5, <2>9, <3>1
  <2>11. PICK o : o = Option(prog[m])
    OBVIOUS
  <2>12. Rest(m, t) = SubSeq(w, next[m] + 1, Len(w)) \o Through(prog[m], Less(prog[m], o), t)
    <3>1. Rest(m, t) = SubSeq(PutLine(m), next[m] + 1, Len(PutLine(m)))
                       \o Through(prog[m], Less(prog[m], Option(prog[m])), t)
      BY <1>1, <1>2, <1>6 DEF Rest, LineRest, Bytewise
    <3> QED
      BY <2>7, <2>11, <3>1
  <2>13. PICK rest \in Seq(Bytes) : rest = Through(prog[m], Less(prog[m], o), t)
    BY <1>2, <1>6, <2>11, LineFacts
  <2>14. Rest(m, t) = rest
    <3>1. SubSeq(w, Len(w) + 1, Len(w)) = <<>>
      BY <2>9
    <3>2. <<>> \o rest = rest
      OBVIOUS
    <3> QED
      BY <2>10, <2>12, <2>13, <3>1, <3>2
  <2>15. Rest(m, t)' = rest
    <3>1. PICK d : d = Option(prog[m])'
      OBVIOUS
    <3>2. d = Less(prog[m], o)
      BY <1>2, <1>3, <2>11, <3>1 DEF Option, Less
    <3>3. Rest(m, t)' = Through(prog[m], d, t)
      BY <1>6, <2>2, <3>1 DEF Rest, LineRest, Bytewise
    <3> QED
      BY <2>13, <3>2, <3>3
  <2> QED
    BY <1>3, <2>3, <2>5, <2>14, <2>15, InnerKeeps
<1>7. CASE prog[m] \notin Bytewise
  <2>1. ExitOp /\ UNCHANGED pc /\ (prog[m] = "head" \/ limit' = limit)
    BY <1>1, <1>7 DEF PutDone
  <2>2. Rest(m, t) = <<>>
    <3>1. CASE prog[m] = "wc"
      <4>1. Rest(m, t) = SubSeq(<<total, NL>>, 3 - remain[m], 2)
        BY <1>2, <3>1, RestAt DEF CountRest
      <4>2. PICK c : c = total
        OBVIOUS
      <4>3. c \in Bytes /\ NL \in Bytes
        BY <1>1, <4>2, CountsAssumption, NLAssumption DEF OwnTypes
      <4>4. SubSeq(<<c, NL>>, 3, 2) = <<>> /\ 3 - remain[m] = 3
        BY <1>2, <4>3, TwoBytes
      <4> QED
        BY <4>1, <4>2, <4>4
    <3>2. CASE prog[m] = "echo"
      <4>1. Rest(m, t) = SubSeq(cmd.input, next[m] + 1, Len(cmd.input))
        BY <1>2, <3>2, RestAt
      <4>2. t = cmd.input
        BY <3>2, InsideFacts
      <4>3. next[m] = Len(t)
        BY <1>2, <1>5, <3>2, <4>2 DEF DataOf
      <4>4. SubSeq(t, Len(t) + 1, Len(t)) = <<>>
        BY <1>5
      <4> QED
        BY <4>1, <4>2, <4>3, <4>4
    <3> QED
      BY <1>4, <1>7, <3>1, <3>2 DEF Programs, Bytewise
  <2> QED
    BY <1>3, <2>1, <2>2, ExitText
<1> QED
  BY <1>6, <1>7

LEMMA StageExitText ==
    ASSUME NEW left, NEW m, NEW k, NEW t, Inside(left, m, k, t), StageExit
    PROVE  TextRight'
<1>1. m = me /\ m \in Procs /\ OwnTypes /\ pstate[m] = "RUNNING"
  BY Self
<1>2. /\ (pc[m] = "loop" /\ HeadDone) \/ prog[m] = "sync"
      /\ ExitOp
      /\ UNCHANGED <<tableVars, readyq, current, pipe, waitVars, progVars, userVars>>
  BY <1>1 DEF StageExit, At, Runs
<1>3. UNCHANGED <<inPipe, prog, arg, cmd, spawned, pc, got, next, remain, lineBuf, pat, limit,
                  total, pipe, uart>>
  BY <1>2 DEF tableVars, progVars, userVars
<1>4. t \in Seq(Bytes) /\ pc[m] \in StagePcs(prog[m])
  BY InsideFacts
<1>5. Rest(m, t) = <<>>
  <2>1. CASE pc[m] = "loop" /\ HeadDone
    <3>1. prog[m] = "head" /\ prog[m] \in Bytewise /\ limit <= 0
      BY <1>1, <2>1 DEF HeadDone, Bytewise
    <3>2. limit \in Nat
      BY <2>1, <3>1, LineFacts
    <3>3. Option(prog[m]) = 0
      BY <3>1, <3>2 DEF Option
    <3>4. Through(prog[m], 0, t) = <<>>
      BY <1>4, <3>1, ThroughFacts
    <3> QED
      BY <2>1, <3>1, <3>3, <3>4, RestAt
  <2>2. CASE prog[m] = "sync"
    <3>1. pc[m] = "start"
      BY <1>4, <2>2 DEF StagePcs, Programs
    <3>2. PICK st : st = cmd.stages[k]
      OBVIOUS
    <3>3. st.prog = "sync" /\ st.prog \in StagePrograms
      BY <2>2, <3>2, InsideFacts
    <3>4. StageText(t, st) = <<>>
      BY <1>4, <3>3, StageTextFacts
    <3> QED
      BY <3>1, <3>2, <3>4, RestAt
  <2> QED
    BY <1>2, <2>1, <2>2
<1> QED
  BY <1>2, <1>3, <1>5, ExitText

\* A step that moves a byte wakes who sleeps on the pipe.
LEMMA WakeTurn ==
    ASSUME NEW left, NEW m, NEW k, NEW t, Inside(left, m, k, t),
           UNCHANGED <<inPipe, prog, arg, cmd, spawned, pat, limit, total>>,
           pstate' = pstate \/ (\E list : WakeOp(list, pstate, readyq)),
           \A p \in Procs \ {m} :
             pc'[p] = pc[p] /\ got'[p] = got[p] /\ next'[p] = next[p] /\ remain'[p] = remain[p],
           \A g \in Programs \ {prog[m]} : lineBuf'[g] = lineBuf[g]
    PROVE  StageTurn /\ pstate'[m] = "RUNNING"
<1>1. step = "in" /\ prog[me] \in StagePrograms /\ m = me /\ m \in Procs /\ pstate[m] = "RUNNING"
  BY InsideFacts DEF Inside
<1>2. \A p \in Procs :
        pstate'[p] = pstate[p] \/ (pstate[p] = "BLOCKED" /\ pstate'[p] = "READY")
  <2>1. CASE pstate' = pstate
    BY <2>1
  <2>2. CASE \E list : WakeOp(list, pstate, readyq)
    BY <2>2 DEF WakeOp
  <2> QED
    BY <2>1, <2>2
<1>3. pstate'[m] = "RUNNING"
  BY <1>1, <1>2
<1>4. \A p \in Procs : pstate'[p] = "UNUSED" <=> pstate[p] = "UNUSED"
  BY <1>2
<1>5. \A p \in Procs \ {me} :
         /\ pstate'[p] = "ZOMBIE" <=> pstate[p] = "ZOMBIE"
         /\ pc'[p] = pc[p] /\ got'[p] = got[p] /\ next'[p] = next[p] /\ remain'[p] = remain[p]
  BY <1>1, <1>2
<1> QED
  BY <1>1, <1>3, <1>4, <1>5 DEF StageTurn

\* The byte read is no longer to come, and belongs to the line instead.
ByteRead(m, c, n, whole) ==
    /\ pc[m] = "read" /\ prog[m] \in Programs /\ n = got[m] + 1 /\ got'[m] = n
    /\ pc'[m] = IF whole THEN "line" ELSE "read"
    /\ prog'[m] = prog[m] /\ pstate'[m] = "RUNNING"
    /\ UNCHANGED <<pat, limit, total>>
    /\ prog[m] \in Bytewise =>
         /\ whole <=> n + 1 >= LineSize \/ c = NL
         /\ lineBuf'[prog[m]] = [lineBuf[prog[m]] EXCEPT ![n] = c]

LEMMA ReadRest ==
    ASSUME NEW left, NEW m, NEW k, NEW t, Inside(left, m, k, t), NEW c \in Bytes, NEW n,
           NEW whole \in BOOLEAN, ByteRead(m, c, n, whole), NEW u \in Seq(Bytes), t = <<c>> \o u
    PROVE  Rest(m, u)' = Rest(m, t) /\ LocalOf(m)'
<1>1. m = me /\ m \in Procs /\ OwnTypes /\ pstate[m] = "RUNNING" /\ DataOf(m) /\ LocalOf(m)
  BY Self, InsideFacts
<1>2. /\ pc[m] = "read" /\ prog[m] \in Programs /\ n = got[m] + 1 /\ got'[m] = n
      /\ pc'[m] \in {"line", "read"} /\ (pc'[m] = "line" <=> whole)
      /\ prog'[m] = prog[m] /\ pstate'[m] = "RUNNING"
      /\ UNCHANGED <<pat, limit, total>>
  BY DEF ByteRead
<1>3. CASE prog[m] = "wc"
  <2>1. LocalOf(m)'
    BY <1>2, <1>3 DEF LocalOf, Bytewise
  <2>2. Rest(m, u)' = <<(total + (n + Len(u))) % TotalMod, NL>>
    BY <1>2, <1>3 DEF Rest, CountRest
  <2>3. Rest(m, t) = <<(total + (got[m] + Len(t))) % TotalMod, NL>>
    BY <1>2, <1>3, RestAt DEF CountRest
  <2>4. Len(t) = 1 + Len(u) /\ Len(u) \in Nat
    OBVIOUS
  <2>5. got[m] \in Nat
    BY <1>1, LineSizeAssumption DEF OwnTypes
  <2>6. n + Len(u) = got[m] + Len(t)
    <3>1. PICK a \in Nat : a = Len(u)
      BY <2>4
    <3>2. PICK b \in Nat : b = got[m]
      BY <2>5
    <3>3. Len(t) = 1 + a /\ n = b + 1
      BY <1>2, <2>4, <3>1, <3>2
    <3>4. (b + 1) + a = b + (1 + a)
      OBVIOUS
    <3>5. n + a = b + Len(t)
      BY <3>3, <3>4
    <3> QED
      BY <3>1, <3>2, <3>5
  <2> QED
    BY <2>1, <2>2, <2>3, <2>6
<1>4. CASE prog[m] \in Bytewise
  <2>1. PICK l : l = LineOf(m)
    OBVIOUS
  <2>2. PICK o : o = Option(prog[m])
    OBVIOUS
  <2>3. PICK b : b = lineBuf[prog[m]]
    OBVIOUS
  <2>4. PICK d : d = [b EXCEPT ![n] = c]
    OBVIOUS
  <2>5. /\ l \in Seq(Bytes) /\ Len(l) = got[m] /\ got[m] \in Nat
        /\ \A i \in 1 .. got[m] : l[i] = b[i]
    BY <1>2, <1>4, <2>1, <2>3, LineFacts
  <2>6. prog[m] = "head" => o \in Nat /\ o > 0 /\ limit \in Nat /\ limit > 0
    <3>1. prog[m] = "head" => o = limit
      BY <2>2 DEF Option
    <3>2. prog[m] = "head" => limit \in Nat /\ limit > 0
      BY <1>2, <1>4, LineFacts
    <3> QED
      BY <3>1, <3>2
  <2>7. n < LineSize /\ n \in Nat /\ n > 0 /\ n = Len(l) + 1
    <3>1. got[m] + 1 < LineSize
      BY <1>1, <1>2, <1>4 DEF DataOf
    <3> QED
      BY <1>2, <2>5, <3>1
  <2>8. \A i \in 1 .. got[m] : b[i] # NL
    BY <1>1, <1>2, <1>4, <2>3 DEF LocalOf
  <2>9. /\ b \in [1 .. LineSize -> Bytes] /\ d \in [1 .. LineSize -> Bytes]
        /\ lineBuf'[prog[m]] = d
    <3>1. b \in [1 .. LineSize -> Bytes]
      BY <1>1, <1>2, <2>3 DEF OwnTypes
    <3>2. lineBuf'[prog[m]] = d
      BY <1>4, <2>3, <2>4 DEF ByteRead
    <3> QED
      BY <2>4, <3>1, <3>2
  <2>10. d[n] = c /\ \A i \in 1 .. got[m] : d[i] = b[i]
    <3>1. n \in 1 .. LineSize /\ \A i \in 1 .. got[m] : i # n /\ i \in 1 .. LineSize
      BY <1>2, <2>5, <2>7, LineSizeAssumption
    <3> QED
      BY <2>4, <2>9, <3>1
  <2>11. PICK w : w = SubSeq(d, 1, n)
    OBVIOUS
  <2>12. LineOf(m)' = w
    BY <1>2, <2>9, <2>11 DEF LineOf
  <2>13. w \in Seq(Bytes) /\ Len(w) = n /\ \A i \in 1 .. n : w[i] = d[i]
    <3>1. d \in Seq(Bytes) /\ Len(d) = LineSize
      BY <2>9, LineSizeAssumption
    <3> QED
      BY <2>7, <2>11, <3>1, LineSizeAssumption
  <2>14. w = l \o <<c>>
    <3>1. PICK e : e = l \o <<c>>
      OBVIOUS
    <3>2. /\ e \in Seq(Bytes) /\ Len(e) = n /\ e[n] = c
          /\ \A i \in 1 .. got[m] : e[i] = l[i]
      BY <2>5, <2>7, <3>1
    <3>3. \A i \in 1 .. Len(w) : w[i] = e[i]
      <4>1. ASSUME NEW i \in 1 .. n PROVE w[i] = e[i]
        <5>1. CASE i = n
          BY <2>10, <2>13, <3>2, <5>1
        <5>2. CASE i # n
          <6>1. i \in 1 .. got[m]
            BY <1>2, <2>5, <2>7, <5>2
          <6> QED
            BY <2>5, <2>10, <2>13, <3>2, <6>1
        <5> QED
          BY <5>1, <5>2
      <4> QED
        BY <2>13, <4>1
    <3>4. w = e
      BY <2>13, <3>2, <3>3, SameSeq
    <3> QED
      BY <3>1, <3>4
  <2>15. w \o u = l \o t
    <3>1. (l \o <<c>>) \o u = l \o (<<c>> \o u)
      <4>1. l \in Seq(Bytes) /\ <<c>> \in Seq(Bytes) /\ u \in Seq(Bytes)
        BY <2>5
      <4> QED
        BY <4>1, ConcatAssociative
    <3> QED
      BY <2>14, <3>1
  <2>16. Rest(m, t) = Through(prog[m], o, l \o t)
    BY <1>2, <1>4, <2>1, <2>2, RestAt
  <2>17. Option(prog[m])' = o
    BY <1>2, <2>2 DEF Option
  <2>18. prog[m] # "wc"
    BY <1>4 DEF Bytewise
  <2>19. whole <=> n + 1 >= LineSize \/ c = NL
    BY <1>4 DEF ByteRead
  <2>20. CASE whole
    <3>1. pc'[m] = "line"
      BY <1>2, <2>20
    <3>2. LocalOf(m)'
      BY <1>2, <2>6, <2>18, <3>1 DEF LocalOf
    <3>3. Ended(w, u)
      <4>1. w # <<>>
        BY <2>7, <2>13
      <4>2. \A i \in 1 .. Len(w) - 1 : w[i] # NL /\ i < LineSize - 1
        <5>1. ASSUME NEW i \in 1 .. Len(w) - 1 PROVE w[i] # NL /\ i < LineSize - 1
          <6>1. i \in 1 .. got[m] /\ i \in 1 .. n
            BY <1>2, <2>5, <2>7, <2>13
          <6>2. i < LineSize - 1
            BY <2>7, <2>13, LineSizeAssumption
          <6> QED
            BY <2>8, <2>10, <2>13, <6>1, <6>2
        <5> QED
          BY <5>1
      <4>3. w[Len(w)] = NL \/ Len(w) = LineSize - 1
        <5>1. w[n] = c /\ Len(w) = n
          BY <2>7, <2>10, <2>13
        <5>2. n + 1 >= LineSize => n = LineSize - 1
          BY <2>7, LineSizeAssumption
        <5> QED
          BY <2>19, <2>20, <5>1, <5>2
      <4> QED
        BY <4>1, <4>2, <4>3 DEF Ended
    <3>4. Through(prog[m], o, w \o u) = LineText(prog[m], o, w) \o Through(prog[m], Less(prog[m], o), u)
      BY <1>4, <2>6, <2>13, <3>3, ThroughLine
    <3>5. Rest(m, u)' = LineText(prog[m], o, w) \o Through(prog[m], Less(prog[m], o), u)
      BY <1>2, <1>4, <2>12, <2>17, <3>1 DEF Rest, LineRest, Bytewise
    <3> QED
      BY <2>15, <2>16, <3>2, <3>4, <3>5
  <2>21. CASE ~ whole
    <3>1. pc'[m] = "read"
      BY <1>2, <2>21
    <3>2. LocalOf(m)'
      <4>1. \A i \in 1 .. n : d[i] # NL
        <5>1. c # NL
          BY <2>19, <2>21
        <5>2. \A i \in 1 .. n : i = n \/ i \in 1 .. got[m]
          BY <1>2, <2>5, <2>7
        <5> QED
          BY <2>8, <2>10, <5>1, <5>2
      <4> QED
        BY <1>2, <2>6, <2>9, <2>18, <3>1, <4>1 DEF LocalOf
    <3>3. Rest(m, u)' = Through(prog[m], o, w \o u)
      BY <1>2, <1>4, <2>12, <2>17, <3>1 DEF Rest, LineRest, Bytewise
    <3> QED
      BY <2>15, <2>16, <3>2, <3>3
  <2> QED
    BY <2>20, <2>21
<1> QED
  BY <1>2, <1>3, <1>4 DEF Programs, Bytewise

\* Only one pipe changes.
LEMMA OtherInflows ==
    ASSUME ProcTypes, NEW q \in Pipes, NEW r, pipe' = [pipe EXCEPT ![q] = r]
    PROVE  /\ pipe'[q] = r
           /\ \A i \in 1 .. Len(cmd.stages) : i # q + 1 => Inflow(i)' = Inflow(i)
<1>1. pipe \in [Pipes -> PipeType] /\ q \in Nat \ {0}
  BY Names DEF ProcTypes
<1>2. pipe'[q] = r /\ \A x \in Pipes \ {q} : pipe'[x] = pipe[x]
  BY <1>1
<1>3. ASSUME NEW i \in 1 .. Len(cmd.stages), i # q + 1 PROVE Inflow(i)' = Inflow(i)
  <2>1. CASE i = 1
    BY <2>1 DEF Inflow
  <2>2. CASE i # 1
    <3>1. PICK j : j = i - 1
      OBVIOUS
    <3>2. j \in Pipes
      BY <2>2, <3>1, CommandIsGood
    <3>3. j # q
      BY <1>1, <1>3, <3>1
    <3>4. pipe'[j] = pipe[j]
      BY <1>2, <3>2, <3>3
    <3> QED
      BY <2>2, <3>1, <3>4 DEF Inflow
  <2> QED
    BY <2>1, <2>2
<1> QED
  BY <1>2, <1>3

LEMMA ReadText ==
    ASSUME NEW left, NEW m, NEW k, NEW t, Inside(left, m, k, t), Read
    PROVE  TextRight'
<1>1. /\ m = me /\ m \in Procs /\ OwnTypes /\ pstate[m] = "RUNNING" /\ PipeInv /\ step = "in"
      /\ k = StageNo(m) /\ ProcTypes /\ RolesRight
  BY Self DEF Inside, Going, PipeInv
<1>2. PICK q : q = inPipe[m]
  OBVIOUS
<1>3. PICK c : c = FrontByte(pipe[q])
  OBVIOUS
<1>4. PICK n : n = got[m] + 1
  OBVIOUS
<1>5. PICK whole \in BOOLEAN :
        whole = (IF prog[m] = "wc" THEN n = WcBufSize ELSE n + 1 >= LineSize \/ c = NL)
  OBVIOUS
<1>6. /\ pc[m] = "read" /\ ~ Empty(pipe[q])
      /\ ReadOp(q)
      /\ got' = [got EXCEPT ![m] = n]
      /\ lineBuf' = IF prog[m] \in Bytewise THEN [lineBuf EXCEPT ![prog[m]][n] = c] ELSE lineBuf
      /\ pc' = [pc EXCEPT ![m] = IF whole THEN "line" ELSE "read"]
      /\ UNCHANGED <<tableVars, current, step, prog, arg, next, remain, pat, limit, total,
                     userVars>>
  BY <1>1, <1>2, <1>3, <1>4, <1>5 DEF Read, At, Goto
<1>7. UNCHANGED <<inPipe, prog, arg, cmd, spawned, uart, pat, limit, total, next, remain>>
  BY <1>6 DEF tableVars, userVars
<1>8. prog[m] \in Programs
  BY <1>1, <1>6, WhoIsAt
<1>9. q \in Pipes /\ q \in Nat \ {0} /\ q # NULL
  <2>1. LiveStage(m)
    BY InsideFacts
  <2> QED
    BY <1>1, <1>2, <1>8, <2>1, StageFacts, Names
<1>10. k = q + 1 /\ k # 1 /\ k - 1 = q
  BY <1>1, <1>2, <1>9 DEF StageNo
<1>11. RingOK(pipe[q])
  BY <1>1, <1>9 DEF ProcTypes, PipelineTypeOK
<1>12. PICK r : r = ReadByte(pipe[q])
  OBVIOUS
<1>13. PICK flow : flow = Contents(r)
  OBVIOUS
<1>14. c \in Bytes /\ flow \in Seq(Bytes) /\ Contents(pipe[q]) = <<c>> \o flow
  <2>1. PICK s : s = Contents(pipe[q])
    OBVIOUS
  <2>2. s \in Seq(Bytes) /\ s # <<>> /\ flow = Tail(s) /\ c = Head(s) /\ c \in Bytes
    BY <1>3, <1>6, <1>11, <1>12, <1>13, <2>1, ReadFacts, RingFacts
  <2>3. flow \in Seq(Bytes) /\ s = <<c>> \o flow
    BY <2>2
  <2> QED
    BY <2>1, <2>2, <2>3
<1>15. pipe' = [pipe EXCEPT ![q] = r] /\ WakeOp(writers[q], pstate, readyq)
  BY <1>6, <1>12 DEF ReadOp
<1>16. /\ pipe'[q] = r
       /\ \A i \in 1 .. Len(cmd.stages) : i # q + 1 => Inflow(i)' = Inflow(i)
  BY <1>1, <1>9, <1>15, OtherInflows
<1>17. flow = Inflow(k)'
  BY <1>10, <1>13, <1>16 DEF Inflow
<1>18. left[k - 1] \in Seq(Bytes) /\ left[k] \in Seq(Bytes) /\ left[k] = Rest(m, t)
  BY InsideFacts
<1>19. PICK more \in Seq(Bytes) : more = left[k - 1]
  BY <1>18
<1>20. flow \o more \in Seq(Bytes) /\ <<c>> \in Seq(Bytes) /\ flow \in Seq(Bytes)
  BY <1>14
<1>21. PICK u \in Seq(Bytes) : u = flow \o more
  BY <1>20
<1>22. t = <<c>> \o u
  <2>1. t = (<<c>> \o flow) \o more
    BY <1>10, <1>14, <1>19 DEF Inside, Inflow
  <2>2. (<<c>> \o flow) \o more = <<c>> \o (flow \o more)
    BY <1>20, ConcatAssociative
  <2> QED
    BY <1>21, <2>1, <2>2
<1>23. \A p \in Procs \ {m} :
         pc'[p] = pc[p] /\ got'[p] = got[p] /\ next'[p] = next[p] /\ remain'[p] = remain[p]
  BY <1>1, <1>6, <1>7 DEF OwnTypes
<1>24. /\ \A g \in Programs \ {prog[m]} : lineBuf'[g] = lineBuf[g]
       /\ prog[m] \in Bytewise => lineBuf'[prog[m]] = [lineBuf[prog[m]] EXCEPT ![n] = c]
  <2>1. lineBuf \in [Programs -> [1 .. LineSize -> Bytes]]
    BY <1>1 DEF OwnTypes
  <2>2. CASE prog[m] \in Bytewise
    <3>1. lineBuf' = [lineBuf EXCEPT ![prog[m]] = [lineBuf[prog[m]] EXCEPT ![n] = c]]
      BY <1>6, <2>2
    <3> QED
      BY <1>8, <2>1, <3>1
  <2>3. CASE prog[m] \notin Bytewise
    BY <1>6, <2>3
  <2> QED
    BY <2>2, <2>3
<1>25. StageTurn /\ pstate'[m] = "RUNNING"
  <2>1. \E list : WakeOp(list, pstate, readyq)
    BY <1>15
  <2> QED
    BY <1>7, <1>23, <1>24, <2>1, WakeTurn
<1>26. ByteRead(m, c, n, whole)
  <2>1. got'[m] = n /\ pc'[m] = IF whole THEN "line" ELSE "read"
    BY <1>1, <1>6 DEF OwnTypes
  <2>2. prog[m] \in Bytewise => (whole <=> n + 1 >= LineSize \/ c = NL)
    BY <1>5 DEF Bytewise
  <2>3. pc[m] = "read" /\ prog'[m] = prog[m] /\ UNCHANGED <<pat, limit, total>>
    BY <1>6, <1>7
  <2> QED
    BY <1>4, <1>8, <1>24, <1>25, <2>1, <2>2, <2>3 DEF ByteRead
<1>27. Rest(m, u)' = Rest(m, t) /\ LocalOf(m)'
  <2>1. c \in Bytes /\ whole \in BOOLEAN /\ u \in Seq(Bytes)
    BY <1>14
  <2> QED
    BY <1>22, <1>26, <2>1, ReadRest
<1>28. PICK new \in Seq(Bytes) : new = left[k]
  BY <1>18
<1>29. StageStep(left, m, k, new, flow)
  <2>1. new = Rest(m, flow \o left[k - 1])'
    BY <1>18, <1>19, <1>21, <1>27, <1>28
  <2>2. \A i \in 1 .. Len(cmd.stages) : i # k /\ i # k + 1 => Inflow(i)' = Inflow(i)
    BY <1>10, <1>16
  <2>3. k < Len(cmd.stages) =>
          Inflow(k + 1)' \o new = Inflow(k + 1) \o left[k] /\ uart' = uart
    <3> SUFFICES ASSUME k < Len(cmd.stages)
                 PROVE  Inflow(k + 1)' \o new = Inflow(k + 1) \o left[k] /\ uart' = uart
      OBVIOUS
    <3>1. PICK j : j = k + 1
      OBVIOUS
    <3>2. j \in 1 .. Len(cmd.stages) /\ j # q + 1
      <4>1. k \in 1 .. Len(cmd.stages) /\ Len(cmd.stages) \in Nat
        BY InsideFacts
      <4> QED
        BY <1>10, <3>1, <4>1
    <3>3. Inflow(j)' = Inflow(j)
      BY <1>16, <3>2
    <3> QED
      BY <1>7, <1>28, <3>1, <3>3
  <2>4. k = Len(cmd.stages) => uart' \o new = uart \o left[k]
    BY <1>7, <1>28
  <2> QED
    BY <1>1, <1>17, <1>27, <1>28, <2>1, <2>2, <2>3, <2>4 DEF StageStep
<1>30. PipeInv /\ Unshared(cmd) /\ LocalsRight /\ Flow(left)
  BY DEF Inside, Going
<1> QED
  BY <1>25, <1>29, <1>30, StageStepKeeps

\* What is left of a text begins with its next byte.
LEMMA SplitSeq ==
    ASSUME NEW w \in Seq(Bytes), NEW i \in 1 .. Len(w)
    PROVE  /\ SubSeq(w, i, Len(w)) = <<w[i]>> \o SubSeq(w, i + 1, Len(w))
           /\ w[i] \in Bytes /\ SubSeq(w, i + 1, Len(w)) \in Seq(Bytes)
<1>1. SubSeq(w, i, Len(w)) = <<w[i]>> \o SubSeq(w, i + 1, Len(w))
  BY SubSeqRecursiveFirst
<1>2. w[i] \in Bytes
  BY ElementOfSeq
<1>3. SubSeq(w, i + 1, Len(w)) \in Seq(Bytes)
  OBVIOUS
<1> QED
  BY <1>1, <1>2, <1>3

\* A byte put out was the first of what was left.
BytePut(m, b) ==
    /\ pc[m] = "put" /\ pc'[m] = "put" /\ remain[m] > 0 /\ b = OutByte
    /\ next'[m] = next[m] + 1 /\ remain'[m] = remain[m] - 1
    /\ prog'[m] = prog[m] /\ pstate'[m] = "RUNNING" /\ got'[m] = got[m]
    /\ UNCHANGED <<lineBuf, pat, limit, total, cmd>>

LEMMA PutRest ==
    ASSUME NEW left, NEW m, NEW k, NEW t, Inside(left, m, k, t), NEW b, BytePut(m, b)
    PROVE  /\ b \in Bytes /\ LocalOf(m)'
           /\ \E s \in Seq(Bytes) : Rest(m, t) = <<b>> \o s /\ Rest(m, t)' = s
<1>1. /\ m = me /\ m \in Procs /\ OwnTypes /\ pstate[m] = "RUNNING" /\ DataOf(m) /\ LocalOf(m)
      /\ PipeInv /\ step = "in" /\ t \in Seq(Bytes)
  BY Self, InsideFacts DEF Inside, Going
<1>2. /\ pc[m] = "put" /\ pc'[m] = "put" /\ remain[m] > 0 /\ b = OutByte
      /\ next'[m] = next[m] + 1 /\ remain'[m] = remain[m] - 1
      /\ prog'[m] = prog[m] /\ pstate'[m] = "RUNNING" /\ got'[m] = got[m]
      /\ UNCHANGED <<lineBuf, pat, limit, total, cmd>>
  BY DEF BytePut
<1>3. b \in Bytes
  BY <1>1, <1>2, OutByteFacts
<1>4. prog[m] \in Programs \cup {"echo"}
  BY <1>1, <1>2, WhoIsAt
<1>5. next[m] \in Nat /\ remain[m] \in Nat
  BY <1>1 DEF OwnTypes
<1>6. CASE prog[m] \in Bytewise
  <2>1. prog[m] # "wc" /\ prog[m] # "echo" /\ prog[m] \in Programs
    BY <1>6 DEF Bytewise, Programs
  <2>2. prog[m] = "head" => limit \in Nat /\ limit > 0
    BY <1>2, <1>6, LineFacts
  <2>3. LocalOf(m)'
    BY <1>2, <2>1, <2>2 DEF LocalOf
  <2>4. PICK l : l = LineOf(m)
    OBVIOUS
  <2>5. PICK w : w = PutLine(m)
    OBVIOUS
  <2>6. /\ l \in Seq(Bytes) /\ Len(l) = got[m] /\ got[m] \in Nat
        /\ \A i \in 1 .. got[m] : l[i] = lineBuf[prog[m]][i]
    BY <1>2, <1>6, <2>4, LineFacts
  <2>7. w = IF prog[m] = "grep" THEN Append(l, NL) ELSE l
    BY <2>4, <2>5 DEF PutLine
  <2>8. /\ w \in Seq(Bytes) /\ Len(w) = IF prog[m] = "grep" THEN got[m] + 1 ELSE got[m]
        /\ \A i \in 1 .. got[m] : w[i] = l[i]
        /\ prog[m] = "grep" => w[got[m] + 1] = NL
    <3>1. PICK a : a = Append(l, NL)
      OBVIOUS
    <3>2. /\ a \in Seq(Bytes) /\ Len(a) = got[m] + 1 /\ a[got[m] + 1] = NL
          /\ \A i \in 1 .. got[m] : a[i] = l[i]
      BY <2>6, <3>1, NLAssumption
    <3> QED
      BY <2>6, <2>7, <3>1, <3>2
  <2>9. PICK i : i = next[m] + 1
    OBVIOUS
  <2>10. next[m] + remain[m] = Len(w)
    BY <1>1, <1>2, <1>6, <2>8 DEF DataOf
  <2>11. i \in 1 .. Len(w) /\ (remain[m] = 1 <=> i = Len(w))
    BY <1>2, <1>5, <2>8, <2>9, <2>10
  <2>12. w[i] = b
    <3>1. b = IF prog[m] = "grep" /\ remain[m] = 1 THEN NL ELSE lineBuf[prog[m]][i]
      BY <1>1, <1>2, <2>1, <2>9 DEF OutByte
    <3>2. CASE prog[m] = "grep" /\ remain[m] = 1
      BY <2>8, <2>11, <3>1, <3>2
    <3>3. CASE ~ (prog[m] = "grep" /\ remain[m] = 1)
      <4>1. i \in 1 .. got[m]
        BY <2>6, <2>8, <2>11, <3>3
      <4> QED
        BY <2>6, <2>8, <3>1, <3>3, <4>1
    <3> QED
      BY <3>2, <3>3
  <2>13. PICK o : o = Option(prog[m])
    OBVIOUS
  <2>14. PICK rest \in Seq(Bytes) : rest = Through(prog[m], Less(prog[m], o), t)
    BY <1>2, <1>6, <2>13, LineFacts
  <2>15. PICK v : v = SubSeq(w, i + 1, Len(w))
    OBVIOUS
  <2>16. SubSeq(w, i, Len(w)) = <<b>> \o v /\ v \in Seq(Bytes)
    BY <2>8, <2>11, <2>12, <2>15, SplitSeq
  <2>17. Rest(m, t) = (<<b>> \o v) \o rest
    <3>1. Rest(m, t) = SubSeq(PutLine(m), next[m] + 1, Len(PutLine(m)))
                       \o Through(prog[m], Less(prog[m], Option(prog[m])), t)
      BY <1>1, <1>2, <1>6 DEF Rest, LineRest, Bytewise
    <3> QED
      BY <2>5, <2>9, <2>13, <2>14, <2>16, <3>1
  <2>18. Rest(m, t)' = v \o rest
    <3>1. PutLine(m)' = w /\ Option(prog[m])' = o
      BY <1>2, <2>5, <2>13 DEF PutLine, LineOf, Option
    <3>2. next'[m] = i
      BY <1>2, <2>9
    <3>3. Rest(m, t)' = SubSeq(w, i + 1, Len(w)) \o Through(prog[m], Less(prog[m], o), t)
      BY <1>2, <1>6, <3>1, <3>2 DEF Rest, LineRest, Bytewise
    <3> QED
      BY <2>14, <2>15, <3>3
  <2>19. <<b>> \in Seq(Bytes) /\ v \in Seq(Bytes) /\ rest \in Seq(Bytes)
    BY <1>3, <2>16
  <2>20. (<<b>> \o v) \o rest = <<b>> \o (v \o rest)
    BY <2>19, ConcatAssociative
  <2>21. v \o rest \in Seq(Bytes)
    BY <2>19
  <2> QED
    BY <1>3, <2>3, <2>17, <2>18, <2>20, <2>21
<1>7. CASE prog[m] = "wc"
  <2>1. remain[m] \in 1 .. 2
    BY <1>1, <1>2, <1>5, <1>7 DEF LocalOf
  <2>2. remain'[m] \in 0 .. 2
    BY <1>2, <2>1
  <2>3. LocalOf(m)'
    BY <1>2, <1>7, <2>2 DEF LocalOf, Bytewise
  <2>4. PICK c : c = total
    OBVIOUS
  <2>5. c \in Bytes /\ NL \in Bytes
    BY <1>1, <2>4, CountsAssumption, NLAssumption DEF OwnTypes
  <2>6. b = IF remain[m] = 1 THEN NL ELSE c
    BY <1>1, <1>2, <1>7, <2>4 DEF OutByte, TotalByte
  <2>7. Rest(m, t) = SubSeq(<<c, NL>>, 3 - remain[m], 2)
    BY <1>2, <1>7, <2>4, RestAt DEF CountRest
  <2>8. Rest(m, t)' = SubSeq(<<c, NL>>, 3 - remain'[m], 2)
    BY <1>2, <1>7, <2>4 DEF Rest, CountRest
  <2>9. /\ SubSeq(<<c, NL>>, 1, 2) = <<c, NL>> /\ SubSeq(<<c, NL>>, 2, 2) = <<NL>>
        /\ SubSeq(<<c, NL>>, 3, 2) = <<>>
    BY <2>5, TwoBytes
  <2>10. CASE remain[m] = 2
    <3>1. Rest(m, t) = <<c, NL>> /\ Rest(m, t)' = <<NL>> /\ b = c
      BY <1>2, <2>6, <2>7, <2>8, <2>9, <2>10
    <3>2. <<c, NL>> = <<c>> \o <<NL>> /\ <<NL>> \in Seq(Bytes)
      BY <2>5
    <3> QED
      BY <1>3, <2>3, <3>1, <3>2
  <2>11. CASE remain[m] = 1
    <3>1. Rest(m, t) = <<NL>> /\ Rest(m, t)' = <<>> /\ b = NL
      BY <1>2, <2>6, <2>7, <2>8, <2>9, <2>11
    <3>2. <<NL>> = <<NL>> \o <<>> /\ <<>> \in Seq(Bytes)
      BY <2>5
    <3> QED
      BY <1>3, <2>3, <3>1, <3>2
  <2> QED
    BY <2>1, <2>10, <2>11
<1>8. CASE prog[m] = "echo"
  <2>1. LocalOf(m)'
    BY <1>2, <1>8 DEF LocalOf, Bytewise
  <2>2. t = cmd.input
    BY <1>8, InsideFacts
  <2>3. PICK i : i = next[m] + 1
    OBVIOUS
  <2>4. i \in 1 .. Len(t)
    <3>1. next[m] + remain[m] = Len(t)
      BY <1>1, <1>2, <1>8, <2>2 DEF DataOf
    <3> QED
      BY <1>1, <1>2, <1>5, <2>3, <3>1
  <2>5. b = t[i]
    BY <1>1, <1>2, <1>8, <2>2, <2>3 DEF OutByte
  <2>6. Rest(m, t) = SubSeq(t, i, Len(t))
    BY <1>2, <1>8, <2>2, <2>3, RestAt
  <2>7. Rest(m, t)' = SubSeq(t, i + 1, Len(t))
    <3>1. Rest(m, t)' = SubSeq(cmd'.input, next'[m] + 1, Len(cmd'.input))
      BY <1>2, <1>8 DEF Rest
    <3> QED
      BY <1>2, <2>2, <2>3, <3>1
  <2>8. SubSeq(t, i, Len(t)) = <<b>> \o SubSeq(t, i + 1, Len(t)) /\ SubSeq(t, i + 1, Len(t)) \in Seq(Bytes)
    BY <1>1, <2>4, <2>5, SplitSeq
  <2> QED
    BY <1>3, <2>1, <2>6, <2>7, <2>8
<1> QED
  BY <1>4, <1>6, <1>7, <1>8 DEF Programs, Bytewise

LEMMA PutText ==
    ASSUME NEW left, NEW m, NEW k, NEW t, Inside(left, m, k, t), Put
    PROVE  TextRight'
<1>1. /\ m = me /\ m \in Procs /\ OwnTypes /\ pstate[m] = "RUNNING" /\ PipeInv /\ step = "in"
      /\ k = StageNo(m) /\ ProcTypes /\ RolesRight /\ prog[m] \in StagePrograms
  BY Self DEF Inside, Going, PipeInv
<1>2. PICK q : q = outPipe[m]
  OBVIOUS
<1>3. PICK b : b = OutByte
  OBVIOUS
<1>4. /\ pc[m] = "put" /\ remain[m] > 0
      /\ \/ q = NULL /\ uart' = Append(uart, b) /\ UNCHANGED <<pipe, schedVars, waitVars>>
         \/ q # NULL /\ ~ Full(pipe[q]) /\ WriteOp(q, b) /\ UNCHANGED uart
      /\ next' = [next EXCEPT ![m] = @ + 1]
      /\ remain' = [remain EXCEPT ![m] = @ - 1]
      /\ UNCHANGED <<tableVars, current, step, prog, arg, pc, got, lineBuf, pat, limit, total,
                     cmd, spawned>>
  BY <1>1, <1>2, <1>3 DEF Put, At, Advance
<1>5. UNCHANGED <<inPipe, prog, arg, cmd, spawned, pat, limit, total, lineBuf, pc, got>>
  BY <1>4 DEF tableVars
<1>6. /\ k \in 1 .. Len(cmd.stages) /\ Len(cmd.stages) \in Nat /\ k \in Nat
      /\ q = IF k = Len(cmd.stages) THEN NULL ELSE k
      /\ q # NULL => q \in Pipes
      /\ NULL \notin Pipes /\ (k # Len(cmd.stages) => k \in Pipes)
  <2>1. LiveStage(m)
    BY InsideFacts
  <2>2. q = IF k = Len(cmd.stages) THEN NULL ELSE k
    BY <1>1, <1>2, MyStage
  <2>3. q # NULL => q \in Pipes
    BY <1>1, <1>2, <2>1, StageFacts
  <2>4. k \in 1 .. Len(cmd.stages) /\ Len(cmd.stages) \in Nat
    BY InsideFacts
  <2>5. ASSUME k # Len(cmd.stages) PROVE k \in Pipes
    <3>1. PICK j : j = k + 1
      OBVIOUS
    <3>2. j \in 1 .. Len(cmd.stages) /\ j # 1 /\ j - 1 = k
      BY <2>4, <2>5, <3>1
    <3> QED
      BY <1>1, <3>2, CommandIsGood
  <2> QED
    BY <2>2, <2>3, <2>4, <2>5, Names
<1>7. /\ next'[m] = next[m] + 1 /\ remain'[m] = remain[m] - 1
      /\ \A p \in Procs \ {m} :
           pc'[p] = pc[p] /\ got'[p] = got[p] /\ next'[p] = next[p] /\ remain'[p] = remain[p]
  BY <1>1, <1>4 DEF OwnTypes
<1>8. StageTurn /\ pstate'[m] = "RUNNING"
  <2>1. pstate' = pstate \/ (\E list : WakeOp(list, pstate, readyq))
    BY <1>4 DEF schedVars, WriteOp
  <2> QED
    BY <1>5, <1>7, <2>1, WakeTurn
<1>9. BytePut(m, b)
  BY <1>3, <1>4, <1>5, <1>7, <1>8 DEF BytePut
<1>10. /\ b \in Bytes /\ LocalOf(m)'
       /\ \E s \in Seq(Bytes) : Rest(m, t) = <<b>> \o s /\ Rest(m, t)' = s
  BY <1>9, PutRest
<1>11. PICK new \in Seq(Bytes) : Rest(m, t) = <<b>> \o new /\ Rest(m, t)' = new
  BY <1>10
<1>12. left[k] = <<b>> \o new
  BY <1>11, InsideFacts
<1>13. PICK flow : flow = Inflow(k)'
  OBVIOUS
<1>14. uart \in Seq(Bytes)
  BY <1>1 DEF OwnTypes
<1>15. <<b>> \in Seq(Bytes)
  BY <1>10
<1>16. /\ \A i \in 1 .. Len(cmd.stages) : i # k + 1 => Inflow(i)' = Inflow(i)
       /\ k < Len(cmd.stages) =>
            Inflow(k + 1)' \o new = Inflow(k + 1) \o left[k] /\ uart' = uart
       /\ k = Len(cmd.stages) => uart' \o new = uart \o left[k]
  <2>1. CASE q = NULL
    <3>1. k = Len(cmd.stages) /\ ~ (k < Len(cmd.stages))
      BY <1>6, <2>1
    <3>2. uart' = Append(uart, b) /\ pipe' = pipe
      BY <1>4, <2>1
    <3>3. \A i : Inflow(i)' = Inflow(i)
      BY <3>2 DEF Inflow
    <3>4. uart' = uart \o <<b>>
      BY <1>10, <1>14, <3>2
    <3>5. (uart \o <<b>>) \o new = uart \o (<<b>> \o new)
      BY <1>14, <1>15, ConcatAssociative
    <3>6. uart' \o new = uart \o left[k]
      BY <1>12, <3>4, <3>5
    <3> QED
      BY <3>1, <3>3, <3>6
  <2>2. CASE q # NULL
    <3>1. q = k /\ q \in Pipes /\ k # Len(cmd.stages)
      BY <1>6, <2>2
    <3>2. ~ Full(pipe[q]) /\ WriteOp(q, b) /\ uart' = uart
      BY <1>4, <2>2
    <3>3. PICK r : r = WriteByte(pipe[q], b)
      OBVIOUS
    <3>4. pipe' = [pipe EXCEPT ![q] = r]
      BY <3>2, <3>3 DEF WriteOp
    <3>5. /\ pipe'[q] = r
          /\ \A i \in 1 .. Len(cmd.stages) : i # q + 1 => Inflow(i)' = Inflow(i)
      BY <1>1, <3>1, <3>4, OtherInflows
    <3>6. RingOK(pipe[q])
      BY <1>1, <3>1 DEF ProcTypes, PipelineTypeOK
    <3>7. PICK s \in Seq(Bytes) : s = Contents(pipe[q])
      BY <3>6, RingFacts
    <3>8. Contents(r) = Append(s, b)
      BY <1>10, <3>2, <3>3, <3>6, <3>7, WriteFacts
    <3>9. Append(s, b) = s \o <<b>>
      BY <1>10
    <3>10. PICK j : j = k + 1
      OBVIOUS
    <3>11. j # 1 /\ j - 1 = q
      BY <1>6, <3>1, <3>10
    <3>12. Inflow(j) = s /\ Inflow(j)' = s \o <<b>>
      BY <3>5, <3>7, <3>8, <3>9, <3>11 DEF Inflow
    <3>13. (s \o <<b>>) \o new = s \o (<<b>> \o new)
      BY <1>15, ConcatAssociative
    <3>14. Inflow(j)' \o new = Inflow(j) \o left[k]
      BY <1>12, <3>12, <3>13
    <3> QED
      BY <3>1, <3>2, <3>5, <3>10, <3>14
  <2> QED
    BY <2>1, <2>2
<1>17. Inflow(k)' = Inflow(k)
  <2>1. k # k + 1
    BY <1>6
  <2> QED
    BY <1>6, <1>16, <2>1
<1>18. StageStep(left, m, k, new, flow)
  <2>1. new = Rest(m, flow \o left[k - 1])'
    <3>1. flow \o left[k - 1] = t
      BY <1>13, <1>17 DEF Inside
    <3> QED
      BY <1>11, <3>1
  <2>2. \A i \in 1 .. Len(cmd.stages) : i # k /\ i # k + 1 => Inflow(i)' = Inflow(i)
    BY <1>16
  <2>3. /\ k < Len(cmd.stages) =>
              Inflow(k + 1)' \o new = Inflow(k + 1) \o left[k] /\ uart' = uart
        /\ k = Len(cmd.stages) => uart' \o new = uart \o left[k]
    BY <1>16
  <2>4. m = me /\ k = StageNo(me) /\ LocalOf(m)' /\ flow = Inflow(k)'
    BY <1>1, <1>10, <1>13
  <2> QED
    BY <2>1, <2>2, <2>3, <2>4 DEF StageStep
<1>19. PipeInv /\ Unshared(cmd) /\ LocalsRight /\ Flow(left)
  BY DEF Inside, Going
<1> QED
  BY <1>8, <1>18, <1>19, StageStepKeeps

\* Every step of a stage leaves as much to come out in the end.
LEMMA StageKeepsText ==
    ASSUME PipeInv, Unshared(cmd), TextRight, Stage
    PROVE  TextRight'
<1>1. PICK left : Flow(left)
  BY DEF TextRight
<1>2. LocalsRight
  BY DEF TextRight
<1>3. step = "in" /\ prog[me] \in StagePrograms
  <2>1. step = "in" /\ (prog[me] \in StagePrograms \/ pc[me] \in {"loop", "read", "line", "put"})
    BY DEF Stage, StartEcho, StartReader, StartRead, Read, ReadWait, ReadEof, NextBlock, NextLine,
           LastLine, Put, PutWait, PutDone, StageExit, Runs, At, StagePrograms
  <2> QED
    BY <2>1, WhoIsAt DEF StagePrograms
<1>4. PICK m : m = me
  OBVIOUS
<1>5. PICK k : k = StageNo(me)
  OBVIOUS
<1>6. PICK t : t = Inflow(k) \o left[k - 1]
  OBVIOUS
<1>7. Inside(left, m, k, t)
  BY <1>1, <1>2, <1>3, <1>4, <1>5, <1>6 DEF Inside, Going
<1>8. m = current
  BY <1>4 DEF me
<1>9. CASE ReadWait
  <2>1. /\ pstate' = [pstate EXCEPT ![m] = "BLOCKED"]
        /\ UNCHANGED <<tableVars, current, pipe, progVars, userVars>>
    BY <1>4, <1>9 DEF ReadWait, WaitReaderOp, BlockOp
  <2>2. UNCHANGED <<inPipe, pipe, progVars, userVars>>
    BY <2>1 DEF tableVars
  <2> QED
    BY <1>7, <2>1, <2>2, WaitText
<1>10. CASE PutWait
  <2>1. /\ pstate' = [pstate EXCEPT ![m] = "BLOCKED"]
        /\ UNCHANGED <<tableVars, current, pipe, progVars, userVars>>
    BY <1>4, <1>10 DEF PutWait, WaitWriterOp, BlockOp
  <2>2. UNCHANGED <<inPipe, pipe, progVars, userVars>>
    BY <2>1 DEF tableVars
  <2> QED
    BY <1>7, <2>1, <2>2, WaitText
<1>11. CASE StartEcho
  BY <1>7, <1>11, StartEchoText
<1>12. CASE StartReader
  BY <1>7, <1>12, StartReaderText
<1>13. CASE StartRead
  BY <1>7, <1>13, StartReadText
<1>14. CASE Read
  BY <1>7, <1>14, ReadText
<1>15. CASE ReadEof
  BY <1>7, <1>15, ReadEofText
<1>16. CASE NextBlock
  BY <1>7, <1>16, NextBlockText
<1>17. CASE NextLine
  BY <1>7, <1>17, NextLineText
<1>18. CASE LastLine
  BY <1>7, <1>18, LastLineText
<1>19. CASE Put
  BY <1>7, <1>19, PutText
<1>20. CASE PutDone
  BY <1>7, <1>20, PutDoneText
<1>21. CASE StageExit
  BY <1>7, <1>21, StageExitText
<1> QED
  BY <1>9, <1>10, <1>11, <1>12, <1>13, <1>14, <1>15, <1>16, <1>17, <1>18, <1>19, <1>20, <1>21
     DEF Stage
-----------------------------------------------------------------------------
\* A step of somebody else: the stages and their data stay as they are, but one that is
\* over may be forgotten.
Quiet ==
    /\ UNCHANGED <<inPipe, prog, arg, got, next, remain, lineBuf, pat, limit, total, cmd,
                   spawned, uart>>
    /\ \A i \in 1 .. Len(cmd.stages) : Inflow(i)' = Inflow(i)
    /\ \A p \in Procs : LiveStage(p)' => LiveStage(p)
    /\ \A p \in Procs : LiveStage(p) =>
         \/ /\ pstate'[p] # "UNUSED" /\ pc'[p] = pc[p]
            /\ pstate'[p] = "ZOMBIE" <=> pstate[p] = "ZOMBIE"
         \/ pstate[p] = "ZOMBIE" /\ pstate'[p] = "UNUSED"

LEMMA QuietText ==
    ASSUME PipeInv, TextRight, Quiet
    PROVE  TextRight'
<1>1. PICK left : Flow(left)
  BY DEF TextRight
<1>2. LocalsRight /\ ProcTypes /\ RolesRight
  BY DEF TextRight, PipeInv
<1>3. /\ UNCHANGED <<inPipe, prog, arg, got, next, remain, lineBuf, pat, limit, total, cmd,
                     spawned, uart>>
      /\ \A i \in 1 .. Len(cmd.stages) : Inflow(i)' = Inflow(i)
      /\ \A p \in Procs : LiveStage(p)' => LiveStage(p)
  BY DEF Quiet
<1>4. \A p \in Procs : LiveStage(p) =>
        \/ /\ pstate'[p] # "UNUSED" /\ pc'[p] = pc[p]
           /\ pstate'[p] = "ZOMBIE" <=> pstate[p] = "ZOMBIE"
        \/ pstate[p] = "ZOMBIE" /\ pstate'[p] = "UNUSED"
  BY DEF Quiet
<1>5. ASSUME NEW p \in Procs, LiveStage(p)'
      PROVE  /\ LiveStage(p) /\ pstate'[p] # "UNUSED"
             /\ pstate'[p] = "ZOMBIE" <=> pstate[p] = "ZOMBIE"
             /\ \A t \in Seq(Bytes) : Rest(p, t)' = Rest(p, t)
             /\ LocalOf(p) => LocalOf(p)'
  <2>1. LiveStage(p) /\ pstate'[p] # "UNUSED"
    BY <1>3, <1>5 DEF LiveStage, Live
  <2>2. pc'[p] = pc[p] /\ (pstate'[p] = "ZOMBIE" <=> pstate[p] = "ZOMBIE")
    BY <1>4, <2>1
  <2>3. SameLocals(p)
    BY <1>3, <2>2 DEF SameLocals
  <2>4. pc[p] \in StagePcs(prog[p])
    BY <1>2, <2>1, StageFacts DEF IsStage
  <2>5. ASSUME NEW t PROVE Rest(p, t)' = Rest(p, t) /\ (LocalOf(p) => LocalOf(p)')
    BY <1>3, <2>1, <2>3, <2>4, RestKept
  <2> QED
    BY <2>1, <2>2, <2>5
<1>6. LocalsRight'
  <2>1. ASSUME NEW p \in Procs, LiveStage(p)', pstate'[p] # "ZOMBIE" PROVE LocalOf(p)'
    <3>1. LiveStage(p) /\ pstate[p] # "ZOMBIE" /\ (LocalOf(p) => LocalOf(p)')
      BY <1>5, <2>1
    <3>2. LocalOf(p)
      BY <1>2, <3>1 DEF LocalsRight
    <3> QED
      BY <3>1, <3>2
  <2> QED
    BY <2>1 DEF LocalsRight
<1>7. Flow(left)'
  <2>1. \A p \in Procs : LiveStage(p) => StageNo(p) \in 1 .. Len(cmd.stages)
    <3>1. ASSUME NEW p \in Procs, LiveStage(p) PROVE StageNo(p) \in 1 .. Len(cmd.stages)
      <4>1. /\ Len(cmd.stages) \in Nat /\ spawned \in Nat
            /\ StageNo(p) \in 1 .. spawned /\ spawned <= Len(cmd.stages)
        BY <1>2, <3>1, StageFacts
      <4> QED
        BY <4>1
    <3> QED
      BY <3>1
  <2>2. \A p \in Procs : LiveStage(p)' =>
          /\ LiveStage(p) /\ inPipe'[p] = inPipe[p]
          /\ \A t \in Seq(Bytes) : Rest(p, t)' = Rest(p, t)
    BY <1>3, <1>5
  <2>3. \A p \in Procs : LiveStage(p) =>
          (LiveStage(p)' /\ inPipe'[p] = inPipe[p]) \/ pstate[p] = "ZOMBIE"
    BY <1>3, <1>4 DEF LiveStage, Live
  <2> QED
    BY <1>1, <1>2, <1>3, <2>1, <2>2, <2>3, FlowStill
<1> QED
  BY <1>6, <1>7 DEF TextRight

\* The scheduler's steps.
LEMMA SchedText ==
    ASSUME PipeInv, TextRight, SchedStep, UNCHANGED <<progVars, userVars>>
    PROVE  TextRight'
<1>1. UNCHANGED <<inPipe, outPipe, prog, arg, pc, got, next, remain, lineBuf, pat, limit, total,
                  cmd, spawned, uart>>
  BY DEF SchedStep, Dispatch, Finished, Yielded, tableVars, progVars, userVars
<1>2. ListTypes /\ TableTypes /\ SchedRight
  BY TypesParts DEF PipeInv
<1>3. /\ \A p \in Procs : (pstate'[p] = "UNUSED" <=> pstate[p] = "UNUSED")
                          /\ (pstate'[p] = "ZOMBIE" <=> pstate[p] = "ZOMBIE")
      /\ \A i \in 1 .. Len(cmd.stages) : Inflow(i)' = Inflow(i)
  <2>1. CASE Dispatch
    <3>1. PICK n : n = Picked
      OBVIOUS
    <3>2. pstate' = [pstate EXCEPT ![n] = "RUNNING"] /\ pipe' = pipe /\ readyq # <<>>
      BY <2>1, <3>1 DEF Dispatch
    <3>3. n \in ToSet(readyq) /\ n \in Procs
      <4>1. /\ readyq \in Seq(Procs) /\ Len(readyq) \in Nat /\ Len(readyq) # 0
            /\ \A u : u \in ToSet(readyq) <=> \E i \in 1 .. Len(readyq) : readyq[i] = u
        BY <1>2, <3>2, LenProperties, EmptySeq, ToSetFacts DEF ListTypes
      <4>2. 1 \in 1 .. Len(readyq) /\ (Len(readyq) > 1 => 2 \in 1 .. Len(readyq))
        BY <4>1
      <4>3. n = readyq[1] \/ (Len(readyq) > 1 /\ n = readyq[2])
        BY <3>1 DEF Picked
      <4>4. n \in ToSet(readyq)
        BY <4>1, <4>2, <4>3
      <4>5. ToSet(readyq) \subseteq Procs
        BY <4>1, ToSetFacts
      <4> QED
        BY <4>4, <4>5
    <3>4. step = "none"
      BY <2>1 DEF Dispatch
    <3>5. pstate[n] \in {"READY", "RUNNING"}
      BY <1>2, <3>3, <3>4 DEF SchedRight
    <3>6. \A p \in Procs : pstate'[p] = IF p = n THEN "RUNNING" ELSE pstate[p]
      BY <1>2, <3>2, <3>3 DEF ListTypes
    <3> QED
      BY <3>2, <3>5, <3>6 DEF Inflow
  <2>2. CASE Yielded
    <3>1. /\ current \in Procs /\ pstate[current] \in {"RUNNING", "BLOCKED"} /\ pipe' = pipe
          /\ pstate' = pstate \/ pstate' = [pstate EXCEPT ![current] = "READY"]
      BY <1>2, <2>2 DEF Yielded, SchedRight
    <3>2. \A p \in Procs : pstate'[p] = pstate[p] \/ (p = current /\ pstate'[p] = "READY")
      BY <1>2, <3>1 DEF ListTypes
    <3> QED
      BY <3>1, <3>2 DEF Inflow
  <2>3. CASE Finished
    <3>1. PICK q : q = outPipe[current]
      OBVIOUS
    <3>2. /\ current \in Procs /\ pstate[current] = "ZOMBIE"
          /\ pipe' = pipe \/ pipe' = [pipe EXCEPT ![q] = Closed(pipe[q])]
          /\ \E list, rest : WakeOp(list, [pstate EXCEPT ![current] = "ZOMBIE"], rest)
      BY <1>2, <2>3, <3>1 DEF Finished, SchedRight
    <3>3. PICK list, rest : WakeOp(list, [pstate EXCEPT ![current] = "ZOMBIE"], rest)
      BY <3>2
    <3>4. [pstate EXCEPT ![current] = "ZOMBIE"] = pstate
      BY <1>2, <3>2 DEF ListTypes
    <3>5. WakeOp(list, pstate, rest)
      BY <3>3, <3>4
    <3>6. \A p \in Procs :
            pstate'[p] = pstate[p] \/ (pstate[p] = "BLOCKED" /\ pstate'[p] = "READY")
      BY <3>5 DEF WakeOp
    <3>7. ASSUME NEW i \in 1 .. Len(cmd.stages) PROVE Inflow(i)' = Inflow(i)
      <4>1. CASE i = 1
        BY <4>1 DEF Inflow
      <4>2. CASE i # 1
        <5>1. PICK r \in Pipes : r = i - 1
          BY <4>2, CommandIsGood DEF PipeInv
        <5>2. RingOK(pipe[r]) /\ pipe \in [Pipes -> PipeType]
          BY <1>2 DEF ListTypes
        <5>3. pipe'[r] = pipe[r] \/ pipe'[r] = Closed(pipe[r])
          BY <3>2, <5>2
        <5>4. Contents(pipe'[r]) = Contents(pipe[r])
          BY <5>2, <5>3, ClosedFacts
        <5> QED
          BY <4>2, <5>1, <5>4 DEF Inflow
      <4> QED
        BY <4>1, <4>2
    <3> QED
      BY <3>6, <3>7
  <2> QED
    BY <2>1, <2>2, <2>3 DEF SchedStep
<1>4. Quiet
  <2>1. \A p \in Procs : LiveStage(p)' => LiveStage(p)
    BY <1>1, <1>3 DEF LiveStage, Live
  <2>2. \A p \in Procs : LiveStage(p) => pstate'[p] # "UNUSED"
    BY <1>3 DEF LiveStage, Live
  <2> QED
    BY <1>1, <1>3, <2>1, <2>2 DEF Quiet
<1> QED
  BY <1>4, QuietText
\* Those of the command line and of the shell, but for typing and spawning.
LEMMA ShellText ==
    ASSUME PipeInv, TextRight, NoInput \/ MountFs \/ WaitChildren \/ Reap \/ Spawned \/ ExitShell
    PROVE  TextRight'
<1>1. /\ step = "in" /\ me \in Procs /\ Live(me) /\ pstate[me] = "RUNNING"
      /\ ProcTypes /\ RolesRight
  <2>1. step = "in"
    BY DEF NoInput, MountFs, WaitChildren, Reap, Spawned, ExitShell, Runs, At
  <2> QED
    BY <2>1, MeFacts DEF PipeInv
<1>2. prog[me] \in {"cli", "shell"}
  BY <1>1, WhoIsAt DEF NoInput, MountFs, WaitChildren, Reap, Spawned, ExitShell, Runs, At
<1>3. ~ LiveStage(me)
  BY <1>2, Names DEF LiveStage
<1>4. OwnTypes /\ ListTypes /\ TableTypes
  BY TypesParts DEF PipeInv
<1>5. ASSUME UNCHANGED <<inPipe, pipe, prog, arg, got, next, remain, lineBuf, pat, limit, total,
                         cmd, spawned, uart>>,
             \A p \in Procs \ {me} : pc'[p] = pc[p],
             pstate'[me] # "UNUSED",
             \A p \in Procs \ {me} :
               pstate'[p] = pstate[p] \/ (pstate[p] = "ZOMBIE" /\ pstate'[p] = "UNUSED")
      PROVE  TextRight'
  <2>1. \A i \in 1 .. Len(cmd.stages) : Inflow(i)' = Inflow(i)
    BY <1>5 DEF Inflow
  <2>2. \A p \in Procs : LiveStage(p)' => LiveStage(p)
    BY <1>1, <1>5 DEF LiveStage, Live
  <2>3. ASSUME NEW p \in Procs, LiveStage(p)
        PROVE  \/ /\ pstate'[p] # "UNUSED" /\ pc'[p] = pc[p]
                  /\ pstate'[p] = "ZOMBIE" <=> pstate[p] = "ZOMBIE"
               \/ pstate[p] = "ZOMBIE" /\ pstate'[p] = "UNUSED"
    <3>1. p # me /\ pstate[p] # "UNUSED"
      BY <1>3, <2>3 DEF LiveStage, Live
    <3>2. pc'[p] = pc[p]
      BY <1>5, <3>1
    <3>3. pstate'[p] = pstate[p] \/ (pstate[p] = "ZOMBIE" /\ pstate'[p] = "UNUSED")
      BY <1>5, <3>1
    <3> QED
      BY <3>1, <3>2, <3>3
  <2>4. Quiet
    BY <1>5, <2>1, <2>2, <2>3 DEF Quiet
  <2> QED
    BY <2>4, QuietText
<1>6. CASE NoInput \/ WaitChildren
  <2>1. /\ UNCHANGED <<inPipe, pipe, prog, arg, got, next, remain, lineBuf, pat, limit, total,
                       cmd, spawned, uart>>
        /\ pc' = pc /\ pstate' = pstate
    BY <1>6 DEF NoInput, WaitChildren, tableVars, schedVars, progVars, userVars
  <2> QED
    BY <1>1, <1>5, <2>1
<1>7. CASE ExitShell
  <2>1. /\ UNCHANGED <<inPipe, pipe, prog, arg, got, next, remain, lineBuf, pat, limit, total,
                       cmd, spawned, uart>>
        /\ pc' = pc /\ pstate' = [pstate EXCEPT ![me] = "ZOMBIE"]
    BY <1>7 DEF ExitShell, ExitOp, tableVars, progVars, userVars, me
  <2>2. \A p \in Procs : pstate'[p] = IF p = me THEN "ZOMBIE" ELSE pstate[p]
    BY <1>1, <1>4, <2>1 DEF ListTypes
  <2>3. pstate'[me] # "UNUSED"
    BY <1>1, <2>2
  <2> QED
    BY <1>1, <1>5, <2>1, <2>2, <2>3
<1>8. CASE Spawned
  <2>1. /\ UNCHANGED <<inPipe, pipe, prog, arg, got, next, remain, lineBuf, pat, limit, total,
                       cmd, spawned, uart>>
        /\ pc' = [pc EXCEPT ![me] = "wait"] /\ pstate' = pstate
    BY <1>8 DEF Spawned, Goto, procVars, userVars
  <2>2. \A p \in Procs \ {me} : pc'[p] = pc[p]
    BY <1>4, <2>1 DEF OwnTypes
  <2> QED
    BY <1>1, <1>5, <2>1, <2>2
<1>9. CASE Reap
  <2>1. PICK dead : dead = {c \in ToSet(children[me]) : pstate[c] = "ZOMBIE"}
    OBVIOUS
  <2>2. /\ UNCHANGED <<inPipe, pipe, prog, arg, got, next, remain, lineBuf, pat, limit, total,
                       cmd, spawned, uart>>
        /\ pc' = [pc EXCEPT ![me] = "start"]
        /\ pstate' = [c \in Procs |-> IF c \in dead THEN "UNUSED" ELSE pstate[c]]
    BY <1>9, <2>1 DEF Reap, ReapOp, Goto, userVars
  <2>3. \A p \in Procs \ {me} : pc'[p] = pc[p]
    BY <1>4, <2>2 DEF OwnTypes
  <2>4. \A p \in Procs : p \in dead => pstate[p] = "ZOMBIE"
    BY <2>1
  <2>5. pstate'[me] # "UNUSED"
    BY <1>1, <2>2, <2>4
  <2>6. \A p \in Procs \ {me} :
          pstate'[p] = pstate[p] \/ (pstate[p] = "ZOMBIE" /\ pstate'[p] = "UNUSED")
    BY <2>2, <2>4
  <2> QED
    BY <1>5, <2>2, <2>3, <2>5, <2>6
<1>10. CASE MountFs
  <2>1. /\ prog[me] = "cli" /\ pc[me] = "start"
        /\ UNCHANGED <<pipe, lineBuf, pat, limit, total, cmd, spawned, uart>>
    BY <1>10 DEF MountFs, Runs, At, userVars
  <2>2. \A p \in Procs : ~ LiveStage(p)
    BY <1>1, <1>2, <2>1, NoStages
  <2>3. \A p \in Procs : ~ LiveStage(p)'
    <3>1. CASE Unused = {}
      <4>1. UNCHANGED <<pstate, prog>>
        BY <1>10, <3>1 DEF MountFs, schedVars
      <4> QED
        BY <2>2, <4>1 DEF LiveStage, Live
    <3>2. CASE Unused # {}
      <4>1. PICK p \in Procs : SpawnOp(p, me, NULL, NULL) /\ Load(p, "shell", NULL)
        BY <1>10, <3>2 DEF MountFs
      <4>2. pstate' = [pstate EXCEPT ![p] = "READY"] /\ prog' = [prog EXCEPT ![p] = "shell"]
        BY <4>1 DEF SpawnOp, Load
      <4>3. \A x \in Procs : prog'[x] = IF x = p THEN "shell" ELSE prog[x]
        BY <1>4, <4>2 DEF TableTypes
      <4>4. \A x \in Procs \ {p} : pstate'[x] = pstate[x]
        BY <1>4, <4>2 DEF ListTypes
      <4>5. "shell" \notin StagePrograms
        BY Names
      <4> QED
        BY <2>2, <4>3, <4>4, <4>5 DEF LiveStage, Live
    <3> QED
      BY <3>1, <3>2
  <2>4. \A i \in 1 .. Len(cmd.stages) : Inflow(i)' = Inflow(i)
    BY <2>1 DEF Inflow
  <2>5. PICK left : Flow(left)
    BY DEF TextRight
  <2>6. Flow(left)'
    BY <1>1, <2>1, <2>2, <2>3, <2>4, <2>5, FlowStill
  <2>7. LocalsRight'
    BY <2>3 DEF LocalsRight
  <2> QED
    BY <2>6, <2>7 DEF TextRight
<1> QED
  BY <1>6, <1>7, <1>8, <1>9, <1>10

\* A command is typed: nothing of it is put out yet, and its pipes are empty.
LEMMA TypeCommandText ==
    ASSUME PipeInv, NEW c \in Commands, TypeCommand(c)
    PROVE  TextRight'
<1>1. /\ step = "in" /\ prog[me] = "shell" /\ pc[me] = "start"
      /\ cmd' = c /\ spawned' = 0 /\ uart' = <<>>
      /\ pipe' = [q \in Pipes |-> IF q < Len(c.stages) THEN EmptyPipe ELSE pipe[q]]
      /\ UNCHANGED <<pstate, prog>>
  BY DEF TypeCommand, Runs, At, schedVars
<1>2. \A p \in Procs : ~ LiveStage(p)
  BY <1>1, NoStages
<1>3. \A p \in Procs : ~ LiveStage(p)'
  BY <1>1, <1>2 DEF LiveStage, Live
<1>4. /\ GoodCommand(c) /\ Len(c.stages) \in Nat
      /\ \A i \in 1 .. Len(c.stages) : i # 1 => i - 1 \in Pipes
  BY CommandsGood
<1>5. PICK left \in [0 .. Len(c.stages) -> Seq(Bytes)] :
        /\ left[0] = c.input
        /\ \A i \in 1 .. Len(c.stages) : left[i] = StageText(left[i - 1], c.stages[i])
        /\ left[Len(c.stages)] = FoldLeft(StageText, c.input, c.stages)
  BY <1>4, CommandText
<1>6. ASSUME NEW i \in 1 .. Len(c.stages) PROVE Inflow(i)' \o left[i - 1] = left[i - 1]
  <2>1. PICK j : j = i - 1
    OBVIOUS
  <2>2. j \in 0 .. Len(c.stages) /\ j < Len(c.stages)
    BY <1>4, <2>1
  <2>3. left[j] \in Seq(Bytes)
    BY <2>2
  <2>4. Inflow(i)' = <<>>
    <3>1. CASE i = 1
      BY <3>1 DEF Inflow
    <3>2. CASE i # 1
      <4>1. j \in Pipes
        BY <1>4, <2>1, <3>2
      <4>2. pipe'[j] = EmptyPipe
        BY <1>1, <2>2, <4>1
      <4>3. Contents(pipe'[j]) = <<>>
        BY <4>2, EmptyFacts
      <4> QED
        BY <2>1, <3>2, <4>3 DEF Inflow
    <3> QED
      BY <3>1, <3>2
  <2>5. <<>> \o left[j] = left[j]
    BY <2>3
  <2> QED
    BY <2>1, <2>4, <2>5
<1>7. ASSUME NEW i \in 1 .. Len(c.stages)
      PROVE  left[i] = StageText(Inflow(i)' \o left[i - 1], c.stages[i])
  BY <1>5, <1>6
<1>8. uart' \o left[Len(cmd'.stages)] = FoldLeft(StageText, cmd'.input, cmd'.stages)
  <2>1. PICK s \in Seq(Bytes) : s = left[Len(c.stages)]
    BY <1>4, <1>5
  <2>2. <<>> \o s = s
    OBVIOUS
  <2> QED
    BY <1>1, <1>5, <2>1, <2>2
<1>9. \A i \in 1 .. spawned' : FALSE
  BY <1>1
<1>10. Flow(left)'
  BY <1>1, <1>3, <1>5, <1>7, <1>8, <1>9 DEF Flow
<1>11. LocalsRight'
  BY <1>3 DEF LocalsRight
<1> QED
  BY <1>10, <1>11 DEF TextRight

\* The next stage is spawned: what was to come out of it still is.
LEMMA SpawnStageText ==
    ASSUME PipeInv, ArgsRight, TextRight, SpawnStage
    PROVE  TextRight'
<1>1. PICK i : i = spawned + 1
  OBVIOUS
<1>2. PICK n : n = Len(cmd.stages)
  OBVIOUS
<1>3. /\ step = "in" /\ pc[me] = "spawn" /\ i <= n /\ spawned' = i
      /\ UNCHANGED <<current, step, pipe, lineBuf, pat, limit, total, cmd, uart>>
      /\ \E p \in Procs :
           /\ SpawnOp(p, me, IF i = 1 THEN NULL ELSE i - 1, IF i = n THEN NULL ELSE i)
           /\ Load(p, cmd.stages[i].prog, cmd.stages[i].arg)
           /\ pc' = [pc EXCEPT ![p] = "start"]
  BY <1>1, <1>2 DEF SpawnStage, At
<1>4. PICK p \in Procs :
        /\ SpawnOp(p, me, IF i = 1 THEN NULL ELSE i - 1, IF i = n THEN NULL ELSE i)
        /\ Load(p, cmd.stages[i].prog, cmd.stages[i].arg)
        /\ pc' = [pc EXCEPT ![p] = "start"]
  BY <1>3
<1>5. OwnTypes /\ ListTypes /\ TableTypes /\ ProcTypes /\ RolesRight
  BY TypesParts DEF PipeInv
<1>6. /\ n \in Nat /\ spawned \in Nat /\ i \in 1 .. n /\ spawned \in 0 .. n
      /\ \A k \in 1 .. n : k # 1 => k - 1 \in Pipes
  <2>1. n \in Nat /\ spawned \in 0 .. n /\ \A k \in 1 .. n : k # 1 => k - 1 \in Pipes
    BY <1>2, <1>5, CommandIsGood
  <2> QED
    BY <1>1, <1>3, <2>1
<1>7. PICK in : in = IF i = 1 THEN NULL ELSE i - 1
  OBVIOUS
<1>8. (IF in = NULL THEN 1 ELSE in + 1) = i
  <2>1. i # 1 => in \in Pipes /\ in = i - 1 /\ in # NULL
    BY <1>6, <1>7, Names
  <2>2. i = 1 => in = NULL
    BY <1>7
  <2> QED
    BY <1>6, <2>1, <2>2
<1>9. pstate[p] = "UNUSED"
  <2>1. p = Min(Unused) /\ Unused # {}
    BY <1>4 DEF SpawnOp
  <2>2. Unused \in SUBSET Nat
    BY ProcsAssumption DEF Unused, Procs
  <2>3. p \in Unused
    BY <2>1, <2>2, MinOfNats
  <2> QED
    BY <2>3 DEF Unused
<1>10. /\ pstate' = [pstate EXCEPT ![p] = "READY"] /\ inPipe' = [inPipe EXCEPT ![p] = in]
       /\ prog' = [prog EXCEPT ![p] = cmd.stages[i].prog]
       /\ arg' = [arg EXCEPT ![p] = cmd.stages[i].arg]
       /\ got' = [got EXCEPT ![p] = 0] /\ next' = [next EXCEPT ![p] = 0]
       /\ remain' = [remain EXCEPT ![p] = 0] /\ pc' = [pc EXCEPT ![p] = "start"]
  BY <1>4, <1>7 DEF SpawnOp, Load
<1>11. PICK g : g = cmd.stages[i].prog
  OBVIOUS
<1>12. PICK a : a = cmd.stages[i].arg
  OBVIOUS
<1>13. \A x \in Procs :
         /\ pstate'[x] = IF x = p THEN "READY" ELSE pstate[x]
         /\ inPipe'[x] = IF x = p THEN in ELSE inPipe[x]
         /\ prog'[x] = IF x = p THEN g ELSE prog[x]
  BY <1>5, <1>10, <1>11 DEF ListTypes, TableTypes
<1>14. \A x \in Procs :
         /\ pc'[x] = IF x = p THEN "start" ELSE pc[x]
         /\ x # p => got'[x] = got[x] /\ next'[x] = next[x] /\ remain'[x] = remain[x]
  BY <1>5, <1>10 DEF OwnTypes
<1>15. \A x \in Procs : arg'[x] = IF x = p THEN a ELSE arg[x]
  BY <1>10, <1>12 DEF ArgsRight
<1>16. g \in StagePrograms
  <2>1. GoodCommand(cmd)
    BY <1>5, CommandIsGood
  <2> QED
    BY <1>2, <1>6, <1>11, <2>1 DEF GoodCommand
<1>17. LiveStage(p)' /\ StageNo(p)' = i
  BY <1>8, <1>13, <1>16 DEF LiveStage, Live, StageNo
<1>18. \A x \in Procs : LiveStage(x) => x # p
  BY <1>9 DEF LiveStage, Live
<1>19. \A x \in Procs : x # p => (LiveStage(x)' <=> LiveStage(x)) /\ StageNo(x)' = StageNo(x)
  BY <1>13 DEF LiveStage, Live, StageNo
<1>20. ASSUME NEW x \in Procs, LiveStage(x)
       PROVE  /\ StageNo(x) \in 1 .. spawned /\ StageNo(x) \in 1 .. n
              /\ \A t : Rest(x, t)' = Rest(x, t)
              /\ LocalOf(x) => LocalOf(x)'
  <2>1. x # p
    BY <1>18, <1>20
  <2>2. SameLocals(x)
    BY <1>3, <1>13, <1>14, <1>15, <2>1 DEF SameLocals
  <2>3. pc[x] \in StagePcs(prog[x]) /\ StageNo(x) \in 1 .. spawned
    BY <1>5, <1>20, StageFacts DEF IsStage
  <2>4. StageNo(x) \in 1 .. n
    BY <1>6, <2>3
  <2>5. ASSUME NEW t PROVE Rest(x, t)' = Rest(x, t) /\ (LocalOf(x) => LocalOf(x)')
    BY <1>3, <1>20, <2>2, <2>3, RestKept
  <2> QED
    BY <2>3, <2>4, <2>5
<1>21. PICK left : Flow(left)
  BY DEF TextRight
<1>22. LocalsRight
  BY DEF TextRight
<1>23. \A k : Inflow(k)' = Inflow(k)
  BY <1>3 DEF Inflow
<1>24. LocalsRight'
  <2> SUFFICES ASSUME NEW x \in Procs, LiveStage(x)', pstate'[x] # "ZOMBIE" PROVE LocalOf(x)'
    BY DEF LocalsRight
  <2>1. CASE x = p
    <3>1. pc'[x] = "start" /\ arg'[x] = a /\ StageNo(x)' = i /\ cmd'.stages[i].arg = a
      BY <1>3, <1>12, <1>14, <1>15, <1>17, <2>1
    <3> QED
      BY <3>1 DEF LocalOf
  <2>2. CASE x # p
    <3>1. LiveStage(x) /\ pstate[x] # "ZOMBIE"
      BY <1>13, <1>19, <2>2
    <3>2. LocalOf(x)
      BY <1>22, <3>1 DEF LocalsRight
    <3> QED
      BY <1>20, <3>1, <3>2
  <2> QED
    BY <2>1, <2>2
<1>25. ASSUME NEW x \in Procs, LiveStage(x)'
       PROVE  (left[StageNo(x)] = Rest(x, Inflow(StageNo(x)) \o left[StageNo(x) - 1]))'
  <2>1. CASE x = p
    <3>1. left[i] = StageText(Inflow(i) \o left[i - 1], cmd.stages[i])
      <4>1. spawned < i /\ i \in 1 .. Len(cmd.stages)
        BY <1>1, <1>2, <1>6
      <4> QED
        BY <1>21, <4>1 DEF Flow
    <3>2. PICK t : t = Inflow(i) \o left[i - 1]
      OBVIOUS
    <3>3. Rest(x, t)' = StageText(t, cmd.stages[i])
      <4>1. pstate'[x] = "READY" /\ pc'[x] = "start" /\ StageNo(x)' = i /\ cmd' = cmd
        BY <1>3, <1>13, <1>14, <1>17, <2>1
      <4> QED
        BY <4>1 DEF Rest
    <3>4. (left[i] = Rest(x, Inflow(i) \o left[i - 1]))'
      BY <1>23, <3>1, <3>2, <3>3
    <3>5. (StageNo(x) = i)'
      BY <1>17, <2>1
    <3> QED
      BY <3>4, <3>5
  <2>2. CASE x # p
    <3>1. LiveStage(x) /\ StageNo(x)' = StageNo(x)
      BY <1>19, <1>25, <2>2
    <3>2. PICK k : k = StageNo(x)
      OBVIOUS
    <3>3. left[k] = Rest(x, Inflow(k) \o left[k - 1])
      BY <1>21, <3>1, <3>2 DEF Flow
    <3>4. PICK t : t = Inflow(k) \o left[k - 1]
      OBVIOUS
    <3>5. Rest(x, t)' = Rest(x, t)
      BY <1>20, <3>1
    <3>6. (left[k] = Rest(x, Inflow(k) \o left[k - 1]))'
      BY <1>23, <3>3, <3>4, <3>5
    <3>7. (StageNo(x) = k)'
      BY <3>1, <3>2
    <3> QED
      BY <3>6, <3>7
  <2> QED
    BY <2>1, <2>2
<1>26. ASSUME NEW k \in 1 .. spawned', \A x \in Procs : LiveStage(x)' => StageNo(x)' # k
       PROVE  left[k] = <<>>
  <2>1. k # i
    BY <1>17, <1>26
  <2>2. k \in 1 .. spawned
    BY <1>1, <1>3, <1>6, <2>1
  <2>3. \A x \in Procs : LiveStage(x) => StageNo(x) # k
    BY <1>18, <1>19, <1>26
  <2> QED
    BY <1>21, <2>2, <2>3 DEF Flow
<1>27. ASSUME NEW k \in 1 .. Len(cmd.stages), spawned' < k
       PROVE  left[k] = StageText(Inflow(k)' \o left[k - 1], cmd.stages[k])
  <2>1. spawned < k
    BY <1>1, <1>3, <1>6, <1>27
  <2>2. left[k] = StageText(Inflow(k) \o left[k - 1], cmd.stages[k])
    BY <1>21, <2>1 DEF Flow
  <2> QED
    BY <1>23, <2>2
<1>28. /\ left \in [0 .. Len(cmd.stages) -> Seq(Bytes)] /\ left[0] = cmd.input
       /\ uart \o left[Len(cmd.stages)] = FoldLeft(StageText, cmd.input, cmd.stages)
  BY <1>21 DEF Flow
<1>29. Flow(left)'
  BY <1>3, <1>25, <1>26, <1>27, <1>28 DEF Flow
<1> QED
  BY <1>24, <1>29 DEF TextRight

LEMMA ArgsKept ==
    ASSUME ArgsRight, [PipelineNext]_allVars
    PROVE  ArgsRight'
<1>1. arg' = arg \/ \E p, a : arg' = [arg EXCEPT ![p] = a]
  <2>1. CASE SchedStep /\ UNCHANGED <<progVars, userVars>>
    BY <2>1 DEF progVars
  <2>2. CASE NoInput \/ WaitChildren \/ Reap \/ Spawned \/ ExitShell
    BY <2>2 DEF NoInput, WaitChildren, Reap, Spawned, ExitShell, progVars
  <2>3. CASE MountFs
    BY <2>3 DEF MountFs, Load
  <2>4. CASE SpawnStage
    BY <2>4 DEF SpawnStage, Load
  <2>5. CASE \E c \in Commands : TypeCommand(c)
    BY <2>5 DEF TypeCommand
  <2>6. CASE Stage
    BY <2>6 DEF Stage, StartEcho, StartReader, StartRead, Read, ReadWait, ReadEof, NextBlock,
       NextLine, LastLine, Put, PutWait, PutDone, StageExit, progVars
  <2>7. CASE UNCHANGED allVars
    BY <2>7 DEF allVars, progVars
  <2> QED
    BY <2>1, <2>2, <2>3, <2>4, <2>5, <2>6, <2>7 DEF PipelineNext
<1>2. DOMAIN arg = Procs
  BY DEF ArgsRight
<1>3. DOMAIN arg' = Procs /\ arg' = [p \in DOMAIN arg' |-> arg'[p]]
  BY <1>1, <1>2 DEF ArgsRight
<1> QED
  BY <1>3 DEF ArgsRight

LEMMA InitText ==
    ASSUME PipelineInit
    PROVE  TextInv
<1>1. /\ cmd = NoCmd /\ spawned = 0 /\ uart = <<>>
      /\ prog = [p \in Procs |-> IF p = Cli THEN "cli" ELSE "idle"]
      /\ arg = [p \in Procs |-> NULL]
  BY DEF PipelineInit
<1>2. \A p \in Procs : ~ LiveStage(p)
  <2>1. \A p \in Procs : prog[p] \in {"cli", "idle"}
    BY <1>1
  <2> QED
    BY <2>1, Names DEF LiveStage
<1>3. ArgsRight
  BY <1>1 DEF ArgsRight
<1>4. PICK c : c = NoCmd
  OBVIOUS
<1>5. GoodCommand(c) /\ Len(c.stages) = 0 /\ cmd = c
  <2>1. GoodCommand(c)
    BY <1>4, CommandsGood
  <2>2. c.stages = <<>>
    BY <1>4 DEF NoCmd
  <2>3. Len(c.stages) = 0
    BY <2>2
  <2> QED
    BY <1>1, <1>4, <2>1, <2>3
<1>6. PICK left \in [0 .. Len(c.stages) -> Seq(Bytes)] :
        left[0] = c.input /\ left[Len(c.stages)] = FoldLeft(StageText, c.input, c.stages)
  BY <1>5, CommandText
<1>7. uart \o left[Len(cmd.stages)] = FoldLeft(StageText, cmd.input, cmd.stages)
  <2>1. PICK s : s = left[Len(c.stages)]
    OBVIOUS
  <2>2. s \in Seq(Bytes)
    BY <1>5, <1>6, <2>1
  <2>3. <<>> \o s = s
    BY <2>2
  <2> QED
    BY <1>1, <1>5, <1>6, <2>1, <2>3
<1>8. Len(cmd.stages) = 0 /\ left \in [0 .. Len(cmd.stages) -> Seq(Bytes)] /\ left[0] = cmd.input
  BY <1>5, <1>6
<1>9. Flow(left)
  <2>1. \A i \in 1 .. Len(cmd.stages) : FALSE
    BY <1>8
  <2>2. \A i \in 1 .. spawned : FALSE
    BY <1>1
  <2> QED
    BY <1>2, <1>7, <1>8, <2>1, <2>2 DEF Flow
<1>10. LocalsRight
  BY <1>2 DEF LocalsRight
<1> QED
  BY <1>3, <1>9, <1>10 DEF TextInv, TextRight

LEMMA StepText ==
    ASSUME PipeInv, TextInv, [PipelineNext]_allVars
    PROVE  TextInv'
<1>1. ArgsRight /\ (Unshared(cmd) => TextRight)
  BY DEF TextInv
<1>2. ArgsRight'
  BY <1>1, ArgsKept
<1>3. CASE \E c \in Commands : TypeCommand(c)
  BY <1>2, <1>3, TypeCommandText DEF TextInv
<1>4. CASE ~ \E c \in Commands : TypeCommand(c)
  <2>1. cmd' = cmd
    <3>1. CASE SchedStep /\ UNCHANGED <<progVars, userVars>>
      BY <3>1 DEF userVars
    <3>2. CASE NoInput \/ MountFs \/ WaitChildren \/ Reap \/ SpawnStage \/ Spawned \/ ExitShell
      BY <3>2 DEF NoInput, MountFs, WaitChildren, Reap, SpawnStage, Spawned, ExitShell, userVars
    <3>3. CASE Stage
      BY <3>3 DEF Stage, StartEcho, StartReader, StartRead, Read, ReadWait, ReadEof, NextBlock,
         NextLine, LastLine, Put, PutWait, PutDone, StageExit, userVars
    <3>4. CASE UNCHANGED allVars
      BY <3>4 DEF allVars, userVars
    <3> QED
      BY <1>4, <3>1, <3>2, <3>3, <3>4 DEF PipelineNext
  <2>2. Unshared(cmd)' <=> Unshared(cmd)
    BY <2>1 DEF Unshared
  <2>3. ASSUME Unshared(cmd) PROVE TextRight'
    <3>1. TextRight
      BY <1>1, <2>3
    <3>2. CASE SchedStep /\ UNCHANGED <<progVars, userVars>>
      BY <3>1, <3>2, SchedText
    <3>3. CASE NoInput \/ MountFs \/ WaitChildren \/ Reap \/ Spawned \/ ExitShell
      BY <3>1, <3>3, ShellText
    <3>4. CASE SpawnStage
      BY <1>1, <3>1, <3>4, SpawnStageText
    <3>5. CASE Stage
      BY <2>3, <3>1, <3>5, StageKeepsText
    <3>6. CASE UNCHANGED allVars
      <4>1. UNCHANGED <<inPipe, pipe, pstate, pc, prog, arg, got, next, remain, lineBuf, pat,
                        limit, total, cmd, spawned, uart>>
        BY <3>6 DEF allVars, procVars, progVars, userVars
      <4>2. Quiet
        BY <4>1 DEF Quiet, Inflow, LiveStage, Live
      <4> QED
        BY <3>1, <4>2, QuietText
    <3> QED
      BY <1>4, <3>2, <3>3, <3>4, <3>5, <3>6 DEF PipelineNext
  <2> QED
    BY <1>2, <2>2, <2>3 DEF TextInv
<1> QED
  BY <1>3, <1>4

\* A stage has a shell that is not back at its prompt.
LEMMA PromptMeansOver ==
    ASSUME PipeInv, NEW p \in Procs, IsShell(p), pc[p] = "start"
    PROVE  \A r \in Procs : ~ LiveStage(r)
<1> SUFFICES ASSUME NEW r \in Procs, LiveStage(r) PROVE FALSE
  OBVIOUS
<1>1. Live(p) /\ prog[p] = "shell"
  BY DEF IsShell, Alive, Live
<1>2. IsStage(r)
  BY StageFacts DEF PipeInv
<1>3. PICK s \in Procs : s = parent[r]
  BY <1>2 DEF IsStage
<1>4. Live(s) /\ pc[s] # "start" /\ prog[s] = "shell"
  BY <1>2, <1>3, Names DEF IsStage, LiveStage, PipeInv, FamilyRight
<1>5. s = p
  BY <1>1, <1>4 DEF PipeInv, RolesRight
<1> QED
  BY <1>4, <1>5

\* With no stage left and none to come there is nothing left to come out.
LEMMA TextGivesOutput ==
    ASSUME PipeInv, TextInv, Unshared(cmd)
    PROVE  OutputRight
<1> SUFFICES ASSUME NEW p \in Procs, IsShell(p), pc[p] = "start", spawned = Len(cmd.stages)
             PROVE  uart = FoldLeft(StageText, cmd.input, cmd.stages)
  BY DEF OutputRight
<1>1. PICK left : Flow(left)
  BY DEF TextInv, TextRight
<1>2. PICK n : n = Len(cmd.stages)
  OBVIOUS
<1>3. \A r \in Procs : ~ LiveStage(r)
  BY PromptMeansOver
<1>4. n \in Nat /\ uart \in Seq(Bytes) /\ cmd \in Commands \cup {NoCmd}
  BY <1>2, CommandIsGood DEF PipeInv, ProcTypes
<1>5. left[n] = <<>>
  <2>1. CASE n = 0
    <3>1. cmd = NoCmd
      BY <1>2, <1>4, <2>1, CommandsAssumption
    <3>2. cmd.input = <<>>
      BY <3>1 DEF NoCmd
    <3> QED
      BY <1>1, <2>1, <3>2 DEF Flow
  <2>2. CASE n # 0
    <3>1. n \in 1 .. spawned
      BY <1>2, <1>4, <2>2
    <3> QED
      BY <1>1, <1>3, <3>1 DEF Flow
  <2> QED
    BY <2>1, <2>2
<1>6. uart \o left[n] = FoldLeft(StageText, cmd.input, cmd.stages)
  BY <1>1, <1>2 DEF Flow
<1>7. uart \o <<>> = uart
  BY <1>4
<1> QED
  BY <1>5, <1>6, <1>7

\* In every state what the UART has got and what is left to come out of the last stage
\* are what the stages make of the input, so long as no two share a program's locals.
THEOREM TextInvariant == PipelineSpec => []TextInv
<1>1. PipelineInit => TextInv
  BY InitText
<1>2. PipeInv /\ TextInv /\ [PipelineNext]_allVars => TextInv'
  BY StepText
<1> QED
  BY <1>1, <1>2, PipeInvariant, PTL DEF PipelineSpec

\* The stages "read from p->stdin_pipe and write to p->stdout_pipe": back at its prompt
\* the shell finds put out what the stages one after the other make of the input, for
\* every command whose stages run different programs, however long its texts and however
\* small its pipes, lines and blocks, in every order the scheduler runs the stages.
THEOREM OutputRightCorrect == PipelineSpec => [](Unshared(cmd) => OutputRight)
<1>1. PipeInv /\ TextInv => (Unshared(cmd) => OutputRight)
  BY TextGivesOutput
<1> QED
  BY <1>1, PipeInvariant, TextInvariant, PTL
=============================================================================
