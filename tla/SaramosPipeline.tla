-------------------------- MODULE SaramosPipeline --------------------------
(***************************************************************************)
(* The enhanced shell's pipelines: cli_input_process() of                  *)
(* os/default/main.c, shell_interactive_process() and shell_execute() of   *)
(* tools/shell, and the stage programs of tools/shell/shell_procs.c, as    *)
(* processes of the cooperative scheduler.                                 *)
(*                                                                         *)
(* A program is a protothread: its position survives in pt_line (pc here)  *)
(* and what else must survive a yield is in p->io or in STATIC locals.     *)
(* The static ones belong to the program, not to the process, so two       *)
(* stages that run one program share them (lineBuf, pat, limit, total).    *)
(* A byte is the unit of data; NL is the newline, and the "\r\n" grep and  *)
(* wc put out is one NL.                                                   *)
(***************************************************************************)
EXTENDS SaramosProcess

CONSTANTS
    NL,         \* '\n'
    LineSize,   \* the size of the programs' line[]
    WcBufSize,  \* the size of proc_wc()'s buf[]
    TotalMod,   \* what proc_wc()'s counters, unsigned long, count up to
    Commands    \* what the user types: records [stages, input], a stage being a
                \* record [prog, arg] and input what the first stage puts out

ASSUME NLAssumption == NL \in Bytes
ASSUME LineSizeAssumption == LineSize \in Nat /\ LineSize > 1 /\ WcBufSize \in Nat \ {0}

Programs      == {"cat", "grep", "head", "wc"}
StagePrograms == Programs \cup {"echo", "sync"}

\* A count is put out as one byte of its own.
ASSUME CountsAssumption == TotalMod \in Nat \ {0} /\ 0 .. TotalMod - 1 \subseteq Bytes
\* No stage of a command is empty; they know what to do without a file, the first one
\* without a stdin pipe; head's number is one; shell_execute() has a pipe between any two.
ASSUME CommandsAssumption ==
    /\ Pipes \subseteq Nat \ {0}
    /\ \A c \in Commands :
         /\ c.input \in Seq(Bytes)
         /\ Len(c.stages) \in Nat \ {0} /\ DOMAIN c.stages = 1 .. Len(c.stages)
         /\ \A i \in 1 .. Len(c.stages) :
              /\ c.stages[i].prog \in StagePrograms
              /\ c.stages[i].prog = "head" => c.stages[i].arg \in Nat
              /\ i = 1 => c.stages[i].prog \in {"echo", "sync"}
              /\ i < Len(c.stages) => i \in Pipes
\* Bound: the static len of wc's block and the static i of echo are kept with the process
\* here (got, next), which is the same as long as no command runs either of them twice.
ASSUME StaticsAssumption ==
    \A c \in Commands : \A i, j \in 1 .. Len(c.stages) :
        c.stages[i].prog = c.stages[j].prog /\ c.stages[i].prog \in {"wc", "echo"} => i = j

VARIABLES
    prog,       \* p->fn: the program a process runs
    arg,        \* p->argv
    pc,         \* p->pt_line: where the program continues
    got,        \* p->io.rd_line_i, and for wc the bytes this block has so far
    next,       \* how far p->io.wr_ptr or p->io.out_ptr has come
    remain,     \* p->io.wr_remain or p->io.out_remain
    lineBuf,    \* lineBuf[g]: the static line[] of program g
    pat,        \* proc_grep()'s static pat
    limit,      \* proc_head()'s static n and count, as n - count
    total,      \* proc_wc()'s static counters
    cmd,        \* the stage_args of the last pipeline
    spawned,    \* how many of its stages shell_execute() has spawned
    uart        \* what its stages have put out to the UART

progVars == <<prog, arg, pc, got, next, remain, lineBuf, pat, limit, total>>
userVars == <<cmd, spawned, uart>>
allVars  == <<procVars, progVars, userVars>>

Idle  == 1      \* the places saramos_sched_init() and main() take
Cli   == 2
me    == current
NoCmd == [stages |-> <<>>, input |-> <<>>]

PipelineInit ==
    /\ pstate = [p \in Procs |-> IF p \in {Idle, Cli} THEN "READY" ELSE "UNUSED"]
    /\ parent = [p \in Procs |-> NULL]
    /\ children = [p \in Procs |-> <<>>]
    /\ readyq = <<Cli, Idle>>
    /\ current = NULL /\ step = "none"
    /\ pipe = [q \in Pipes |-> EmptyPipe]
    /\ writers = [q \in Pipes |-> <<>>] /\ readers = [q \in Pipes |-> <<>>]
    /\ inPipe = [p \in Procs |-> NULL] /\ outPipe = [p \in Procs |-> NULL]
    /\ prog = [p \in Procs |-> IF p = Cli THEN "cli" ELSE "idle"]
    /\ arg = [p \in Procs |-> NULL]
    /\ pc = [p \in Procs |-> "start"]
    /\ got = [p \in Procs |-> 0] /\ next = [p \in Procs |-> 0]
    /\ remain = [p \in Procs |-> 0]
    /\ lineBuf = [g \in Programs |-> [i \in 1 .. LineSize |-> Zero]]
    /\ pat = NULL /\ limit = 0 /\ total = 0
    /\ cmd = NoCmd /\ spawned = 0 /\ uart = <<>>

Runs(g)  == step = "in" /\ prog[me] = g
At(here) == step = "in" /\ pc[me] = here
Goto(there) == pc' = [pc EXCEPT ![me] = there]

\* PROC_YIELD
Yield == step' = "yielded"
-----------------------------------------------------------------------------
(***************************************************************************)
(* The command line and the shell. The idle process has no action: it is   *)
(* passed over while another process is ready, and the shell, or else the  *)
(* command line, polls all the time (a turn of it would be a deadlock).    *)
(***************************************************************************)
\* cli_input_process() and shell_interactive_process() at their prompt, the
\* UART without a complete line.
NoInput ==
    /\ step = "in" /\ prog[me] \in {"cli", "shell"} /\ pc[me] = "start"
    /\ Yield
    /\ UNCHANGED <<tableVars, schedVars, current, pipe, waitVars, progVars, userVars>>

\* The process a spawn makes: its slot is zeroed.
Load(p, g, a) ==
    /\ prog' = [prog EXCEPT ![p] = g]
    /\ arg' = [arg EXCEPT ![p] = a]
    /\ got' = [got EXCEPT ![p] = 0]
    /\ next' = [next EXCEPT ![p] = 0]
    /\ remain' = [remain EXCEPT ![p] = 0]

\* "sd mountfs" on the command line: cli_sd_mountfs() spawns the shell.
MountFs ==
    /\ Runs("cli") /\ At("start")
    /\ IF Unused = {}
       THEN Goto("wait") /\ UNCHANGED <<tableVars, schedVars, prog, arg, got, next, remain>>
       ELSE \E p \in Procs :
              /\ SpawnOp(p, me, NULL, NULL)
              /\ Load(p, "shell", NULL)
              /\ pc' = [pc EXCEPT ![me] = "wait", ![p] = "start"]
    /\ UNCHANGED <<current, step, pipe, waitVars, lineBuf, pat, limit, total, userVars>>

\* PROC_WAIT until no child is alive ...
WaitChildren ==
    /\ At("wait") /\ HasChildren(me)
    /\ Yield
    /\ UNCHANGED <<tableVars, schedVars, current, pipe, waitVars, progVars, userVars>>

\* ... then all of them are reaped.
Reap ==
    /\ At("wait") /\ ~ HasChildren(me)
    /\ ReapOp(me)
    /\ Goto("start")
    /\ UNCHANGED <<readyq, current, step, pipe, waitVars, inPipe, outPipe, prog, arg, got,
                   next, remain, lineBuf, pat, limit, total, userVars>>

\* A pipeline is typed: shell_execute() up to the initialisation of its pipes.
\* Pipe i leads from stage i to stage i + 1.
TypeCommand(c) ==
    /\ Runs("shell") /\ At("start")
    /\ cmd' = c /\ spawned' = 0 /\ uart' = <<>>
    /\ pipe' = [q \in Pipes |-> IF q < Len(c.stages) THEN EmptyPipe ELSE pipe[q]]
    /\ writers' = [q \in Pipes |-> IF q < Len(c.stages) THEN <<>> ELSE writers[q]]
    /\ readers' = [q \in Pipes |-> IF q < Len(c.stages) THEN <<>> ELSE readers[q]]
    /\ Goto("spawn")
    /\ UNCHANGED <<tableVars, schedVars, current, step, prog, arg, got, next, remain,
                   lineBuf, pat, limit, total>>

\* One turn of shell_execute()'s loop over the stages.
SpawnStage ==
    LET i == spawned + 1
        n == Len(cmd.stages)
    IN  /\ At("spawn") /\ i <= n /\ Unused # {}
        /\ \E p \in Procs :
             /\ SpawnOp(p, me, IF i = 1 THEN NULL ELSE i - 1, IF i = n THEN NULL ELSE i)
             /\ Load(p, cmd.stages[i].prog, cmd.stages[i].arg)
             /\ pc' = [pc EXCEPT ![p] = "start"]
        /\ spawned' = i
        /\ UNCHANGED <<current, step, pipe, waitVars, lineBuf, pat, limit, total, cmd, uart>>

\* shell_execute() returns: all stages are spawned, or the table is full and
\* the stages spawned so far run without the others.
Spawned ==
    /\ At("spawn") /\ (spawned = Len(cmd.stages) \/ Unused = {})
    /\ Goto("wait")
    /\ UNCHANGED <<procVars, prog, arg, got, next, remain, lineBuf, pat, limit, total, userVars>>

\* "exit" leaves the shell.
ExitShell ==
    /\ Runs("shell") /\ At("start")
    /\ ExitOp
    /\ UNCHANGED <<tableVars, readyq, current, pipe, waitVars, progVars, userVars>>
-----------------------------------------------------------------------------
(***************************************************************************)
(* The stage programs.  "echo" stands for every stage that puts out its    *)
(* own data and reads nothing: proc_echo(), proc_cat() of a file, and the  *)
(* file modes of grep, head and wc.  "sync" is a command with no process   *)
(* function, which proc_sync_wrapper() runs to its end in one step.        *)
(***************************************************************************)
Bytewise == {"cat", "grep", "head"}

\* The text of a count, as one byte of its own.
TotalByte == total

\* The byte a stage puts out next: of its command's input, of its program's
\* line (grep puts an NL after the line), or of wc's result.
OutByte ==
    CASE prog[me] = "echo" -> cmd.input[next[me] + 1]
      [] prog[me] = "wc"   -> IF remain[me] = 1 THEN NL ELSE TotalByte
      [] prog[me] = "grep" /\ remain[me] = 1 -> NL
      [] OTHER -> lineBuf[prog[me]][next[me] + 1]

StartPuts(n, there) ==
    /\ next' = [next EXCEPT ![me] = 0]
    /\ remain' = [remain EXCEPT ![me] = n]
    /\ Goto(there)

StartEcho ==
    /\ Runs("echo") /\ At("start")
    /\ StartPuts(Len(cmd.input), "put")
    /\ UNCHANGED <<procVars, prog, arg, got, lineBuf, pat, limit, total, userVars>>

\* Mutant: the counters keep what the last run of wc left in them.
StartReaderNoReset ==
    /\ At("start") /\ prog[me] \in Programs
    /\ pat' = IF prog[me] = "grep" THEN arg[me] ELSE pat
    /\ limit' = IF prog[me] = "head" THEN arg[me] ELSE limit
    /\ Goto("loop")
    /\ UNCHANGED <<procVars, prog, arg, got, next, remain, lineBuf, total, userVars>>

\* cat, grep, head and wc without a file: the static options are set, and the
\* reading begins.
StartReader ==
    /\ At("start") /\ prog[me] \in Programs
    /\ pat' = IF prog[me] = "grep" THEN arg[me] ELSE pat
    /\ limit' = IF prog[me] = "head" THEN arg[me] ELSE limit
    /\ total' = IF prog[me] = "wc" THEN 0 ELSE total
    /\ Goto("loop")
    /\ UNCHANGED <<procVars, prog, arg, got, next, remain, lineBuf, userVars>>

\* head has put out its n lines.
HeadDone == prog[me] = "head" /\ limit <= 0

\* The head of the programs' loops; PROC_PIPE_READ_LINE begins a line.
StartRead ==
    /\ At("loop") /\ ~ HeadDone
    /\ got' = [got EXCEPT ![me] = 0]
    /\ Goto("read")
    /\ UNCHANGED <<procVars, prog, arg, next, remain, lineBuf, pat, limit, total, userVars>>

\* PROC_PIPE_READ_LINE or PROC_PIPE_READ gets a byte.
Read ==
    LET q == inPipe[me]
        c == FrontByte(pipe[q])
        n == got[me] + 1
        whole == IF prog[me] = "wc" THEN n = WcBufSize ELSE n + 1 >= LineSize \/ c = NL
    IN  /\ At("read") /\ ~ Empty(pipe[q])
        /\ ReadOp(q)
        /\ got' = [got EXCEPT ![me] = n]
        /\ lineBuf' = IF prog[me] \in Bytewise THEN [lineBuf EXCEPT ![prog[me]][n] = c]
                      ELSE lineBuf
        /\ Goto(IF whole THEN "line" ELSE "read")
        /\ UNCHANGED <<tableVars, current, step, prog, arg, next, remain, pat, limit, total,
                       userVars>>

\* There is none: the process waits for a writer ...
ReadWait ==
    LET q == inPipe[me]
    IN  /\ At("read") /\ Empty(pipe[q]) /\ ~ pipe[q].eof
        /\ WaitReaderOp(q, me)
        /\ Yield
        /\ UNCHANGED <<tableVars, current, pipe, progVars, userVars>>

\* ... or, the writer gone, takes what it has.
ReadEof ==
    LET q == inPipe[me]
    IN  /\ At("read") /\ AtEof(pipe[q])
        /\ Goto("line")
        /\ UNCHANGED <<procVars, prog, arg, got, next, remain, lineBuf, pat, limit, total,
                       userVars>>

Line == SubSeq(lineBuf[prog[me]], 1, got[me])
AtEnd == got[me] = 0 /\ AtEof(pipe[inPipe[me]])

\* A block of wc is complete.
NextBlock ==
    /\ At("line") /\ ~ AtEnd /\ prog[me] = "wc"
    /\ total' = (total + got[me]) % TotalMod
    /\ Goto("loop")
    /\ UNCHANGED <<procVars, prog, arg, got, next, remain, lineBuf, pat, limit, userVars>>

\* A line is complete: its end is marked, and it is put out unless grep finds
\* no match in it.
NextLine ==
    /\ At("line") /\ ~ AtEnd /\ prog[me] \in Bytewise
    /\ lineBuf' = [lineBuf EXCEPT ![prog[me]][got[me] + 1] = Zero]
    /\ IF prog[me] = "grep" /\ ~ Contains(Line, pat)
       THEN Goto("loop") /\ UNCHANGED <<next, remain>>
       ELSE StartPuts(IF prog[me] = "grep" THEN got[me] + 1 ELSE got[me], "put")
    /\ UNCHANGED <<procVars, prog, arg, got, pat, limit, total, userVars>>

\* The end of the input: wc puts out its result, the others exit.
LastLine ==
    /\ At("line") /\ AtEnd
    /\ IF prog[me] = "wc" THEN StartPuts(2, "put") /\ UNCHANGED <<pstate, step>>
       ELSE ExitOp /\ UNCHANGED <<next, remain, pc>>
    /\ UNCHANGED <<tableVars, readyq, current, pipe, waitVars, prog, arg, got, lineBuf, pat,
                   limit, total, userVars>>

Advance ==
    /\ next' = [next EXCEPT ![me] = @ + 1]
    /\ remain' = [remain EXCEPT ![me] = @ - 1]

\* PROC_PIPE_WRITE and PROC_PUTS put out a byte: into the pipe or to the UART.
Put ==
    LET q == outPipe[me]
    IN  /\ At("put") /\ remain[me] > 0
        /\ IF q = NULL
           THEN uart' = Append(uart, OutByte) /\ UNCHANGED <<pipe, schedVars, waitVars>>
           ELSE ~ Full(pipe[q]) /\ WriteOp(q, OutByte) /\ UNCHANGED uart
        /\ Advance
        /\ UNCHANGED <<tableVars, current, step, prog, arg, pc, got, lineBuf, pat, limit, total,
                       cmd, spawned>>

\* The pipe is full: the process waits for a reader.
PutWait ==
    LET q == outPipe[me]
    IN  /\ At("put") /\ remain[me] > 0 /\ q # NULL /\ Full(pipe[q])
        /\ WaitWriterOp(q, me)
        /\ Yield
        /\ UNCHANGED <<tableVars, current, pipe, progVars, userVars>>

\* All is put out: on to the next line, or the end.
PutDone ==
    /\ At("put") /\ remain[me] = 0
    /\ IF prog[me] \in Bytewise
       THEN Goto("loop") /\ UNCHANGED <<pstate, step>>
       ELSE ExitOp /\ UNCHANGED pc
    /\ limit' = IF prog[me] = "head" THEN limit - 1 ELSE limit
    /\ UNCHANGED <<tableVars, readyq, current, pipe, waitVars, prog, arg, got, next, remain,
                   lineBuf, pat, total, userVars>>

\* head exits after its last line, and "sync" after its command, which knows
\* nothing of pipes.
StageExit ==
    /\ (At("loop") /\ HeadDone) \/ Runs("sync")
    /\ ExitOp
    /\ UNCHANGED <<tableVars, readyq, current, pipe, waitVars, progVars, userVars>>

Stage ==
    \/ StartEcho \/ StartReader
    \/ StartRead \/ Read \/ ReadWait \/ ReadEof
    \/ NextBlock \/ NextLine \/ LastLine
    \/ Put \/ PutWait \/ PutDone \/ StageExit

PipelineNext ==
    \/ SchedStep /\ UNCHANGED <<progVars, userVars>>
    \/ NoInput \/ MountFs \/ WaitChildren \/ Reap
    \/ \E c \in Commands : TypeCommand(c)
    \/ SpawnStage \/ Spawned \/ ExitShell
    \/ Stage

PipelineSpec == PipelineInit /\ [][PipelineNext]_allVars
-----------------------------------------------------------------------------
(***************************************************************************)
(* Properties.                                                             *)
(***************************************************************************)
Pcs == {"start", "wait", "spawn", "loop", "read", "line", "put"}

PipelineTypeOK ==
    /\ pstate \in [Procs -> ProcStates]
    /\ parent \in [Procs -> Procs \cup {NULL}]
    /\ children \in [Procs -> Seq(Procs)]
    /\ readyq \in Seq(Procs)
    /\ current \in Procs \cup {NULL}
    /\ step \in {"none", "in", "yielded", "done"}
    /\ \A q \in Pipes : RingOK(pipe[q])
    /\ writers \in [Pipes -> Seq(Procs)] /\ readers \in [Pipes -> Seq(Procs)]
    /\ inPipe \in [Procs -> Pipes \cup {NULL}] /\ outPipe \in [Procs -> Pipes \cup {NULL}]
    /\ prog \in [Procs -> StagePrograms \cup {"idle", "cli", "shell"}]
    /\ pc \in [Procs -> Pcs]
    /\ got \in [Procs -> 0 .. LineSize + WcBufSize]
    /\ next \in [Procs -> Nat] /\ remain \in [Procs -> Nat]
    /\ lineBuf \in [Programs -> [1 .. LineSize -> Bytes]]
    /\ uart \in Seq(Bytes)

Alive(p) == pstate[p] \notin {"UNUSED", "ZOMBIE"}
IsShell(p) == Alive(p) /\ prog[p] = "shell"

\* Between two steps the ready list holds each READY process once and nothing
\* else, although steps add, remove and rotate processes of every state.
RunnableListed ==
    step = "none" =>
        /\ Len(readyq) = Cardinality(ToSet(readyq))
        /\ ToSet(readyq) = {p \in Procs : pstate[p] = "READY"}

\* No wake-up is lost: a process sleeps on a pipe only while the pipe can give
\* it nothing, a reader while it is empty and open, a writer while it is full.
SleepersHaveCause ==
    \A p \in Procs : pstate[p] = "BLOCKED" =>
        \E q \in Pipes :
            \/ Contains(readers[q], p) /\ Empty(pipe[q]) /\ ~ pipe[q].eof
            \/ Contains(writers[q], p) /\ Full(pipe[q])

\* A process has one next_wait link: it is in one wait list at a time, once,
\* and only while it is BLOCKED (or is about to return from the step that
\* blocked it).
OneWaitList ==
    LET lists == [q \in Pipes |-> readers[q] \o writers[q]]
    IN  /\ \A q \in Pipes : Len(lists[q]) = Cardinality(ToSet(lists[q]))
        /\ \A q \in Pipes : \A p \in ToSet(lists[q]) :
             /\ pstate[p] = "BLOCKED"
             /\ \A r \in Pipes \ {q} : ~ Contains(lists[r], p)

\* A parent outlives its children, who are all reaped when it is back at its
\* prompt: no place of the table is lost, and no unblocking of a parent reaches
\* a place that has changed hands.
FamiliesIntact ==
    /\ \A p \in Procs : pstate[p] # "UNUSED" /\ parent[p] # NULL =>
         Alive(parent[p]) /\ Contains(children[parent[p]], p)
    /\ \A p \in Procs : (IsShell(p) \/ p = Cli) /\ pc[p] = "start" => children[p] = <<>>

\* The scheduler's lists, the pipes' lists and the families fit the states of the
\* processes in them, through every order of blocking, waking, exiting and reaping,
\* with every variable of its type.
ListsExact == PipelineTypeOK /\ RunnableListed /\ OneWaitList /\ FamiliesIntact

\* Every pipe of a pipeline is a first-in first-out channel: no byte is lost,
\* doubled or overtaken in the ring, and none is written after the close.
Abstract == INSTANCE Channels WITH
    Chans <- Pipes, Values <- Bytes, Capacity <- PipeSize,
    queue <- [q \in Pipes |-> Contents(pipe[q])],
    closed <- [q \in Pipes |-> pipe[q].eof]
ImplementsChannels == Abstract!Spec

\* The reference: the lines of a text, cut where a program's buffer is full.
LineLen(s) == Min({i \in 1 .. Len(s) : s[i] = NL \/ i = LineSize - 1 \/ i = Len(s)})
Lines[s \in Seq(Bytes)] ==
    IF s = <<>> THEN <<>>
    ELSE <<SubSeq(s, 1, LineLen(s))>> \o Lines[SubSeq(s, LineLen(s) + 1, Len(s))]

\* The lines with c in them, each with an NL after it; the first n lines.
GrepText(s, c) ==
    LET lines == Lines[s]
    IN  FlattenSeq([i \in 1 .. Len(lines) |->
                      IF Contains(lines[i], c) THEN Append(lines[i], NL) ELSE <<>>])
HeadText(s, n) == FlattenSeq(SubSeq(Lines[s], 1, Min({n, Len(Lines[s])})))

\* What a stage makes of the text s.
StageText(s, stage) ==
    CASE stage.prog = "cat"  -> s
      [] stage.prog = "grep" -> GrepText(s, stage.arg)
      [] stage.prog = "head" -> HeadText(s, stage.arg)
      [] stage.prog = "wc"   -> <<Len(s) % TotalMod, NL>>
      [] stage.prog = "sync" -> <<>>
      [] OTHER -> s

\* No two stages of a command share a program's static locals, and the first alone
\* puts out data of its own.
Unshared(c) ==
    /\ \A i, j \in 1 .. Len(c.stages) :
         c.stages[i].prog = c.stages[j].prog /\ c.stages[i].prog \in Programs => i = j
    /\ \A i \in 2 .. Len(c.stages) : c.stages[i].prog # "echo"

\* The stages "read from p->stdin_pipe and write to p->stdout_pipe when present"
\* (shell_procs.c:4): when the shell is back at its prompt, the UART has got
\* what the stages one after the other make of the input.
OutputRight ==
    \A p \in Procs : IsShell(p) /\ pc[p] = "start" /\ spawned = Len(cmd.stages) =>
        uart = FoldLeft(StageText, cmd.input, cmd.stages)

\* Fairness: the kernel keeps running the task of saramos_sched_run().
PipelineFair == PipelineSpec /\ WF_allVars(PipelineNext)

\* A pipeline whose stages read all of their input comes to its end, also when
\* the table had no place for its last stages.
ShellWaits == \E p \in Procs : IsShell(p) /\ pc[p] = "wait"
PipelinesEnd == ShellWaits ~> ~ ShellWaits

\* Processes woken go to the head of the list, before those that spin there;
\* each but the idle one gets its turn all the same.
EveryoneRuns ==
    \A p \in Procs \ {Idle} : pstate[p] = "READY" ~> pstate[p] = "RUNNING"

\* "Blocking process output helpers that yield when the pipe is full"
\* (saramos_process.h:124): who yields on a full pipe gets to run again.
FullWritersResume ==
    \A p \in Procs : pstate[p] = "BLOCKED" ~> pstate[p] # "BLOCKED"
=============================================================================
