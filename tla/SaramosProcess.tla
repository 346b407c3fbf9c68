--------------------------- MODULE SaramosProcess ---------------------------
(***************************************************************************)
(* The cooperative side of the system: the process table of                *)
(* src/os/saramos_process.c, the scheduler of src/os/saramos_scheduler.c   *)
(* and the wait lists of src/os/saramos_pipe.c.  All of it runs in one     *)
(* task of the preemptive kernel and no other task touches its data, so a  *)
(* call is one step; a process gives up the processor only by returning.   *)
(*                                                                         *)
(* Operators that end in "Op" are the bodies of the calls.  They constrain *)
(* the variables they name; the actions of the programs, in                *)
(* SaramosPipeline, call them.                                             *)
(***************************************************************************)
EXTENDS SaramosPipe, FiniteSets, SequencesExt

CONSTANTS
    MaxProcs,   \* SARAMOS_MAX_PROCS
    Pipes,      \* the saramos_pipe_t objects of the image
    NULL        \* the null pointer

ASSUME ProcsAssumption ==
    /\ MaxProcs \in Nat /\ MaxProcs > 1     \* idle and the command line have a place
    /\ NULL \notin 1 .. MaxProcs /\ NULL \notin Pipes

Procs == 1 .. MaxProcs      \* the places of process_table

VARIABLES
    pstate,     \* p->state
    parent,     \* p->parent
    children,   \* the children of p, from child_head along next_sibling
    readyq,     \* the ready list, from ready_head along next_ready
    current,    \* saramos_current_proc
    step,       \* where saramos_sched_run() is: "none" (between two steps), "in"
                \* (inside p->fn), "yielded" or "done" (p->fn returned 0 or 1)
    pipe,       \* pipe[q]: the ring of q and its eof flag
    writers,    \* the writers waiting on q, from q->writers along next_wait
    readers,    \* the readers waiting on q
    inPipe,     \* p->stdin_pipe
    outPipe     \* p->stdout_pipe

tableVars == <<parent, children, inPipe, outPipe>>
schedVars == <<pstate, readyq>>
waitVars  == <<writers, readers>>
procVars  == <<pstate, parent, children, readyq, current, step, pipe, writers, readers,
               inPipe, outPipe>>

ProcStates == {"UNUSED", "READY", "RUNNING", "BLOCKED", "ZOMBIE"}
-----------------------------------------------------------------------------
\* saramos_sched_add_ready(): at the head, once.
AddReady(q, p) == IF Contains(q, p) THEN q ELSE <<p>> \o q

RemoveReady(q, p) == RemoveFirst(q, p)

\* rotate_ready(): to the tail.
Rotated(q, p) == Append(RemoveReady(q, p), p)

\* The process saramos_sched_run() picks: the head, but not idle (place 1) when
\* another follows it.
Picked == IF readyq[1] = 1 /\ Len(readyq) > 1 THEN readyq[2] ELSE readyq[1]

\* The elements of s that are in S, in their order.
Keep(s, S) ==
    LET kept[n \in 0 .. Len(s)] ==
          IF n = 0 THEN <<>>
          ELSE IF s[n] \in S THEN Append(kept[n - 1], s[n]) ELSE kept[n - 1]
    IN  kept[Len(s)]

\* wake_list() and the unblocking of a parent: every BLOCKED process of the list
\* becomes READY and goes to the head, one after the other.  st and q are the
\* states and the ready list the calls find.
WakeOp(list, st, q) ==
    LET woken == {p \in ToSet(list) : st[p] = "BLOCKED"}
    IN  /\ pstate' = [p \in Procs |-> IF p \in woken THEN "READY" ELSE st[p]]
        /\ readyq' = Keep(Reverse(list), woken \ ToSet(q)) \o q

\* saramos_pipe_write_byte() with room: the readers wake.
WriteOp(q, c) ==
    /\ pipe' = [pipe EXCEPT ![q] = WriteByte(@, c)]
    /\ WakeOp(readers[q], pstate, readyq)
    /\ readers' = [readers EXCEPT ![q] = <<>>]
    /\ UNCHANGED writers

\* Mutant: the writers are not woken.
ReadOpSilent(q) ==
    /\ pipe' = [pipe EXCEPT ![q] = ReadByte(@)]
    /\ UNCHANGED <<schedVars, waitVars>>

\* saramos_pipe_read_byte() with data: the writers wake.
ReadOp(q) ==
    /\ pipe' = [pipe EXCEPT ![q] = ReadByte(@)]
    /\ WakeOp(writers[q], pstate, readyq)
    /\ writers' = [writers EXCEPT ![q] = <<>>]
    /\ UNCHANGED readers

\* saramos_proc_block()
BlockOp(p) ==
    /\ pstate' = [pstate EXCEPT ![p] = "BLOCKED"]
    /\ readyq' = RemoveReady(readyq, p)

\* saramos_pipe_wait_writer() and saramos_pipe_wait_reader()
WaitWriterOp(q, p) ==
    /\ writers' = [writers EXCEPT ![q] = <<p>> \o @]
    /\ BlockOp(p)
    /\ UNCHANGED readers

WaitReaderOp(q, p) ==
    /\ readers' = [readers EXCEPT ![q] = <<p>> \o @]
    /\ BlockOp(p)
    /\ UNCHANGED writers

Unused == {p \in Procs : pstate[p] = "UNUSED"}

\* saramos_proc_spawn_child() with a free place: the first one.
SpawnOp(p, par, in, out) ==
    /\ Unused # {} /\ p = Min(Unused)
    /\ pstate' = [pstate EXCEPT ![p] = "READY"]
    /\ parent' = [parent EXCEPT ![p] = par]
    /\ children' = [children EXCEPT ![p] = <<>>, ![par] = <<p>> \o @]
    /\ inPipe' = [inPipe EXCEPT ![p] = in]
    /\ outPipe' = [outPipe EXCEPT ![p] = out]
    /\ readyq' = AddReady(readyq, p)

\* saramos_proc_has_children()
HasChildren(p) ==
    \E c \in ToSet(children[p]) : pstate[c] \notin {"UNUSED", "ZOMBIE"}

\* saramos_proc_wait_children(): the zombies among them free their places.
ReapOp(p) ==
    LET dead == {c \in ToSet(children[p]) : pstate[c] = "ZOMBIE"}
    IN  /\ pstate' = [c \in Procs |-> IF c \in dead THEN "UNUSED" ELSE pstate[c]]
        /\ parent' = [c \in Procs |-> IF c \in dead THEN NULL ELSE parent[c]]
        /\ children' = [children EXCEPT ![p] = Keep(@, Procs \ dead)]
-----------------------------------------------------------------------------
(***************************************************************************)
(* saramos_sched_run().                                                    *)
(***************************************************************************)

\* The head of the loop: the picked process runs.
Dispatch ==
    /\ step = "none" /\ readyq # <<>>
    /\ current' = Picked
    /\ pstate' = [pstate EXCEPT ![Picked] = "RUNNING"]
    /\ step' = "in"
    /\ UNCHANGED <<tableVars, readyq, pipe, waitVars>>

\* Mutant: the stdout pipe is not closed.
FinishedNoClose ==
    /\ step = "done"
    /\ WakeOp(IF parent[current] = NULL THEN <<>> ELSE <<parent[current]>>,
              [pstate EXCEPT ![current] = "ZOMBIE"], RemoveReady(readyq, current))
    /\ step' = "none"
    /\ UNCHANGED <<tableVars, current, pipe, waitVars>>

\* p->fn returned 1: the process is a zombie, its stdout pipe is closed, its
\* readers, its writers and the parent wake.
Finished ==
    LET q    == outPipe[current]
        wait == IF q = NULL THEN <<>> ELSE readers[q] \o writers[q]
        par  == IF parent[current] = NULL THEN <<>> ELSE <<parent[current]>>
    IN  /\ step = "done"
        /\ WakeOp(wait \o par, [pstate EXCEPT ![current] = "ZOMBIE"],
                  RemoveReady(readyq, current))
        /\ IF q = NULL THEN UNCHANGED <<pipe, waitVars>>
           ELSE /\ pipe' = [pipe EXCEPT ![q] = Closed(@)]
                /\ readers' = [readers EXCEPT ![q] = <<>>]
                /\ writers' = [writers EXCEPT ![q] = <<>>]
        /\ step' = "none"
        /\ UNCHANGED <<tableVars, current>>

\* Mutant: a blocked process too goes to the tail.
YieldedRotates ==
    /\ step = "yielded"
    /\ readyq' = Rotated(readyq, current)
    /\ pstate' = [pstate EXCEPT ![current] = IF @ = "BLOCKED" THEN @ ELSE "READY"]
    /\ step' = "none"
    /\ UNCHANGED <<tableVars, current, pipe, waitVars>>

\* p->fn returned 0: a blocked process leaves the ready list, another one goes
\* to its tail.
Yielded ==
    /\ step = "yielded"
    /\ IF pstate[current] = "BLOCKED"
       THEN readyq' = RemoveReady(readyq, current) /\ UNCHANGED pstate
       ELSE /\ pstate' = [pstate EXCEPT ![current] = "READY"]
            /\ readyq' = Rotated(readyq, current)
    /\ step' = "none"
    /\ UNCHANGED <<tableVars, current, pipe, waitVars>>

SchedStep == Dispatch \/ Finished \/ Yielded

\* A process exits: PROC_END or PROC_EXIT.
ExitOp ==
    /\ pstate' = [pstate EXCEPT ![current] = "ZOMBIE"]
    /\ step' = "done"
=============================================================================
