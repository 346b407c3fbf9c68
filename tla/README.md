# saramOS in TLA+

saramOS is an operating system for the STM32F769I-DISCO board: a preemptive kernel for a handful of
tasks, a cooperative scheduler of shell processes inside one of them, pipes, a shell, a command line
with a calculator, an Ethernet driver under lwIP, an SD card under FatFs, a graphical console, and
applications that share all of it. This directory holds TLA+ specifications of it, the TLC instances that
check them, and proofs that TLAPS checks.

Check one instance with `tlc -config Kernel.cfg MCSaramosKernel.tla`, the proofs with `tlapm M.tla` for
ListProofs, SaramosKernelProofs, SaramosSemProofs, SaramosMutexProofs, SaramosPipelineProofs, ApplicationProofs, DriverProofs
and ScreensProofs. PROJECT.json lists the runs, the lines every definition models, the hazards, the mutants and the theorems. Paths below are the
repository's.

## 1. The system

### Components

| Component | State | Operations | What makes it correct |
|---|---|---|---|
| Preemptive kernel: `src/os/saramos_kernel.c`, `saramos_context.S` | `task_table`, ready list, `saramos_current_tcb`, `saramos_next_tcb`, each task's state, priority and saved sp; PendSV pending | init, add, start, schedule, yield, block, unblock, set_priority, kill, exit, hard fault, PendSV | the ready list is exact and sorted; one task RUNNING; highest priority dispatched; registers go to the right stack; the dead stay dead |
| SysTick: `src/hal/*/hal_sys.c` | tick counters, heartbeat semaphore | calls `saramos_schedule()` every tick, posts a semaphore every 1000th | keeps the round robin going |
| Counting semaphore: `src/os/saramos_sem.c` | count, waiters array | wait, trywait, post | units neither lost nor made; none banked past a waiter; sleepers are woken |
| Mutex: `src/os/saramos_mutex.c` | owner, saved base priority, boosted flag, waiters | lock, trylock, unlock | exclusion; direct hand-over; inheritance without overwriting the base priority; no inversion |
| Cooperative scheduler and processes: `src/os/saramos_scheduler.c`, `saramos_process.c` | `process_table`, ready list, parent and child links | spawn, block, unblock, wait for children, dispatch, finish, rotate | lists and states agree; places are reclaimed |
| Pipes: `src/os/saramos_pipe.c` | ring, eof flag, two wait lists | read, write, wait, close | FIFO; no lost wake-up; wait lists not spliced |
| Shell: `tools/shell/`, `os/default/shell.c` | variables, current directory, the pipeline being started, static locals of the stage programs | tokenize, expand, glob; builtins; `for`, `if`, `source`; spawn stages, wait, exit | words, loops, variables right; the output is that of the stages in turn; every pipeline ends |
| Core and file utilities: `tools/coreutils`, `tools/fsutils` | none, but fixed buffers | programs on lines, words, arguments and files | the output is what the rule of each says; a status is true of the files |
| Editor: `tools/saramos_vi` | lines, cursor, modes, descriptors | insert, delete, move, write, quit | what it says it wrote is read back as the buffer |
| Command line and calculator: `os/default/main.c`, `builtin_programs.c` | stored programs, accumulator, memory, arena, pins, `net_initialized`, application commands | edit, run, alloc, pin, inp, net, http, sd | a run does what its program says; no task enters lwIP before the netif is built |
| Drop-a-file: `apps/drop-a-file/app_drop_a_file.c` | `g_upload_*`, `g_draw_*`, incoming.bmp, upload&lt;n&gt;.bmp, .bg, gallery.meta | POST begin, receive, finished; draw task; nav task; start-up | a slot holds what came of one upload and keeps it; gallery.meta counts what is there; what breaks this is named (sections 3 and 5) |
| Ethernet: `src/hal/*/hal_eth.c`, `os/default/ethernetif.c` | receive and transmit rings, two indexes on each side | hal_eth_init, hal_eth_rx, hal_eth_tx, the drain loop | frames in order, once; the DMA's buffers untouched; the ring drained |
| SD card and FatFs port: `hal_sdmmc.c`, `os/default/sd_diskio.c` | `sd_initialized`, `sd_rca`, addressing, the card's own state | identification, read, write with retries, mount | blocks hold what was written; a read gives what they hold; faults are masked by the retries |
| Display, LVGL port, graphical shell: `hal_display.c`, `lvgl_port.c`, `apps/graphical-shell` | ring of characters, console grid, dirty flag, label, two frame buffers, panel, backlight | print, drain, redraw, flip, bring-up | the grid is what was printed; the screen catches up; the backlight is over a whole picture |
| draw-picora, colored-screen | picture, offsets, background, action; the fills of a test | press; the six test commands | the picture is that of the number of presses; tests leave nothing behind |
| Sudoku: `apps/example/game/sudoku` | board | move, reset, leave | fixed cells and rules survive every move |
| FatFs: `third_party/fatfs/source/ff.c` | files, directories, current directory, room | the calls of the tools and of drop-a-file | what each does to a volume, and what is left of one that fails |
| Touch, UART, boot code, ttak, lwIP, LVGL | | | external or not modelled, section 6 |

### How they interact

* `main()` adds the scheduler's task, the net task and the heartbeat task at one priority and starts
  the kernel. SysTick preempts whatever runs and pends PendSV, which switches.
* The shell, its stages, the command line and the renderer of the graphical shell are processes of
  `saramos_sched_run()`, inside ONE kernel task; they interact by pipes, child lists and yields.
* SysTick posts the semaphore the heartbeat task waits on: an interrupt and a task share it.
* The net task drains the Ethernet ring into lwIP, whose httpd calls drop-a-file's callbacks; these
  talk to the draw and nav tasks by unprotected globals and by files of the SD card.
* The command line (in the scheduler's task) initialises the network under the net task and calls lwIP.
* Whatever any task prints goes to the UART and, through a ring, to the console grid on the display.
* Files go through FatFs and `sd_diskio.c` to the polled card driver, without a lock between tasks.

### What is hard

Interrupts between two critical sections of one call; a switch pended by one decision and carried
out after another; priority inheritance while waiters come and go; processes that wake, exit and
spawn each other while the scheduler rotates the list it took them from; static locals across
yields; a power cycle between two file operations; two tasks on one file and one request slot; a
driver and a DMA engine on one ring without a shared index; timeouts and retries; a card that is
swapped; a frame buffer that is scanned while the next is drawn; fixed buffers at their edges.
PROJECT.json's `hazards` lists these at their lines, with the properties that would catch them
or the reason none does.

## 2. The modules

```
SaramosKernel ------- ListProofs ------- SaramosKernelProofs
   |      \                                  |             \
SaramosSem  SaramosMutex          SaramosSemProofs   SaramosMutexProofs
   |implements                    (and SaramosSem)   (and SaramosMutex)
Semaphore
SaramosPipe -- SaramosProcess -- SaramosPipeline ---------- SaramosPipelineProofs
                                       \implements Channels  (and ListProofs)

DropAFile -------------.                         EthRing --.
Calculator -- Console -- ApplicationProofs       SdCard --- DriverProofs

FatFs -- FileTools -- Vi -- Shell                 TextTools -- ShellText -- Texts --.
                                                                          Sudoku -- Programs
Display -- GfxConsole --.
      \ -- Picora -------- Screens -- ScreensProofs (and ListProofs)
      \ -- ColorTests --'
```

Each `MC<module>` gives TLC instances of a module. Definitions that stand before another and are named
after it (`PopAndBank` before `Pop`, `rb_putOver` before `rb_put`) are plausible bugs of it; PROJECT.json's
`mutants` says which property each breaks, and no other definition uses them.

**SaramosKernel.** Every kernel call runs with interrupts disabled, so a call is one action: `Yield`,
`BlockCurrent`, `Unblock`, `SetPriority`, `Kill`, `Exit`, `TaskAdd`, ... SysTick is an exception of
its own with two steps (`Tick`, then `IsrReturn` or `IsrUnblock`), as a handler may call
`saramos_task_unblock()`. `PendSV` swaps contexts: `ctx[t]` is whose registers the saved stack of `t`
holds, `cpu` whose code the processor executes. The code never programs an exception priority, so
PendSV and SysTick do not preempt each other and PendSV is taken first. The bodies of the calls are
operators on the kernel's data (`ScheduleOp`, `BlockCurrentOp`, ...), which the modules of the
primitives call too. `TickInStartWindow` lets a SysTick fall between `saramos_kernel_start()`'s
`irq_restore` and `saramos_start_tcb()`.

**SaramosSem, SaramosMutex.** Extend the kernel with one semaphore, or some mutexes. `wait`, `post`,
`lock` and `unlock` restore interrupts before they call the kernel; each is therefore two or three
actions, with `pc[t]` telling where task `t` is (`toBlock`: registered but not yet blocked) and
interrupts, ticks and switches in between. The mutex is not recursive: a second `lock` by its owner makes it a waiter
for itself that is boosted by itself and never returns. **Semaphore** is what the semaphore promises: units,
waiting tasks, granted tasks. `Abstract!Spec` is checked with the refinement mapping
units = count, waiting = waiters array, granted = in wait but no longer registered.

**SaramosPipe, SaramosProcess, SaramosPipeline.** The ring as pure operators; the process table,
scheduler and wait lists; the shell and the stage programs as protothreads whose `pc` is the place
where `p->pt_line` continues. `SchedStep` is one turn of `saramos_sched_run()`: dispatch, the step of
the process (an action of SaramosPipeline), finish or rotate. Programs that keep locals in
`static` variables share them between processes, as the code does (`lineBuf`, `pat`, `limit`,
`total`). `Channels` is what a pipe promises: a bounded FIFO that is closed once.

**DropAFile.** Three preemptive tasks, a browser and the power. A step is what one task does up to its
next file operation or its next access to a shared global; `net.todo` is what
`httpd_post_finished()` still has to do, for a connection that was cut (`sent[u] < Pieces`) as for a whole one, as line 665
asks for no more. File contents are sequences of pieces, each marked with the
upload it is of, so a mixed or torn file is visible. Each file operation may fail: `f_open` of incoming.bmp with or without its
truncation, a write, `f_close`, `f_rename` with the old name kept or with both, each of the three calls of
`gallery_save_meta()` and of `save_bg_color()`, and the reads of `gallery_load_meta()`, `load_bg_color()` and
`decode_and_draw_bmp()`; the code goes on after most of them. `trouble` is history: the kinds of operations that failed, and whether a press
or a power cut met a filing (`"press"`, `"power"`) or a request the draw task at work (`"busy"`), so that each property can say after
what it no longer holds. `shared` is the set of slots whose
clusters incoming.bmp still names; the next `FA_CREATE_ALWAYS` (`Truncate`) leaves them `Garbled`. A power cycle keeps the card and
nothing else.

**EthRing.** The driver's `rx_idx`, `tx_idx` and its copy of what it read; the DMA's own indexes; the
OWN bit per descriptor. `Spin`, `SpinFree` and `SpinOver` are the three outcomes of the
`while (... && timeout--)` loop, its post-decrement included.

**SdCard.** The polled driver and the disk layer over it, command by command: identification, a block
read or written, the wait for a card that programs, the retries. `Hears` and `Answered` are the two
sides of a command that may be lost on the way or on the way back. The card has a state of its own, and
two cards may be swapped at any step; one addresses bytes and the other blocks. A damaged answer counts as a
lost one where it has a checksum; the one to ACMD41 has none, and is believed (`OcrTaken`; `misread` is the history of it). `may` is history: what
the writes made so far let each block hold.

**FatFs, FileTools, Vi, Shell.** A volume is a map of paths to files and directories, and FatFs's calls are
operators from a volume to its outcomes, translated from ff.c: what each call does to files and directories, a full volume
included, and what it may leave when a transfer fails half-way (`Fault`). After a rename that left two names on the same clusters
(`twice`) no more lines are typed. The commands on files, the
editor and the enhanced shell are built of them, one command line or one key to a step. The variables are
a table of slots, as in `shell_env.c`; loops, conditions and scripts run their lines through the same
`shell_execute`.

**TextTools, ShellText, Texts, Sudoku, Programs.** Programs that keep nothing outside themselves, as operators over
sequences of bytes: `fgets`-like loops with their fixed buffers are folds or recursive functions. Texts grows a text byte by byte, and
at each length compares every program with its rule, which is said of lines, words and fields. Sudoku is the
game with its moves.

**Calculator, Console.** The stored programs, the line editor and the interpreter with an `int` of `Width` bits;
around them the commands, the arena and pins they set, and the net task that polls `net_initialized` with the same
priority.

**Display, GfxConsole, Picora, ColorTests, Screens.** The bring-up of memory, clock, DSI host, panel and backlight,
where every wait may run out; the shadow register the LTDC takes over at a blanking; drawing takes longer than a
step. Over it the three applications: the console with its ring, grid, label and two buffers; the pictures of the
button task; the fills of the test commands. `app` is the one that the image was built with.

## 3. The runs

| Run | Instance | Shows |
|---|---|---|
| `kernel` | four tasks, two base priorities, two arguments of set_priority, a table of three | `KernelInv` (the inductive invariant of the proofs), `ReadyListExact`, `ContextsIntact`, `DispatchesHighest` over every order of calls, ticks and faults |
| `sem` | a task that never sleeps, two users at the top priority, one below, ticks that post | `NoIdleUnits`, `ImplementsSemaphore`, `Served` |
| `sem_lost_wakeup` | two users of one priority | a violation, section 5 |
| `mutex` | three users of rising priority, one mutex, sleeps inside and outside | `HoldersOwn`, `PrioritiesRight`, `NoInversion` |
| `pipeline` | six places, pipes of two bytes, lines of three, six commands in any order, again and again | `ListsExact`, `SleepersHaveCause`, `OutputRight`, `ImplementsChannels`, `PipelinesEnd` |
| `gallery` | two uploads of two pieces, cut anywhere, one kind of file operation that fails, a press, a power cycle | `PicturesKept`, `WholePictures`, `CountedExist`, `UndisturbedKept`, `FiledIsDrawn` |
| `eth` | a receive ring of two, a transmit ring of one, three frames in, two out, waits that run out, a `net init` under the net task, fair | `FramesInOrder`, `BufferStableInTime`, `GoodFramesArrive`, `AcceptedAreSent` |
| `card` | two cards of both addressings, two blocks, transfers of one and two, two faults, two swaps, resets, until a kind is misread | `BlocksAsWritten`, `ReadsRight`, `FaultsMasked` |
| `shell` | three lines of thirty, or two and four keys of the editor, on a volume of ten bytes whose calls may fail | `FilesRight`, `LoopsRight`, `EnvRight`, `EditorRight` |
| `programs` | every text of up to four to six bytes of small alphabets, buffers of three to five; every game | `ToolsRight`, `ShellLineRight`, `GameRight` |
| `console` | three commands, programs of three typed lines of nine, `int` of eight bits, the net task | `NetifFirst`, `RunsRight`, `ProgramsKept` |
| `display` | a grid of two by two, a ring of two, four characters, eight presses, two panel commands that may fail | `ScreenRight`, `LitWhenWhole`, `ScreenCatchesUp` |

### Bounds, and why they are enough

* *Kernel.* Four tasks give a ready list of three behind a running one: an insertion in the middle, at
  both ends and between equals. Three table places make `saramos_task_add()` refuse the fourth. Two
  priorities and a change of priority reach every order; a third value only renames.
* *Semaphore.* Three users let a pop take the middle and the last waiter; `MaxCount` 2 banks more than
  one unit. *Mutex.* Three priorities are the least for an inversion; the third waiter raises a boosted
  owner again.
* *Pipeline.* Pipes of two bytes are full and empty many times within a text of five, and wrap. Lines of
  three cut a text of four letters. Six places (idle, command line, shell, three stages) make the
  fourth stage fail. `TotalMod` 9, where wc's `unsigned long` wraps, is more than any text has bytes. `StaticsAssumption`: a command runs wc and
  echo once at most, as the module keeps with the process what these two keep in `static` locals. Commands repeat without bound: the state space is finite because the pipeline's
  places and pipes are reused.
* *Gallery.* One upload that is disturbed and one that meets what is left of it. A picture
  is two pieces, so half a picture exists. `MaxPresses`, `MaxCycles` and `MaxFailed` count the disturbances: with one press, one
  power cycle and one kind of operation that fails, as often as it likes, TLC finds 1,008,541 states; with two kinds
  (6.5 million states) the three invariants hold as well.
* *Ethernet.* More frames than descriptors, in both directions, so the rings wrap and the receive ring is
  full; a skip budget of two is spent by two bad frames.
* *Card.* `RetryMax` 2: one fault is masked and two may not be. Two swaps take a card out and put one in, the same or the
  other. Two blocks tell a byte address from a block address and the second of a transfer from the first. The
  constraint `KindsRight` ends a behaviour where a kind was misread: the properties say nothing of what follows.
* *Shell.* Ten bytes of room are filled by two lines of `tee`; four slots of variables, three of which the start fills,
  are full after one assignment; lines of the editor and descriptors likewise run out.
* *Programs.* Every buffer is shorter than the longest text, so each loop is cut in its middle, at its end and one
  before. Words and patterns of four bytes have a star between two letters.
* *Console.* Eight bits wrap in a loop that counts down without end; a table of three programs holds the two built in and one more, so the next is
  refused; three typed lines make a loop with its label and a jump over it.
* *Display.* Two rows scroll with the third line, a tab ends past the last column, a ring of two holds one
  character, a label of four characters is shorter than the grid. Eight presses go once through the six actions and begin again.

### Assumptions of the passing runs

`TickInStartWindow = FALSE` (kernel, semaphore, mutex); `AtOnce = 1` in `gallery` (one connection
at a time); `ButtonId = 4` in `display`, where the image has 2, the net task's id,
with which the button task never runs. What happens without them is in section 5. The properties of `eth` name their
own conditions: `inits = 0` for what `net init` a second time breaks, `~expired` for what a wait that ran out does; those of `gallery` name
the troubles they except, those of `card` end where `misread` begins. In DropAFile and
Shell a file operation is one step; in SdCard one transfer is one caller's: FatFs is built without re-entrancy and
file locks (ffconf.h), so a preemption INSIDE an operation is a hazard of its own, listed and not modelled. In SaramosPipeline
head's argument and grep's pattern are single values, and `"\r\n"` is one newline. Deadlock is checked where the system
never stops; gallery, shell, programs, console and display stop when their bounds are used up, and the sessions of a shell end with `exit`.

### Fairness

* Semaphore: WF of SysTick, PendSV, the handler's return and the boot steps: the timer is free-running and
  an enabled exception is taken. SF of the tick, because SysTick stays pending in the interrupt controller while PendSV
  holds it off, and SF of the handler's post, because one tick in a thousand posts and the ticks do not
  end. Nothing is assumed of users.
* Pipeline: WF of the scheduler's loop, which the kernel's round robin gives to its task.
* Gallery: WF of the browser's answers and of the three tasks, by the same argument. None of the button or the power.
* Ethernet: WF of the DMA's sending and of the net task. None of arrivals.
* Display: WF of what the application runs by itself and of the panel's steps; none of printing, presses or commands.

The other runs check safety only.

## 4. What is proved

TLAPS checks, for any set of tasks, ids, priorities and table size, under SaramosKernel's assumptions only
(NULL and the boot context are not tasks, priorities are naturals, tasks are finitely many):

* `KernelInvariant`: `Spec => []KernelInv`, and from it `TypeCorrect`, `ReadyListCorrect`,
  `OneRunnerCorrect`. `ReadyListExact` alone is not inductive: that PendSV may make the next task current
  needs `OneRunner`; that a kernel call finds a live current task needs `Occupied`; that a task
  added to the table is not yet listed needs `TaskStates`; that insertion keeps the list a set of READY tasks in
  order needs `ReadySorted`. Their conjunction is `KernelInv`, and `StepInv` proves one step per action of `Next`.
* `ContextsCorrect`: with `TickInStartWindow = FALSE`, every live task's saved stack holds its own
  registers and the current task is the one that executes. `ContextsIntact` is strengthened to
  `Contexts`: who is initialised but not added has its stack too, and the processor leaves
  boot code exactly at `saramos_start_tcb()`.
* `DispatchCorrect` and `DeadCorrect`: the action properties `DispatchesHighest` and (without the start window)
  `DeadStayDead`, step by step from the invariant.

The lemmas they rest on come first in SaramosKernelProofs: where `InsertPos` points, that inserting and
removing keep a list duplicate-free and sorted and change its members by one, what `PickNext` returns, and that
a switch and a change of priority keep list and states coherent. ListProofs has what they share with the other modules:
the least element of a set of naturals, and what concatenating, appending, inserting, removing and reversing make of a list's
members and of its having no doubles, and what `FlattenSeq` makes of its parts.

The primitives start from a booted kernel. That `Booted` satisfies `KernelInv` (`BootedLive`) is proved as well, although
`BootList` adds the tasks one after another: the list that n additions leave is a recursive function on `0 .. Len(order)`, and
what is claimed of it is shown for all n up to the length by the least-counterexample lemma `UpTo`, which takes the set of
the n it holds for, where the library's induction theorem takes an operator.

For the semaphore (SaramosSemProofs), for any users, priorities, order of boot and initial count, under `IdleAssumption` (some
task never sleeps) and `BootAssumption` (`main()` adds every task, and the table has room for them):

* `NoIdleUnitsCorrect`: `NoIdleUnits` is inductive as it stands, step by step of wait, post and the interrupt's post.
* `OnlyKernelStepsCorrect`: every step of the composition is a kernel step. That a poster unblocks a task that
  exists is the invariant it needs (`PostersHold`). `KernelUnderSem` and `DispatchUnderSem` carry the kernel's theorems over.
* `SemInvariant` and `ImplementsSemaphoreCorrect`: the refinement, step by step, every step of the calls a step of Semaphore or a
  stutter. It rests on `WaitersRight` (who is registered is so once, is in its wait and has not been unblocked since it
  sleeps there) and `PostersRight` (who is about to be unblocked is no longer registered, and one poster only knows of it), so
  that a unit is granted to a task that waits, and taken once.

For the mutex (SaramosMutexProofs), for any users, priorities and order of boot:

* `HoldersOwnCorrect`: any number of mutexes, nested in any order. `HoldersOwn` is strengthened to `MutexInv`: who is registered
  sleeps in the lock of that mutex and somebody owns it, who holds it already if that is the same task (`WaitersRight`); the task an unlock is about
  to unblock owns the mutex from this hand-over and does not hold it yet, and no other unlock is about to (`HandOversRight`); who was unblocked in a lock owns it (`OwnersRight`).
* `PrioritiesRightUnnested`, `NoInversionUnnested`: for any number of mutexes of which nobody nests two (`[]NoNesting`, a
  hypothesis on the users that the code's mutex does not enforce). `BoostInv`: a boosted mutex remembers its owner's own
  priority, and who runs above its own owns a boosted mutex. `PrioritiesRightCorrect` and `NoInversionCorrect` are the
  configuration of one mutex, where nothing is asked of the users; with two, nested, the code is wrong (section 5,
  `KeepsBoosting`).
* `KernelUnderMutex` and `DispatchUnderMutex`: the kernel's theorems for a system whose tasks lock and unlock.

For the pipelines (SaramosPipelineProofs), for any commands, texts, number of places and sizes of pipes, lines and blocks. The
assumptions are the code's: the table has room for the idle process and the command line, a command has a stage, a first stage
reads no pipe, there is a pipe between any two stages, the number that head is given is one, and a count is a byte of its own:

* `ListsExactHolds`, `NoLostPipeWakeup` and `ImplementsChannelsCorrect`, all from `PipeInvariant`: `[]PipeInv`, one lemma per action.
  `SchedRight` is `ListsExact` in the midst of a step: who has exited is in the ready list until `saramos_sched_run()` sees it.
  `SleepRight` says where a process in a wait list stands: blocked in the read or the write of that very pipe, and as long as the
  list is not empty the pipe can give it nothing, so a byte that goes in finds no writer asleep and one that comes out no
  reader. `FamilyRight` ties the two ends of every parent link, and keeps a parent with children away from its start, from which
  alone it exits. `RolesRight` says who there is: the idle process, the command line, at most one shell, and stages of the shell's
  command, each a different one, that read and write the pipes `shell_execute()` gave their place; from this a pipe has
  one writer and one reader, and a stage that ends closes nobody else's. `DataRight` bounds what a stage has read and has to put out by its
  buffers. `EofRight`: the pipe of a stage that is not over, and of one to come, is open.
* The ring of SaramosPipe: the place of the i-th byte (`Spot`), that a write appends to `Contents` and a read takes its head, for any
  size and any position of the two indices.
* What `Keep` leaves of a list, and so what `wake_list()` and reaping do, is shown for all its prefixes by `UpTo`.

* `OutputRightCorrect`: back at its prompt, the shell finds on the UART what the stages one after the other make of the input. The hypothesis
  `Unshared(cmd)` is that no two stages run one program (else they share its `static` locals, and the code is wrong: section 5,
  `OutputRight` with `MCTwice`). It follows from `TextInvariant`: `[]TextInv`, a law of conservation. `Rest` says of a stage, at each place of
  its program, what it still has to put out as a function of what is still to come to it: a line half read goes before the
  input to come, a line half written before what becomes of the rest. `Flow` chains these through the contents of the pipes: what the UART
  has got, followed by what is left to come out of the last stage, is the command's whole text in every state, also while a stage is
  asleep, over but not reaped, or not yet spawned (`StageText` of what is to come). `LocalsRight` is what it needs of the statics: a
  pattern and a number are those of the stage's own arguments, and a line being read has no newline yet. Each step of a stage
  changes `Rest` by exactly what it takes from its pipe and gives to the next (`StageStepKeeps`, one lemma per action), which uses `RolesRight`
  for there being no other reader, writer or user of the locals. A head that stops early leaves bytes in its pipe; `Rest` of it is
  empty whatever comes, so nothing is lost that belongs to the text.
* The lemmas on texts: the first line and the rest of a text (`LineLenFacts`), what grep and head make of a text from what they make of
  its rest, and the fold over the stages one stage at a time (`CommandText`), for the recursive function `Lines` of the reference.

TLC finds `PipeInv` true in the 7,728 states of `pipeline`'s instance; `TextInv` was evaluated on it and on seven more commands, with
heads that stop early, of no line and of more lines than there are (81,863 states).

For the gallery (ApplicationProofs), for any number of uploads, pieces, presses, power cycles and kinds of failing operations:

* `PicturesKeptCorrect`: no step takes or changes a stored picture that is not `shared`, with any number of connections. It needs
  of the invariant the types, and that `g_upload_file` is closed before it is renamed (`StepKept`).
* `WholePicturesCorrect`, `CountedExistCorrect`, `UndisturbedKeptCorrect`, with `AtOnce = 1`, all from `GalleryInv`. `Staged`:
  incoming.bmp holds the pieces of one upload, of the open one all that were counted, which are all that were sent as long as no
  write failed. `Stored`: what is about to be filed and what is in the slots is all that came of one upload that is over, or what a
  failed close or a half-way rename left (`Fileable`, `Garbled`). `Counts`: no task's idea of the count, however stale, passes the uploads
  that are over, so there is always a slot left, and what is called current is counted. `Paths`: who goes by `g_draw_path` finds a slot's path
  in it. `Shows` types what is drawn. `QuietInv`, as long as no rename failed and no press met a filing: whoever has a count counts
  pictures that are there, at each place of `httpd_post_finished()` and of the nav task. `KeptInv`, as long as besides
  neither a close, a read or a save failed nor a power cut met a filing: the pictures fill the slots from 0 on, slot number `count` is
  free until the rename, and the last one received is the only one that may still wait for it.

  Every exception is needed: TLC finds each property, `FiledIsDrawn` included, violated when one of its exceptions is left out. That a press, a cut or a failure which does not
  meet a filing is harmless is what the theorems show.

For the card (DriverProofs), for any cards, blocks, data and number of attempts, faults and swaps:

* `BlocksAsWrittenCorrect`, `ReadsRightCorrect`, `FaultsMaskedCorrect`, all from `SdInvariant`, `[](~misread => SdInv)` (2,340,490 states on the small instance).
  `CardsRight`: what a card holds and what it is programming, the calls let its block hold. `OneIdentified`: from ACMD41 on an
  initialization is of one card, and its addressing is that card's; one put in since is idle and will not answer. `WaitRight`: when the
  driver waits, the card programs the block of the call or has it. `ReadSoFar`: the blocks read so far are right, by the card of `sd_rca`,
  which is still the one that answers. `AttemptsLost`: each attempt lost has cost a fault, so a read of a card that stays put
  fails only after `RetryMax` of them.

For the Ethernet rings (DriverProofs), for any numbers of descriptors and frames and any budget:

* `FramesInOrderCorrect` and `BufferStableCorrect`, from `EthInvariant` (531,325 states with three descriptors and five frames).
  Driver and DMA share no index: `RingSplit` says that the descriptors from `rx_idx` on to the DMA's are the driver's, all or none
  when both are at the same one. `RingInOrder`: going round the ring the driver meets later and later frames, all later than
  those it met. `EachOnce`: no frame is in two places or delivered again, which survives a second `net init` although
  the order does not. `TxRight`: a descriptor that was waited for is the driver's. Distances round a ring (`Dist`) and how the two
  indexes move them are lemmas.

For the command line (ApplicationProofs), for any stored and typed programs, any memory and any width of `int`, under
`ProgramsAssumption` (what is built in is a list of programs of different names, and what stands for a number in a line is one):

* `NetifFirstCorrect`, `ProgramsKeptCorrect` and `RunsRightCorrect`, from `ConsoleInvariant` (TLC finds `ConsoleInv` true in the
  1,436,892 states of the small instance).
* `StoreInv`: a name names one program, and who edits or runs has a place of the table. `program_get_or_alloc()` keeps this because it
  appends only a name that `program_find()` did not find.
* `RunInv`: the memory of a run is what its own `store`s put there and its flag the sign of its last comparison, which is what
  `RunsRight` compares with. It is `program_run()`'s fresh accumulator, memory and flag that make it true at the start, and every
  operation of `program_exec_line()` is shown to keep it, the ones that wrap or divide included.
* `NetInv`: `net_initialized` is set after a netif is built, also while the net task polls it, and is never taken back.

For the display (ScreensProofs), for any sizes of grid, ring, label and screen, any text, test, pictures and number of
panel commands:

* `ScreenRightCorrect` and `LitWhenWholeCorrect`, from `ScreensInvariant` (152,926 states on the small instance). The assumptions are the
  images': a stride of room on each side of a picture, at least two commands of the panel, tests that are lists of fills.
* `ControlInv` says at which step of the bring-up which application draws, and into what: from the first frame on nobody draws into
  it, and once the video runs the first buffer is scanned and nothing asks for another. `LitWhenWhole` follows at the step of the backlight,
  whichever waits have run out, because the callers go on but only the panel that took all commands is lit.
* `TextInv`: the ring's two indices enclose what was accepted and is not yet drained (`RingPut`, `RingTake`, for any size), and the grid
  `Shows` the paper: the last rows of all that was drained. That every character keeps it is `PutcShown`, a simulation of
  the grid that scrolls by a paper that does not, with a lemma each for newline, tab, backspace and a letter that wraps.
* `PictureInv`: what is shown is the picture of `acted % 6` in the cycle of six (`Cycle`): an action leaves the image,
  the offsets and the background that the next one of the cycle expects, and clamping never moves a picture that has a stride of room.
* `CellsInv`: how far the fills of a test are done, what is left of them, and what the last one made of the screen. All tests but
  the bars clear it before each fill, so only the last counts; the bars lie side by side (`BarsApart`) and cover it (`BarsCover`), so each must stay.

Folds and recursive functions over data are within reach where they are met: `FoldIterExists` and `PaperAppend` show that one more character
typed is one more step of `Paper`, `Flattened` (ListProofs) that the fills of a test are those of its parts in turn, `CommandFold` that a
pipeline is its stages in turn, all by `UpTo` for the one operator they fold, as no general theorem on folds can be cited.

Only model-checked:

* liveness everywhere (the prover does not handle fairness), so `Served`, `PipelinesEnd`, `GoodFramesArrive`, `AcceptedAreSent`,
  `ScreenCatchesUp`, `FiledIsDrawn`;
* `GameRight`: the game has no constants, so TLC's instance is all of it;
* `ToolsRight`, `ShellLineRight`, `FilesRight`, `LoopsRight`, `EnvRight`, `EditorRight`: the programs they compare are tens of
  folds, each with a reference definition of another shape, and the modules of the shell, whose `for`, `if` and `source` run
  lines that hold such lines again, use `RECURSIVE` operators, which the prover cannot use.

`Contexts`, `OneRunner`, `DeadStayDead` and `OnlyKernelSteps` are proved and are in no run of their own.

## 5. Where the code departs from what it says

`sem_lost_wakeup` is a run that TLC finds violated (saramos_sem.c:70): a post between the registration of a waiter and its
block finds it still RUNNING, so the unblock does nothing; the waiter then sleeps with its unit for ever.
`saramos_mutex_lock()` has the same window (line 109).

Others are stated as properties of the modules and hold in no run. Each can be given to TLC by adding the property to the named
configuration, with the change that is named:

| Property | Configuration | What it shows |
|---|---|---|
| `PendSVReturnsToNext` | Kernel, `TickInStartWindow = TRUE` | a SysTick in the start window makes PendSV return to boot code with a task current (saramos_kernel.c:271) |
| `KeepsBoosting` | Mutex, `Mutexes = {m1, m2}` | releasing one of two mutexes drops the boost the other gave (saramos_mutex.c:151) |
| `OutputRight` | Pipeline, `Commands <- MCTwice` | what a stage keeps over a yield is in `static` locals of its program, and two stages of one pipeline share them: in `echo a \| grep a \| grep b` both greps look for whichever pattern was set last, here a (the last stage runs first), and the line that the second should drop is put out (shell_procs.c:113) |
| `FullWritersResume` | Pipeline, `Commands <- MCEarly` | when a stage exits only its stdout pipe is closed: the writer that sleeps on its full stdin pipe is never woken (saramos_scheduler.c:155) |
| `EveryUploadKept` | Gallery | a press while an upload is being finished, a power cycle between rename and gallery.meta, or a close, rename, read or save of gallery.meta that fails without anybody looking loses an upload, although "every successful upload gets its own numbered slot" (app_drop_a_file.c:474) |
| `NewestIsDrawn` | Gallery | a request made while the draw task draws is cleared with the one it serves: the picture received last is not shown (app_drop_a_file.c:728) |
| `TouchKeeps` | Shell | `touch` creates what `f_stat` does not find for whatever reason: on a failing card it empties a file that is there (touch.c:23) |
| `FoldAtSpaces` | Programs | `fold -s` prints every byte as it is read and the line again when it breaks it (fold.c:45, 58, 73) |
| `TrRanges` | Programs | "Supports simple sets like tr 'a-z' 'A-Z'" (tr.c:4), but the place in the first range indexes the text `A-Z`: b becomes the dash (tr.c:40) |
| `DmaBufferStable` | Eth | the expired loop leaves 2^32 - 1, not 0, so the frame is copied over one that the DMA is sending (hal_eth.c:390) |
| `LwipSingleThreaded` | Console | commands enter lwIP under the net task, though it is configured "Bare-metal, single-threaded" (lwipopts.h:4) |
| `ReadmeTest` | Shell, `Lines <- MCReadme` | the `if` of README.md:441 does not run its command: `handle_if` looks for an operator in the middle (shell_exec.c:192) |
| `ScannedWhole` | Screens | a redraw within a frame of the last writes the buffer that is scanned, against "never a buffer mid-write" (hal_display.c:1506); so do `picture` over the console, draw-picora and colored-screen, whose comment says "flips -- atomic, no tearing" (app_draw_picora.c:131) |
| `NewestShown` | Screens | the label holds less than the grid, so `console_flush` leaves out the last rows of a full one (lvgl_port.c:118) |
| `ButtonAnswers` | Screens, `ButtonId = 2` | the button task has the net task's id, is refused, and no press is answered (app_draw_picora.c:275) |

Reading the code for the models also showed, without a property of its own: `sd_initialized` is never reset, so a
changed card needs a reboot (hal_sdmmc.c:427); the puzzle of sudoku.c:7 has no solution, which `NeverSolved` of the
`programs` run rests on; `cp` to a full volume returns 0 (cp.c:42); `:wq` quits
after a failed write; a `%%` of printf gives an argument back (printf.c:92); `tr -d` deletes the dash of a range too (tr.c:22); a `;` does not separate
commands; a loop of a calculator program holds the whole scheduler (main.c:590); README.md:431 calls pipelines "Not
yet supported" though shell_exec.c has them.

Of drop-a-file and the card: a connection that is cut gets what came of its picture into a slot (app_drop_a_file.c:665); a rename that fails half-way leaves
a stored picture under the name of incoming.bmp too, and the next upload frees its clusters (672); a read error of
gallery.meta restarts the count at 0, so that the next pictures meet names that exist and are not stored (656-675); a
damaged answer to ACMD41 is believed (hal_sdmmc.c:179). Of the rest: `fold -s` with a width above 511 reads beyond its buffer (fold.c:45); a
directory that is moved below itself is out of the tree, with all it holds (ff.c:5140); a second `saramos_mutex_lock()` by the owner
never returns (saramos_mutex.c:107).

## 6. What is not modelled

* Register set-up (clocks, DSI, LTDC, PHY, GPIO), caches, timings, the assembly's stack frames beyond whose registers
  they hold, what commands print about state, `hal_uart.c` (polled register access).
* `hal_touch.c`: only drop-a-file's tap test uses it, and that is built off, as is the 4-bit bus of the card. `dsiread`, a command of the graphical shell,
  prints what it reads of the panel and changes nothing.
* The drivers of the other board (`stm32f769i-disc1`), which are earlier forms of the modelled ones: its card driver has no
  retries and its Ethernet driver the same rings.
* `saramos_proc_kill()` (no caller), `PROC_SLEEP_MS`, `saramos_owner.c` (not used by the image), ttak (not in the tree).
* lwIP and LVGL beyond the promises the modules state. Inside FatFs: the FAT and the window of one sector, so an operation is one step: a power
  cut or another task's call falls between operations, not within one. Clusters that no entry reaches any more count as free, a directory never grows, and
  what becomes of a volume with two entries on the same clusters is followed in DropAFile only. An operation that fails though its data got there
  is the failing outcome, not told apart from success by the properties.
* Picture scaling, the rows of a BMP and the web page of drop-a-file.
* wc and echo twice in one pipeline, whose `static` locals the stages would share as greps do (section 5).
* Options and file arguments of pipeline stages; utilities that print one thing (date, df, sleep, uname, uptime, yes).

## 7. Plan

1. *Composition.* Kernel, mutex and faults together (a task that dies with a mutex); FatFs's one sector window over SdCard under
   several tasks.
2. *Proofs.* `EnvRight` for the table of variables, once the modules of the shell do without `RECURSIVE`.
