------------------------------- MODULE SdCard -------------------------------
(***************************************************************************)
(* The SD card: the polled SDMMC2 driver (hal_sdmmc.c of the disco board)  *)
(* and the disk layer FatFs calls (os/default/sd_diskio.c).  One call runs *)
(* at a time and a step is one command or one transfer; between two steps  *)
(* a card may be pulled and another put in, the card may finish what it    *)
(* programs, and the board may be reset.  The card is external: it answers *)
(* the commands its state allows, and a command, an answer or a block is   *)
(* lost at most MaxFaults times.                                           *)
(***************************************************************************)
EXTENDS Naturals, Sequences

CONSTANTS
    Cards,           \* the cards there are
    HighCapacity,    \* those of them that count their blocks, not their bytes
    NoCard,
    Blocks,          \* the blocks of each
    Data,            \* what a block may hold
    Zero,            \* what every block holds at first
    Junk,            \* what a buffer holds that no good read filled
    BlockSize,       \* HAL_SDMMC_BLOCK_SIZE
    RetryMax,        \* SDMMC_BLOCK_RETRY_MAX
    AcmdTries,       \* the 20000 rounds of ACMD41
    ReadyPolls,      \* the 2000000 polls of CMD13
    MaxFaults,       \* bound of the model
    MaxSwaps         \* bound of the model: cards pulled or put in

ASSUME CardAssumption ==
    /\ HighCapacity \subseteq Cards /\ NoCard \notin Cards
    /\ Blocks \subseteq Nat /\ Blocks # {} /\ Zero \in Data /\ Junk \notin Data
    /\ BlockSize \in Nat \ {0} /\ RetryMax \in Nat \ {0}
    /\ AcmdTries \in Nat \ {0} /\ ReadyPolls \in Nat \ {0}
    /\ MaxFaults \in Nat /\ MaxSwaps \in Nat

VARIABLES
    slot,         \* the card in the slot, or NoCard
    state,        \* what each card does: "off", "idle", "ready", "ident", "stby", "tran", "prg"
    blocks,       \* what each card's blocks hold
    taken,        \* the block and data each card programs in "prg"
    initialized,  \* sd_initialized
    rca,          \* sd_rca: the card it names, or NoCard for 0
    high,         \* sd_high_capacity
    noinit,       \* STA_NOINIT of sd_status
    job,          \* the call that runs
    may,          \* what the calls made so far let each block hold
    faults, swaps,
    misread       \* history: a damaged answer had the driver take the card for the other kind

driver == <<initialized, rca, high, noinit>>
vars == <<slot, state, blocks, taken, initialized, rca, high, noinit, job, may, faults, swaps, misread>>

(***************************************************************************)
(* A job is the call that runs or ran last: the command or wait it is at,  *)
(* its first block, what it transfers (a read's blocks as they come in),   *)
(* the block it is at, the attempts made and the polls of a wait; and, for *)
(* the properties, whether it began with a card that takes transfers, the  *)
(* swaps there had been by then, and the faults when its block began.      *)
(***************************************************************************)
Kinds == {"mount", "read", "write"}
InitAt == {"CMD0", "CMD8", "CMD55", "ACMD41", "CMD2", "CMD3", "CMD9", "CMD7", "CMD16"}
XferAt == {"CMD17", "fifo_read", "read_end", "CMD24", "fifo_write", "write_end", "CMD13"}
Jobs == [at : InitAt \cup XferAt \cup {"ok", "error"}, kind : Kinds, lba : Blocks,
         data : Seq(Data \cup {Junk}), i : Nat, tries : Nat, polls : Nat,
         ready : BOOLEAN, faults : Nat, swaps : Nat]
Transfers == slot # NoCard /\ state[slot] = "tran"
Idle == job.at \in {"ok", "error"}
Job(kind, at, lba, data) ==
    [at |-> at, kind |-> kind, lba |-> lba, data |-> data, i |-> 0, tries |-> 0, polls |-> 0,
     ready |-> kind # "mount" /\ Transfers, faults |-> faults, swaps |-> swaps]

(***************************************************************************)
(* The block addresses: a card that is not of high capacity takes bytes.   *)
(***************************************************************************)
Address(lba) == IF high THEN lba ELSE lba * BlockSize
BlockAt(c, address) == IF c \in HighCapacity THEN address ELSE address \div BlockSize
Addressed(c) == BlockAt(c, Address(job.lba + job.i))

(***************************************************************************)
(* The card (external): the commands it answers, and where they take it.   *)
(***************************************************************************)
Hears(c, cmd) ==
    /\ state[c] \in CASE cmd = "CMD0" -> {"idle", "ready", "ident", "stby", "tran", "prg"}
                      [] cmd \in {"CMD8", "CMD55", "ACMD41"} -> {"idle"}
                      [] cmd = "CMD2" -> {"ready"}
                      [] cmd = "CMD3" -> {"ident", "stby"}
                      [] cmd \in {"CMD9", "CMD7"} -> {"stby"}
                      [] cmd \in {"CMD16", "CMD17", "CMD24"} -> {"tran"}
                      [] cmd = "CMD13" -> {"stby", "tran", "prg"}
                      [] OTHER -> {}
    /\ cmd \in {"CMD9", "CMD7", "CMD13"} => rca = c
    /\ cmd \in {"CMD17", "CMD24"} => Addressed(c) \in Blocks
Moved(c, cmd) ==
    CASE cmd = "CMD0" -> {"idle"}
      [] cmd = "ACMD41" -> {"idle", "ready"}
      [] cmd = "CMD2" -> {"ident"}
      [] cmd = "CMD3" -> {"stby"}
      [] cmd = "CMD7" -> {"tran"}
      [] OTHER -> {state[c]}

\* one fault more
Faulty == faults < MaxFaults /\ faults' = faults + 1
Good == UNCHANGED faults

(***************************************************************************)
(* sdmmc_send_cmd_raw(): OK with the card's answer, or an error when none  *)
(* comes or it is damaged.  CMD0 has no answer to wait for, only to be     *)
(* sent.  A fault loses the command or its answer, or damages the answer:  *)
(* ACMD41's has no CRC, and a damaged one is taken for a good one.         *)
(***************************************************************************)
Heard(cmd) ==
    /\ slot # NoCard /\ Hears(slot, cmd)
    /\ \E s \in Moved(slot, cmd) : state' = [state EXCEPT ![slot] = s]
Unheard(cmd) ==
    /\ UNCHANGED state
    /\ IF slot # NoCard /\ Hears(slot, cmd) THEN Faulty ELSE Good
Answered(cmd) == Heard(cmd) /\ Good
Refused(cmd) == Unheard(cmd) \/ (Heard(cmd) /\ Faulty)

(***************************************************************************)
(* hal_sdmmc_init(): OK at once for a driver that is initialized, else     *)
(* from CMD0 on; disk_initialize() takes STA_NOINIT off when it is OK,     *)
(* and sd_mount() then has FatFs read the first block.                     *)
(***************************************************************************)
FirstBlock == CHOOSE b \in Blocks : \A other \in Blocks : b <= other
f_mount == Job("read", "CMD17", FirstBlock, <<Junk>>)
sd_mount ==
    /\ Idle
    /\ IF initialized
       THEN /\ noinit' = FALSE /\ job' = f_mount
            /\ UNCHANGED <<initialized, rca, high>>
       ELSE /\ rca' = NoCard /\ high' = FALSE
            /\ job' = [Job("mount", "CMD0", FirstBlock, <<>>)
                       EXCEPT !.at = IF slot = NoCard THEN "error" ELSE @]
            /\ UNCHANGED <<initialized, noinit>>
    /\ UNCHANGED <<slot, state, blocks, taken, may, faults, swaps>>

At(at) == job' = [job EXCEPT !.at = at]
Again(at) == job' = [job EXCEPT !.at = at, !.tries = @ + 1]

\* CMD0 is sent whatever the card does with it; a card that is slow to answer CMD8
\* gets three of them, and one that never does is initialized all the same
GoIdle ==
    /\ job.at = "CMD0"
    /\ \/ (Answered("CMD0") \/ Unheard("CMD0")) /\ At("CMD8")
       \/ Refused("CMD0") /\ faults' # faults /\ At("error")
    /\ UNCHANGED driver
InterfaceCondition ==
    /\ job.at = "CMD8"
    /\ \/ Answered("CMD8") /\ job' = [job EXCEPT !.at = "CMD55", !.tries = 0]
       \/ Refused("CMD8") /\ IF job.tries + 1 < 3 THEN Again("CMD8")
                             ELSE job' = [job EXCEPT !.at = "CMD55", !.tries = 0]
    /\ UNCHANGED driver
\* the OCR of ACMD41: whether the card is ready, and its kind
OcrTaken(ready, kind) ==
    IF ready
    THEN /\ high' = kind /\ At("CMD2")
         /\ misread' = (misread \/ (state'[slot] = "ready" /\ kind # (slot \in HighCapacity)))
    ELSE /\ UNCHANGED <<high, misread>>
         /\ IF job.tries + 1 < AcmdTries THEN Again("CMD55") ELSE At("error")
OperatingCondition ==
    \/ /\ job.at = "CMD55"
       /\ (Answered("CMD55") /\ At("ACMD41")) \/ (Refused("CMD55") /\ At("error"))
       /\ UNCHANGED <<driver, misread>>
    \/ /\ job.at = "ACMD41"
       /\ \/ Answered("ACMD41") /\ OcrTaken(state'[slot] = "ready", slot \in HighCapacity)
          \/ Heard("ACMD41") /\ Faulty /\ \E ready, kind \in BOOLEAN : OcrTaken(ready, kind)
          \/ Refused("ACMD41") /\ At("error") /\ UNCHANGED <<high, misread>>
       /\ UNCHANGED <<initialized, rca, noinit>>
Following(cmd) == CASE cmd = "CMD2" -> "CMD3" [] cmd = "CMD3" -> "CMD9"
                    [] cmd = "CMD9" -> "CMD7" [] cmd = "CMD7" -> "CMD16"
Identify ==
    /\ job.at \in {"CMD2", "CMD3", "CMD9", "CMD7"}
    /\ \/ Answered(job.at) /\ At(Following(job.at)) /\ rca' = IF job.at = "CMD3" THEN slot ELSE rca
       \/ Refused(job.at) /\ At("error") /\ UNCHANGED rca
    /\ UNCHANGED <<initialized, high, noinit>>
SetBlockLength ==
    /\ job.at = "CMD16"
    /\ \/ Answered("CMD16") /\ initialized' = TRUE /\ noinit' = FALSE /\ job' = f_mount
       \/ Refused("CMD16") /\ At("error") /\ UNCHANGED <<initialized, noinit>>
    /\ UNCHANGED <<rca, high>>

InitStep ==
    /\ \/ (GoIdle \/ InterfaceCondition \/ Identify \/ SetBlockLength) /\ UNCHANGED misread
       \/ OperatingCondition
    /\ UNCHANGED <<slot, blocks, taken, may, swaps>>

(***************************************************************************)
(* hal_sdmmc_read_blocks() and hal_sdmmc_write_blocks(): one block after   *)
(* the other, each with RetryMax attempts.                                 *)
(***************************************************************************)
Now == job.data[job.i + 1]
Ended(result, data) ==
    [job EXCEPT !.at = result, !.data = IF job.kind = "read" THEN data ELSE <<>>,
                !.i = 0, !.tries = 0, !.polls = 0]
DoneKeeps(data) ==    \* that gives the next block the attempts left over
    job' = IF job.i + 1 < Len(job.data)
           THEN [job EXCEPT !.data = data, !.i = @ + 1, !.polls = 0, !.faults = faults,
                            !.at = IF job.kind = "read" THEN "CMD17" ELSE "CMD24"]
           ELSE Ended("ok", data)
Done(data) ==
    job' = IF job.i + 1 < Len(job.data)
           THEN [job EXCEPT !.data = data, !.i = @ + 1, !.tries = 0, !.polls = 0, !.faults = faults,
                            !.at = IF job.kind = "read" THEN "CMD17" ELSE "CMD24"]
           ELSE Ended("ok", data)
Failed(data) ==
    job' = IF job.tries + 1 < RetryMax
           THEN [job EXCEPT !.data = data, !.tries = @ + 1, !.polls = 0,
                            !.at = IF job.kind = "read" THEN "CMD17" ELSE "CMD24"]
           ELSE Ended("error", <<>>)

\* disk_read(), disk_write(): neither while the disk is not ready
Start(kind, cmd, lba, data) ==
    /\ Idle
    /\ job' = [Job(kind, cmd, lba, data)
               EXCEPT !.at = IF noinit \/ ~initialized THEN "error" ELSE @]
    /\ UNCHANGED <<slot, state, blocks, taken, initialized, rca, high, noinit, may, faults, swaps>>
disk_read(lba, n) == Start("read", "CMD17", lba, [k \in 1 .. n |-> Junk])
disk_write(lba, data) == Start("write", "CMD24", lba, data)

\* "sd inspect" reads the first block around the disk layer, ready or not
cli_sd_inspect ==
    /\ Idle
    /\ job' = [f_mount EXCEPT !.at = IF initialized THEN @ ELSE "error"]
    /\ UNCHANGED <<slot, state, blocks, taken, initialized, rca, high, noinit, may, faults, swaps>>

\* sdmmc_read_block(): the command, the words of the FIFO, the end of the data
ReadBlockUnchecked ==    \* that does not look at the CRC of the data
    /\ \/ /\ job.at = "CMD17"
          /\ (Answered("CMD17") /\ At("fifo_read")) \/ (Refused("CMD17") /\ Failed(job.data))
       \/ /\ job.at = "fifo_read" /\ UNCHANGED state
          /\ \/ Transfers /\ Good /\ job' = [job EXCEPT !.data[job.i + 1] = blocks[slot][Addressed(slot)], !.at = "read_end"]
             \/ (IF Transfers THEN Faulty ELSE Good) /\ Failed([job.data EXCEPT ![job.i + 1] = Junk])
       \/ /\ job.at = "read_end" /\ UNCHANGED state
          /\ \/ Transfers /\ Good /\ Done(job.data)
             \/ Transfers /\ Faulty /\ Done([job.data EXCEPT ![job.i + 1] = Junk])
    /\ UNCHANGED <<slot, blocks, taken, initialized, rca, high, noinit, may, swaps>>
ReadBlock ==
    /\ \/ /\ job.at = "CMD17"
          /\ (Answered("CMD17") /\ At("fifo_read")) \/ (Refused("CMD17") /\ Failed(job.data))
       \/ /\ job.at = "fifo_read" /\ UNCHANGED state
          /\ \/ Transfers /\ Good /\ job' = [job EXCEPT !.data[job.i + 1] = blocks[slot][Addressed(slot)], !.at = "read_end"]
             \/ (IF Transfers THEN Faulty ELSE Good) /\ Failed([job.data EXCEPT ![job.i + 1] = Junk])
       \/ /\ job.at = "read_end" /\ UNCHANGED state
          /\ \/ Transfers /\ Good /\ Done(job.data)
             \/ (IF Transfers THEN Faulty ELSE Good) /\ Failed([job.data EXCEPT ![job.i + 1] = Junk])
    /\ UNCHANGED <<slot, blocks, taken, initialized, rca, high, noinit, may, swaps>>

\* sdmmc_write_block(): the command, the words, the end of the data, and
\* sdmmc_wait_card_ready() until the card has programmed them
SendWords ==
    /\ \/ /\ job.at = "CMD24"
          /\ \/ Answered("CMD24") /\ At("fifo_write")
             \/ Refused("CMD24") /\ Failed(job.data)
       \/ /\ job.at = "fifo_write" /\ UNCHANGED state
          /\ (Good /\ At("write_end")) \/ ((IF Transfers THEN Faulty ELSE Good) /\ Failed(job.data))
    /\ UNCHANGED <<taken, may>>
Take ==
    /\ job.at = "write_end"
    /\ \/ /\ Transfers
          /\ state' = [state EXCEPT ![slot] = "prg"]
          /\ taken' = [taken EXCEPT ![slot] = [block |-> Addressed(slot), data |-> Now]]
          /\ (Good /\ At("CMD13")) \/ (Faulty /\ Failed(job.data))
          /\ may' = [may EXCEPT ![rca][job.lba + job.i] = @ \cup {Now}]
       \/ /\ (IF Transfers THEN Faulty ELSE Good) /\ Failed(job.data)
          /\ UNCHANGED <<state, taken, may>>
WaitReadyNot ==    \* that leaves the card programming
    /\ job.at = "CMD13"
    /\ Good /\ UNCHANGED <<state, taken>>
    /\ Done(job.data)
    /\ may' = [may EXCEPT ![rca][job.lba + job.i] = {Now}]
WaitReady ==
    /\ job.at = "CMD13"
    /\ \/ Refused("CMD13") /\ Failed(job.data) /\ UNCHANGED may
       \/ /\ Answered("CMD13") /\ state[slot] = "tran"
          /\ Done(job.data)
          /\ may' = [may EXCEPT ![rca][job.lba + job.i] = {Now}]
       \/ /\ Answered("CMD13") /\ state[slot] # "tran" /\ UNCHANGED may
          /\ IF job.polls + 1 < ReadyPolls THEN job' = [job EXCEPT !.polls = @ + 1] ELSE Failed(job.data)
    /\ UNCHANGED taken
WriteBlock ==
    /\ SendWords \/ Take \/ WaitReady
    /\ UNCHANGED <<slot, blocks, initialized, rca, high, noinit, swaps>>

\* sd_unmount(): the next access needs a mount; sd_initialized stays
sd_unmount ==
    /\ Idle /\ ~noinit
    /\ noinit' = TRUE
    /\ UNCHANGED <<slot, state, blocks, taken, initialized, rca, high, job, may, faults, swaps>>

(***************************************************************************)
(* The world: a card finishes a block, is pulled out or put in (its power  *)
(* goes with the slot's), and the board is reset with the card as it is.   *)
(***************************************************************************)
Nothing == [block |-> FirstBlock, data |-> Zero]
Programmed ==
    /\ slot # NoCard /\ state[slot] = "prg"
    /\ state' = [state EXCEPT ![slot] = "tran"]
    /\ blocks' = [blocks EXCEPT ![slot][taken[slot].block] = taken[slot].data]
    /\ taken' = [taken EXCEPT ![slot] = Nothing]
    /\ UNCHANGED <<slot, initialized, rca, high, noinit, job, may, faults, swaps>>
Swap(c) ==
    /\ swaps < MaxSwaps /\ swaps' = swaps + 1
    /\ IF slot = NoCard
       THEN slot' = c /\ state' = [state EXCEPT ![c] = "idle"]
       ELSE slot = c /\ slot' = NoCard /\ state' = [state EXCEPT ![c] = "off"]
    /\ taken' = [taken EXCEPT ![c] = Nothing]
    /\ UNCHANGED <<blocks, initialized, rca, high, noinit, job, may, faults>>
Booted == [Job("mount", "error", FirstBlock, <<>>) EXCEPT !.faults = 0, !.swaps = 0]
Reset ==
    /\ initialized' = FALSE /\ rca' = NoCard /\ high' = FALSE /\ noinit' = TRUE
    /\ job' = Booted
    /\ UNCHANGED <<slot, state, blocks, taken, may, faults, swaps>>

Init ==
    /\ slot \in Cards /\ state = [c \in Cards |-> IF c = slot THEN "idle" ELSE "off"]
    /\ blocks = [c \in Cards |-> [b \in Blocks |-> Zero]]
    /\ taken = [c \in Cards |-> Nothing]
    /\ initialized = FALSE /\ rca = NoCard /\ high = FALSE /\ noinit = TRUE
    /\ may = [c \in Cards |-> [b \in Blocks |-> {Zero}]]
    /\ faults = 0 /\ swaps = 0 /\ misread = FALSE
    /\ job = Booted

Calls ==
    \/ sd_mount \/ sd_unmount \/ cli_sd_inspect
    \/ \E lba \in Blocks, n \in 1 .. 2 : lba + n - 1 \in Blocks /\ disk_read(lba, n)
    \/ \E lba \in Blocks, n \in 1 .. 2 : \E data \in [1 .. n -> Data] :
          lba + n - 1 \in Blocks /\ disk_write(lba, data)
World == Programmed \/ Reset \/ \E c \in Cards : Swap(c)
Next ==
    \/ InitStep
    \/ (Calls \/ ReadBlock \/ WriteBlock \/ World) /\ UNCHANGED misread

Spec == Init /\ [][Next]_vars

(***************************************************************************)
(* Properties. Nothing protects the answer to ACMD41: of a card that was   *)
(* taken for one of the other kind, whose blocks have other addresses,     *)
(* they say nothing more.                                                  *)
(***************************************************************************)

SdTypeOK ==
    /\ slot \in Cards \cup {NoCard} /\ rca \in Cards \cup {NoCard}
    /\ state \in [Cards -> {"off", "idle", "ready", "ident", "stby", "tran", "prg"}]
    /\ blocks \in [Cards -> [Blocks -> Data]]
    /\ taken \in [Cards -> [block : Blocks, data : Data]]
    /\ initialized \in BOOLEAN /\ high \in BOOLEAN /\ noinit \in BOOLEAN
    /\ job \in Jobs
    /\ may \in [Cards -> [Blocks -> SUBSET Data]]
    /\ faults \in Nat /\ swaps \in Nat

\* A disk that FatFs is told is ready was initialized, and a card that takes transfers
\* from an initialized driver is the one it initialized, addressed as that card counts:
\* no card swapped in, and no initialization given up half way, is ever written to.
KnownCard ==
    /\ noinit \/ initialized
    /\ \A c \in Cards : initialized /\ state[c] \in {"tran", "prg"} =>
           rca = c /\ high = (c \in HighCapacity)

\* Every block of every card holds what the writes made to it let it hold: the data of
\* the last one that returned RES_OK or of one after it that failed or was cut short by
\* a reset. A write changes no other block, and retries and resets repair none wrongly,
\* and only a card the driver knows is written to.
BlocksAsWritten == ~misread =>
    /\ SdTypeOK /\ KnownCard
    /\ \A c \in Cards, b \in Blocks : blocks[c][b] \in may[c][b]

\* A read that returns RES_OK gave the data of the blocks asked for, each with what was
\* last written to it, through retries, damaged blocks and swapped cards.
DataRight ==
    job.kind = "read" /\ job.at = "ok" =>
        \A k \in DOMAIN job.data : job.data[k] \in may[rca][job.lba + k - 1]
ReadsRight == ~misread => DataRight

\* What the retries are for (the comment above SDMMC_BLOCK_RETRY_MAX): a read of a card
\* that is ready for it, and stays in the slot, fails only when RetryMax attempts at one
\* block did.
RetriesUsed ==
    job.kind = "read" /\ job.at = "error" /\ job.ready /\ swaps = job.swaps /\ ~noinit
        => faults >= job.faults + RetryMax
FaultsMasked == ~misread => RetriesUsed
=============================================================================
