---------------------------- MODULE SaramosPipe ----------------------------
(***************************************************************************)
(* saramos_pipe_t of src/os/saramos_pipe.c: a ring of PipeSize bytes.      *)
(* Pure operators on one pipe; the lists of waiting processes belong to    *)
(* the scheduler's state, in SaramosProcess.                               *)
(***************************************************************************)
EXTENDS Integers, Sequences

CONSTANTS
    Bytes,      \* the byte values the properties tell apart
    Zero,       \* what memset() writes
    PipeSize    \* SARAMOS_PIPE_SIZE

ASSUME BytesAssumption == Zero \in Bytes
ASSUME PipeSizeAssumption == PipeSize \in Nat \ {0}

Slots == 0 .. PipeSize - 1

PipeType ==
    [buf: [Slots -> Bytes], head: Slots, tail: Slots, count: 0 .. PipeSize, eof: BOOLEAN]

\* saramos_pipe_init()
EmptyPipe ==
    [buf |-> [i \in Slots |-> Zero], head |-> 0, tail |-> 0, count |-> 0, eof |-> FALSE]

Full(p)    == p.count >= PipeSize
Empty(p)   == p.count = 0
AtEof(p)   == p.eof /\ Empty(p)
Closed(p)  == [p EXCEPT !.eof = TRUE]

\* The byte saramos_pipe_read_byte() returns.
FrontByte(p) == p.buf[p.tail]

\* Mutant: head is advanced before the byte is stored.
WriteByteAfter(p, c) ==
    LET h == (p.head + 1) % PipeSize
    IN  [p EXCEPT !.head = h, !.buf = [@ EXCEPT ![h] = c], !.count = @ + 1]

\* saramos_pipe_write_byte() with room, and one turn of saramos_pipe_write().
WriteByte(p, c) ==
    [p EXCEPT !.buf = [@ EXCEPT ![p.head] = c],
              !.head = (@ + 1) % PipeSize,
              !.count = @ + 1]

\* saramos_pipe_read_byte() with data, and one turn of saramos_pipe_read().
ReadByte(p) == [p EXCEPT !.tail = (@ + 1) % PipeSize, !.count = @ - 1]

\* The ring is coherent: head is count places after tail.
RingOK(p) == p \in PipeType /\ p.head = (p.tail + p.count) % PipeSize

\* The bytes written and not yet read, oldest first.
Contents(p) == [i \in 1 .. p.count |-> p.buf[(p.tail + i - 1) % PipeSize]]
=============================================================================
