--------------------------------- MODULE Vi ---------------------------------
(***************************************************************************)
(* The line editor (src/tools/saramos_vi/saramos_vi.c) over the file       *)
(* descriptors of saramos_fs.c. Its prompt reads a whole line with         *)
(* vi_read_line(), and so does the insert mode up to Enter or ESC: a step  *)
(* is one such line.                                                       *)
(***************************************************************************)
EXTENDS FileTools

CONSTANTS
    MaxLines,    \* VI_MAX_LINES
    MaxFds       \* SARAMOS_FD_MAX

Lf == "\n"   Cr == "\r"

(***************************************************************************)
(* saramos_fs.c: a descriptor is taken before the file is opened, given    *)
(* back when that fails, and given back by a close whatever f_close says.  *)
(* s.fds are the descriptors in use.                                       *)
(***************************************************************************)
Fds == 1 .. MaxFds
NoFd == 0
alloc_fd(s) == IF Fds \ s.fds = {} THEN NoFd ELSE Min(Fds \ s.fds)
Used(s, fd) == [s EXCEPT !.fds = @ \cup {fd}]
saramos_open(s, opened) ==
    {IF alloc_fd(s) = NoFd THEN [s |-> s, fd |-> NoFd]
     ELSE IF o.ok THEN [s |-> Used(o.s, alloc_fd(s)), fd |-> alloc_fd(s)]
     ELSE [s |-> o.s, fd |-> NoFd] : o \in opened}
saramos_close(s, fd) == [s EXCEPT !.fds = @ \ {fd}]

(***************************************************************************)
(* The buffer: vi is [lines, cur, pos, path, mode, said]; pos is where the *)
(* insert mode puts its next line.                                         *)
(***************************************************************************)
\* the lines of a file without their CRs: as many as the buffer takes, the last
\* one also without an end
SplitAt(data) ==
    LET ends == SetToSortSeq({i \in DOMAIN data : data[i] = Lf} \cup {0}, <)
        Line(k) == SubSeq(data, ends[k] + 1, IF k = Len(ends) THEN Len(data) ELSE ends[k + 1] - 1)
        all == [k \in DOMAIN ends |-> SelectSeq(Line(k), LAMBDA c : c # Cr)]
    IN  IF all[Len(all)] = <<>> THEN Front(all) ELSE all
vi_load(s, w) ==
    UNION {IF o.fd = NoFd THEN {[s |-> o.s, lines |-> <<>>]}
           ELSE {[s |-> saramos_close(o.s, o.fd),
                  lines |-> SubSeq(SplitAt(r.data), 1, Min({MaxLines, Len(SplitAt(r.data))}))] : r \in f_read(s, w)}
           : o \in saramos_open(s, IF IsFile(s, w)
                                   THEN {[s |-> s, ok |-> TRUE]} \cup Fault(s, {[s |-> s, ok |-> FALSE]})
                                   ELSE {[s |-> s, ok |-> FALSE]})}

\* it says "written" only of a file it wrote all of and closed without an error
AsFile(lines) == FoldLeft(LAMBDA data, l : data \o l \o EndLine, <<>>, lines)
vi_saveUnclosed(s, w, lines) ==   \* that does not look at what the close says
    UNION {IF o.fd = NoFd THEN {[s |-> o.s, said |-> "cannot open"]}
           ELSE {[s |-> saramos_close(r.s, o.fd),
                  said |-> IF ~r.error /\ r.n = Len(AsFile(lines)) THEN "written" ELSE "write failed"]
                 : r \in f_write(o.s, w, AsFile(lines))}
           : o \in saramos_open(s, f_open(s, w))}
vi_save(s, w, lines) ==
    UNION {IF o.fd = NoFd THEN {[s |-> o.s, said |-> "cannot open"]}
           ELSE {[s |-> saramos_close(r.s, o.fd),
                  said |-> IF ~r.error /\ r.n = Len(AsFile(lines)) /\ r.closed
                           THEN "written" ELSE "write failed"]
                 : r \in f_write(o.s, w, AsFile(lines))}
           : o \in saramos_open(s, f_open(s, w))}

\* a line more at pos, which the ends of the buffer bound; cur goes to it
vi_insert_line_at(vi, text) ==
    LET pos == Min({vi.pos, Len(vi.lines)})
    IN  IF Len(vi.lines) >= MaxLines THEN vi
        ELSE [vi EXCEPT !.lines = InsertAt(@, pos + 1, text), !.cur = pos]

vi_delete_line(vi) ==
    IF vi.cur >= Len(vi.lines) THEN vi
    ELSE LET left == RemoveAt(vi.lines, vi.cur + 1)
         IN  [vi EXCEPT !.lines = left,
                        !.cur = IF @ < Len(left) THEN @ ELSE Max({Len(left), 1}) - 1]

\* vi_insert_mode() from a position on, for the line that was typed up to Enter
\* or to ESC: the modes it goes on in, and whether it asks for the file
Inserting(vi, pos) == [vi EXCEPT !.mode = "insert", !.pos = pos]
Inserted(vi, text) == [vi_insert_line_at(vi, text) EXCEPT !.pos = vi.pos + 1]
Entered(vi, text) ==
    CASE text = <<".">> -> [vi EXCEPT !.mode = "command"]
      [] text = <<":w">> -> [vi EXCEPT !.mode = "save"]
      [] text = <<":wq">> -> [vi EXCEPT !.mode = "save quit"]
      [] OTHER -> Inserted(vi, text)
Escaped(vi, text) ==
    [(IF text = <<>> THEN vi ELSE Inserted(vi, text)) EXCEPT !.mode = "command"]

\* saramos_vi(): a line at its prompt
Commanded(vi, cmd) ==
    CASE cmd = "i" -> Inserting(vi, vi.cur)
      [] cmd \in {"a", "o"} -> Inserting(vi, vi.cur + 1)
      [] cmd \in {"d", "x"} -> vi_delete_line(vi)
      [] cmd \in {"n", "j", "l"} -> [vi EXCEPT !.cur = IF @ + 1 < Len(vi.lines) THEN @ + 1 ELSE @]
      [] cmd \in {"p", "k", "h"} -> [vi EXCEPT !.cur = Max({@, 1}) - 1]
      [] cmd = ":w" -> [vi EXCEPT !.mode = "save"]
      [] cmd = ":q" -> [vi EXCEPT !.mode = "quit"]
      [] cmd = ":wq" -> [vi EXCEPT !.mode = "save quit"]
      [] OTHER -> vi
=============================================================================
