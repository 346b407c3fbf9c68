----------------------------- MODULE TextTools -----------------------------
(***************************************************************************)
(* The programs of src/tools/coreutils that read a file and print another  *)
(* text: head, tail, wc, sort, uniq, cut, rev, grep, fold, tr, nl, paste,  *)
(* tac, strings, od, diff and xargs, and those that print something about  *)
(* their arguments: seq, printf, basename, dirname and find's pattern.     *)
(*                                                                         *)
(* A program is an operator from its options and its files to what it      *)
(* prints. A file is the sequence of its bytes, or NoFile when f_open()    *)
(* fails; a program reads one byte at a time, so it is a fold over them. A *)
(* byte is its code; a printed number is one token, and so is a message.   *)
(***************************************************************************)
EXTENDS Integers, Sequences, SequencesExt, FiniteSetsExt

CONSTANTS
    NoFile,      \* a path f_open() refuses
    LineSize,    \* the line buffers: SORT_LINE_SIZE, sizeof(line), ...
    MaxLines,    \* the line tables: SORT_MAX_LINES, DIFF_MAX_LINES, ...
    TacBytes,    \* TAC_LINE_BUF
    OdRow,       \* OD_ROW
    PasteMax,    \* PASTE_MAX_FILES
    XargsMax     \* XARGS_MAX_ARGS

ASSUME SizeAssumption == LineSize \in Nat /\ LineSize > 2 /\ {MaxLines, TacBytes, OdRow, PasteMax, XargsMax} \subseteq Nat \ {0}

NUL == 0   TAB == 9   NL == 10   CR == 13   SP == 32
Eol == <<CR, NL>>
Num(n) == 1000 + n   \* a number, printed
Error  == 999        \* a message on the console

\* isspace() and isprint() of the C locale
isspace(c) == c \in 9 .. 13 \cup {SP}
isprint(c) == c \in 32 .. 126
tolower(c) == IF c \in 65 .. 90 THEN c + 32 ELSE c
ToLower(s) == [i \in DOMAIN s |-> tolower(s[i])]

\* What is printed for each of the files in turn; without one, a message.
PerFile(print(_), files) ==
    IF files = <<>> THEN <<Error>>
    ELSE FlattenSeq([i \in DOMAIN files |-> IF files[i] = NoFile THEN <<Error>> ELSE print(files[i])])

\* strcmp(s, t) <= 0
SortedPair(s, t) ==
    \E i \in 1 .. Len(s) + 1 :
        /\ \A j \in 1 .. i - 1 : j <= Len(t) /\ s[j] = t[j]
        /\ i > Len(s) \/ (i <= Len(t) /\ s[i] < t[i])

Count(s, c) == Cardinality({i \in DOMAIN s : s[i] = c})
-----------------------------------------------------------------------------
(***************************************************************************)
(* How the programs find the lines of a file. A line that does not fit is  *)
(* cut short by sort, uniq and diff, and split, less one byte, by grep,    *)
(* cut and rev. All but those two keep a last line without a newline.      *)
(***************************************************************************)
NoLines == [done |-> <<>>, line |-> <<>>]

read_lines(file, max) ==
    LET Next(s, c) ==
            IF Len(s.done) >= max THEN s
            ELSE IF c = NL THEN [done |-> Append(s.done, s.line), line |-> <<>>]
            ELSE IF Len(s.line) < LineSize - 2 THEN [s EXCEPT !.line = Append(@, c)]
            ELSE s
        end == FoldLeft(Next, NoLines, file)
    IN  IF Len(end.done) < max /\ end.line # <<>> THEN Append(end.done, end.line) ELSE end.done

\* the loop of grep, cut and rev: the lines it completes, and what is left
SplitLines(file) ==
    FoldLeft(LAMBDA s, c : IF c = NL \/ Len(s.line) >= LineSize - 2
                           THEN [done |-> Append(s.done, s.line), line |-> <<>>]
                           ELSE [s EXCEPT !.line = Append(@, c)], NoLines, file)

PutLines(lines) == FlattenSeq([i \in DOMAIN lines |-> lines[i] \o Eol])
-----------------------------------------------------------------------------
\* head -n
head_file(file, n) ==
    FoldLeft(LAMBDA s, c : IF s.count >= n THEN s
                           ELSE [count |-> s.count + (IF c = NL THEN 1 ELSE 0), out |-> Append(s.out, c)],
             [count |-> 0, out |-> <<>>], file).out
saramos_head(n, files) == PerFile(LAMBDA f : head_file(f, n), files)

\* tail -n: the lines are counted first, by their newlines
tail_fileOver(file, n) ==
    LET total == Count(file, NL)
        skip  == IF total > n THEN total - n - 1 ELSE 0
    IN  FoldLeft(LAMBDA s, c : [current |-> s.current + (IF c = NL THEN 1 ELSE 0),
                                out     |-> IF s.current >= skip THEN Append(s.out, c) ELSE s.out],
                 [current |-> 0, out |-> <<>>], file).out
tail_file(file, n) ==
    LET total == Count(file, NL)
        skip  == IF total > n THEN total - n ELSE 0
    IN  FoldLeft(LAMBDA s, c : [current |-> s.current + (IF c = NL THEN 1 ELSE 0),
                                out     |-> IF s.current >= skip THEN Append(s.out, c) ELSE s.out],
                 [current |-> 0, out |-> <<>>], file).out
saramos_tail(n, files) == PerFile(LAMBDA f : tail_file(f, n), files)

\* wc: lines, words and bytes of one file
count_file(file) ==
    LET Next(s, c) ==
            [lines   |-> s.lines + (IF c = NL THEN 1 ELSE 0),
             words   |-> s.words + (IF ~isspace(c) /\ ~s.in_word THEN 1 ELSE 0),
             bytes   |-> s.bytes + 1,
             in_word |-> ~isspace(c)]
    IN  FoldLeft(Next, [lines |-> 0, words |-> 0, bytes |-> 0, in_word |-> FALSE], file)

\* Every file's three numbers, and with several files the totals the options ask
\* for: each of -l, -w and -c takes the other two away, so that two of them leave
\* none and the last of the program's cases
saramos_wc(options, files) ==
    LET counts == [i \in DOMAIN files |-> count_file(IF files[i] = NoFile THEN <<>> ELSE files[i])]
        Total(Get(_)) == FoldLeft(LAMBDA n, c : n + Get(c), 0, counts)
        totals == [lines |-> Total(LAMBDA c : c.lines), words |-> Total(LAMBDA c : c.words),
                   bytes |-> Total(LAMBDA c : c.bytes)]
        all    == <<"lines", "words", "bytes">>
        left   == SelectSeq(all, LAMBDA k : ToSet(options) \subseteq {k})
        shown  == IF left = <<>> THEN <<"bytes">> ELSE left
    IN  PerFile(LAMBDA f : LET c == count_file(f) IN <<Num(c.lines), Num(c.words), Num(c.bytes)>> \o Eol, files)
        \o (IF Len(files) > 1 THEN [k \in DOMAIN shown |-> Num(totals[shown[k]])] \o Eol ELSE <<>>)

\* sort: the exchanges of its two loops, one pair after the other
Exchanged(lines, i, j) ==
    IF SortedPair(lines[i], lines[j]) THEN lines
    ELSE [lines EXCEPT ![i] = lines[j], ![j] = lines[i]]
sort_lines(lines) ==
    LET n == Len(lines)
    IN  FoldLeft(LAMBDA s, i : FoldLeft(LAMBDA t, j : Exchanged(t, i, i + j), s, [j \in 1 .. n - i |-> j]),
                 lines, [i \in 1 .. n - 1 |-> i])
saramos_sort(files) == PerFile(LAMBDA f : PutLines(sort_lines(read_lines(f, MaxLines))), files)

\* uniq: a line of each run of equal lines, with the length of the run (-c)
Runs(lines) ==
    FoldLeft(LAMBDA s, l : IF s # <<>> /\ s[Len(s)].line = l
                           THEN [s EXCEPT ![Len(s)].run = @ + 1]
                           ELSE Append(s, [line |-> l, run |-> 1]), <<>>, lines)
saramos_uniq(count_repeats, file) ==
    IF file = NoFile THEN <<Error>>
    ELSE LET runs == Runs(read_lines(file, MaxLines))
         IN  FlattenSeq([i \in DOMAIN runs |->
                 (IF count_repeats THEN <<Num(runs[i].run), SP>> ELSE <<>>) \o runs[i].line \o Eol])

\* diff: line i of one against line i of the other, a line that is missing being empty
saramos_diff(file1, file2) ==
    IF NoFile \in {file1, file2} THEN [out |-> <<Error>>, status |-> 1]
    ELSE LET a == read_lines(file1, MaxLines)
             b == read_lines(file2, MaxLines)
             LineOf(ls, i) == IF i <= Len(ls) THEN ls[i] ELSE <<>>
             differ == SetToSortSeq({i \in 1 .. Max({Len(a), Len(b)}) : LineOf(a, i) # LineOf(b, i)}, <)
         IN  [out    |-> FlattenSeq([k \in DOMAIN differ |->
                             <<Num(differ[k])>> \o Eol \o LineOf(a, differ[k]) \o Eol \o LineOf(b, differ[k]) \o Eol]),
              status |-> IF differ = <<>> THEN 0 ELSE 1]
-----------------------------------------------------------------------------
\* cut: past field - 1 delimiters of a line, up to the next one; the line that
\* is left at the end of the file is not printed
Field(line, delim, field) ==
    FoldLeft(LAMBDA s, c : [f   |-> s.f + (IF c = delim THEN 1 ELSE 0),
                            out |-> IF s.f = field /\ c # delim THEN Append(s.out, c) ELSE s.out],
             [f |-> 1, out |-> <<>>], line).out
cut_file(file, delim, field) ==
    LET lines == SplitLines(file).done
    IN  PutLines([i \in DOMAIN lines |-> Field(lines[i], delim, field)])
saramos_cut(delim, field, file) ==
    IF field = 0 \/ file = NoFile THEN <<Error>> ELSE cut_file(file, delim, field)

\* rev: nor is it here
rev_file(file) == LET lines == SplitLines(file).done
                  IN  PutLines([i \in DOMAIN lines |-> Reverse(lines[i])])
saramos_rev(files) == PerFile(rev_file, files)

\* grep
match(line, pat, ignore_case) ==
    \/ pat = <<>>
    \/ \E p \in DOMAIN line :
          /\ p + Len(pat) - 1 <= Len(line)
          /\ LET part == SubSeq(line, p, p + Len(pat) - 1)
             IN  IF ignore_case THEN ToLower(part) = ToLower(pat) ELSE part = pat
grep_file(file, pat, ignore_case, show_line) ==
    LET split == SplitLines(file)
        lines == IF split.line # <<>> THEN Append(split.done, split.line) ELSE split.done
    IN  FlattenSeq([i \in DOMAIN lines |->
            IF match(lines[i], pat, ignore_case)
            THEN (IF show_line THEN <<Num(i)>> ELSE <<>>) \o lines[i] \o Eol
            ELSE <<>>])
saramos_grep(ignore_case, show_line, pat, files) ==
    PerFile(LAMBDA f : grep_file(f, pat, ignore_case, show_line), files)

\* fold -w, and -s: what was printed since the last break is kept in linebuf
\* and, with -s, printed again up to its last space at the next one. A break of
\* -s at a width above 511 reads and shifts bytes past those of linebuf (lines
\* 45-51; 71 guards the writing alone): such widths are left out with -s.
Broken(s) ==
    LET spaces == {i \in DOMAIN s.linebuf : s.linebuf[i] = SP}
        upto   == IF spaces = {} THEN Len(s.linebuf) ELSE Max(spaces)
    IN  [linebuf |-> SubSeq(s.linebuf, upto + 1, Len(s.linebuf)),
         out     |-> s.out \o SubSeq(s.linebuf, 1, upto) \o Eol]
Put(s, c) == [linebuf |-> Append(s.linebuf, c), out |-> Append(s.out, c)]
fold_file(file, width, at_space) ==
    LET Next(s, c) ==
            IF c = NL THEN [linebuf |-> <<>>, out |-> s.out \o Eol]
            ELSE IF c = CR THEN s
            ELSE IF Len(s.linebuf) < width THEN Put(s, c)
            ELSE IF at_space THEN Put(Broken(s), c)
            ELSE Put([linebuf |-> <<>>, out |-> s.out \o Eol], c)
        end == FoldLeft(Next, [linebuf |-> <<>>, out |-> <<>>], file)
    IN  end.out \o (IF end.linebuf # <<>> THEN Eol ELSE <<>>)
saramos_fold(width, at_space, files) ==
    LET w == IF width < 1 THEN 80 ELSE width IN PerFile(LAMBDA f : fold_file(f, w, at_space), files)

\* tr, tr -d
Minus == 45
IsRange(set, i) == set[i] = Minus /\ i > 1 /\ i < Len(set)
in_set(c, set) ==
    \E i \in DOMAIN set : set[i] = c \/ (IsRange(set, i) /\ c \in set[i - 1] .. set[i + 1])
translate(c, from, to) ==
    LET Offset(i) == c - from[i - 1]
        InRange(i) == IsRange(from, i) /\ c \in from[i - 1] .. from[i + 1] /\ Offset(i) < Len(to)
        hits == {i \in 1 .. Min({Len(from), Len(to)}) : from[i] = c \/ InRange(i)}
        i    == Min(hits)
    IN  IF hits = {} THEN c ELSE IF from[i] = c THEN to[i] ELSE to[Offset(i) + 1]
tr_file(file, from, to, delete) ==
    IF delete THEN SelectSeq(file, LAMBDA c : ~in_set(c, from))
    ELSE [i \in DOMAIN file |-> translate(file[i], from, to)]
saramos_tr(delete, from, to, file) == IF file = NoFile THEN <<Error>> ELSE tr_file(file, from, to, delete)

\* nl, nl -b t: empty lines are not counted
nl_file(file, body_only) ==
    LET Next(s, c) ==
            IF c # NL THEN [s EXCEPT !.line = IF Len(@) < LineSize - 1 THEN Append(@, c) ELSE @]
            ELSE LET counted == ~body_only \/ s.line # <<>>
                 IN  [line   |-> <<>>,
                      lineno |-> s.lineno + (IF counted THEN 1 ELSE 0),
                      out    |-> s.out \o (IF counted THEN <<Num(s.lineno)>> ELSE <<>>) \o <<TAB>> \o s.line \o Eol]
        end == FoldLeft(Next, [line |-> <<>>, lineno |-> 1, out |-> <<>>], file)
    IN  end.out \o (IF end.line # <<>> THEN <<Num(end.lineno), TAB>> \o end.line \o Eol ELSE <<>>)
saramos_nl(body_only, files) == PerFile(LAMBDA f : nl_file(f, body_only), files)

\* tac: the lines from the last to the first. What the buffer cannot hold is not
\* read; a last line without a newline gets a NUL and a line end, and the lines
\* past the end of the table stay behind the last one in it.
tac_file(file) ==
    LET buf    == SubSeq(file, 1, Min({Len(file), TacBytes - 1}))
        starts == SetToSortSeq({i \in DOMAIN buf : i = 1 \/ buf[i - 1] = NL}, <)
        n      == Min({Len(starts), MaxLines})
        open   == buf # <<>> /\ buf[Len(buf)] # NL
        whole  == IF open /\ Len(starts) <= MaxLines THEN Append(buf, NUL) ELSE buf
        Line(i) == SubSeq(whole, starts[i], IF i < n THEN starts[i + 1] - 1 ELSE Len(whole))
        Ended(l) == IF l[Len(l)] # NL THEN l \o Eol ELSE l
    IN  FlattenSeq([k \in 1 .. n |-> Ended(Line(n + 1 - k))])
saramos_tac(files) == PerFile(tac_file, files)
-----------------------------------------------------------------------------
\* paste: a round takes a line of every file, or as much as fits, less its CRs
Round(rest) ==
    LET stops == {i \in DOMAIN rest : rest[i] = NL
                    \/ Cardinality({j \in 1 .. i : rest[j] # CR}) = LineSize - 1}
        take  == IF stops = {} THEN Len(rest) ELSE Min(stops)
    IN  [line |-> SelectSeq(SubSeq(rest, 1, take), LAMBDA c : c \notin {NL, CR}),
         rest |-> SubSeq(rest, take + 1, Len(rest)),
         br   |-> stops # {}]  \* whether the last f_read() got a byte
pasteLine(fields, delim) ==
    FlattenSeq([i \in DOMAIN fields |-> (IF i > 1 THEN <<delim>> ELSE <<>>) \o fields[i]]) \o Eol
saramos_paste(delim, paths) ==
    LET files  == SubSeq(paths, 1, Min({Len(paths), PasteMax}))
        opened == [i \in DOMAIN files |-> IF files[i] = NoFile THEN <<>> ELSE files[i]]
        Next(s, k) ==
            LET rounds == [i \in DOMAIN s.rest |-> Round(s.rest[i])]
                any_data == \E i \in DOMAIN rounds : files[i] # NoFile /\ (rounds[i].line # <<>> \/ rounds[i].br)
            IN  IF ~any_data THEN s
                ELSE [rest |-> [i \in DOMAIN rounds |-> rounds[i].rest],
                      out  |-> s.out \o pasteLine([i \in DOMAIN rounds |-> rounds[i].line], delim)]
        bytes == FoldLeft(LAMBDA n, f : n + Len(f), 0, opened)
    IN  IF paths = <<>> THEN <<Error>>
        ELSE FlattenSeq([i \in DOMAIN files |-> IF files[i] = NoFile THEN <<Error>> ELSE <<>>])
             \o FoldLeft(Next, [rest |-> opened, out |-> <<>>], [k \in 1 .. bytes + 1 |-> k]).out

\* strings -n: runs of printable bytes and tabs, at least min_len long
strings_file(file, min_len) ==
    LET Flushed(s) == IF Len(s.seq) >= min_len THEN s.out \o s.seq \o Eol ELSE s.out
        Next(s, c) ==
            IF ~(isprint(c) \/ c = TAB) THEN [seq |-> <<>>, out |-> Flushed(s)]
            ELSE IF Len(s.seq) < LineSize THEN [s EXCEPT !.seq = Append(@, c)] ELSE s
    IN  Flushed(FoldLeft(Next, [seq |-> <<>>, out |-> <<>>], file))
saramos_strings(min_len, files) ==
    PerFile(LAMBDA f : strings_file(f, IF min_len < 1 THEN 1 ELSE min_len), files)

\* od: rows of an offset and its bytes, or with -x its little-endian words
od_file(file, hex) ==
    LET n == Len(file)
        Byte(i) == IF i < n THEN file[i + 1] ELSE 0
        Row(at) == LET end == Min({at + OdRow, n})
                   IN  IF hex THEN [k \in 1 .. (end - at + 1) \div 2 |->
                                       LET i == at + 2 * (k - 1)
                                       IN  Num(Byte(i) + (IF i + 1 < end THEN 256 * Byte(i + 1) ELSE 0))]
                       ELSE [k \in 1 .. end - at |-> Num(Byte(at + k - 1))]
        rows == (n + OdRow - 1) \div OdRow
    IN  FlattenSeq([r \in 1 .. rows |-> <<Num((r - 1) * OdRow)>> \o Row((r - 1) * OdRow) \o Eol])
        \o <<Num(n)>> \o Eol
saramos_od(hex, files) == PerFile(LAMBDA f : od_file(f, hex), files)

\* xargs -n -f: the argument lists of the runs of shell_execute(). A word there
\* is no room for is dropped, and does not count.
Blank == {SP, TAB, NL, CR}
Worded(s, base) ==
    IF s.word # <<>> /\ Len(base) + Len(s.batch) < XargsMax
    THEN [s EXCEPT !.batch = Append(@, s.word), !.word = <<>>]
    ELSE [s EXCEPT !.word = <<>>]
saramos_xargs(max_per_run, command, file) ==
    LET base == SubSeq(command, 1, Min({Len(command), XargsMax - 1}))
        n    == IF max_per_run < 1 THEN 1 ELSE max_per_run
        Run(s) == [s EXCEPT !.runs = Append(@, base \o s.batch), !.batch = <<>>]
        Next(s, c) ==
            IF c \notin Blank
            THEN [s EXCEPT !.word = IF Len(@) < LineSize - 1 THEN Append(@, c) ELSE @]
            ELSE LET t == Worded(s, base) IN IF s.word # <<>> /\ Len(t.batch) >= n THEN Run(t) ELSE t
        end == Worded(FoldLeft(Next, [word |-> <<>>, batch |-> <<>>, runs |-> <<>>], file), base)
    IN  IF file = NoFile \/ command = <<>> THEN <<>>
        ELSE IF end.batch # <<>> THEN Run(end).runs ELSE end.runs
-----------------------------------------------------------------------------
\* seq: a last next to LONG_MAX is left out
saramos_seq(first, step, last) ==
    LET by == IF step = 0 THEN 1 ELSE step
        From[i \in Int] ==
            IF (by > 0 /\ i <= last) \/ (by < 0 /\ i >= last) THEN <<Num(i)>> \o Eol \o From[i + by] ELSE <<>>
    IN  From[first]

(***************************************************************************)
(* printf: an escape or a conversion is two characters of the format. A    *)
(* conversion takes an argument before it is known which one it is, and %% *)
(* gives one back even when there was none left to take, down to the       *)
(* format itself. With a lone % or backslash at its end the program reads  *)
(* past the format: such formats are left out.                             *)
(***************************************************************************)
Percent == 37   Backslash == 92
Escapes == [c \in {110, 116, 114, 92, 48, 97, 98} |->
               CASE c = 110 -> Eol [] c = 116 -> <<TAB>> [] c = 114 -> <<CR>>
                 [] c = 92 -> <<c>> [] c = 48 -> <<NUL>> [] c = 97 -> <<7>> [] c = 98 -> <<8>>]
Digit(c) == c \in 48 .. 57
str_to_long(s) ==
    LET neg    == s # <<>> /\ s[1] = Minus
        digits == IF s # <<>> /\ s[1] \in {Minus, 43} THEN Tail(s) ELSE s
        n == FoldLeft(LAMBDA r, c : IF r.end \/ ~Digit(c) THEN [r EXCEPT !.end = TRUE]
                                    ELSE [r EXCEPT !.v = 10 * @ + (c - 48)], [v |-> 0, end |-> FALSE], digits).v
    IN  IF neg THEN -n ELSE n
Converted(c, arg) ==
    CASE c = 115 -> arg                                            \* s
      [] c \in {100, 105, 117, 111, 120, 88} -> <<Num(str_to_long(arg))>> \* d i u o x X
      [] c = 99  -> IF arg = <<>> THEN <<NUL>> ELSE <<arg[1]>>     \* c
      [] c = Percent -> <<Percent>>
      [] OTHER -> <<Percent, c>>
saramos_printf(fmt, args) ==
    LET Take(s) == Min({s.argi + 1, Len(args) + 1})
        Arg(i)  == IF i > Len(args) THEN <<>> ELSE IF i = 0 THEN fmt ELSE args[i]
        Next(s, c) ==
            CASE s.after = Backslash ->
                    [s EXCEPT !.after = 0,
                              !.out = @ \o (IF c \in DOMAIN Escapes THEN Escapes[c] ELSE <<Backslash, c>>)]
              [] s.after = Percent ->
                    [after |-> 0,
                     argi  |-> IF c = Percent THEN Take(s) - 1 ELSE Take(s),
                     out   |-> s.out \o Converted(c, Arg(s.argi))]
              [] c \in {Backslash, Percent} /\ s.after = 0 -> [s EXCEPT !.after = c]
              [] OTHER -> [s EXCEPT !.out = Append(@, c)]
    IN  FoldLeft(Next, [after |-> 0, argi |-> 1, out |-> <<>>], fmt).out

\* basename and dirname
Slashes == {47, 92}
saramos_basename(path, suffix) ==
    LET cuts == {i \in DOMAIN path : path[i] \in Slashes}
        out  == SubSeq(path, (IF cuts = {} THEN 0 ELSE Max(cuts)) + 1, Len(path))
    IN  IF suffix # <<>> /\ Len(out) > Len(suffix) /\ IsSuffix(suffix, out)
        THEN SubSeq(out, 1, Len(out) - Len(suffix)) ELSE out
saramos_dirname(path) ==
    LET ends == {i \in DOMAIN path : i = 1 \/ path[i] \notin Slashes}
        len  == IF path = <<>> THEN 0 ELSE Max(ends)
        cuts == {i \in 1 .. len : path[i] \in Slashes}
    IN  IF cuts = {} THEN <<46>> ELSE SubSeq(path, 1, Max(cuts))

\* find's match_pattern(): what follows a star is tried at every character of
\* what is left of the name, and not at its end
Star == 42   AnyChar == 63
RECURSIVE match_pattern(_, _)
match_pattern(name, pat) ==
    IF pat = <<>> THEN name = <<>>
    ELSE IF pat[1] = Star
         THEN Len(pat) = 1 \/ \E i \in DOMAIN name : match_pattern(SubSeq(name, i, Len(name)), Tail(pat))
    ELSE name # <<>> /\ (pat[1] = AnyChar \/ pat[1] = name[1]) /\ match_pattern(Tail(name), Tail(pat))
find_match(name, pat) == pat = <<>> \/ match_pattern(name, pat)
=============================================================================
