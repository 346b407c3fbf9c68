------------------------------- MODULE Texts -------------------------------
(***************************************************************************)
(* A text grows byte by byte: a file the programs of TextTools read, a     *)
(* format or a path they are given, a line that is typed to the shell. At  *)
(* every length each program is compared with what it promises, said of    *)
(* the lines, words and fields of the text and not of the bytes it reads.  *)
(***************************************************************************)
EXTENDS ShellText

CONSTANTS
    Alphabet,    \* the bytes of a text of each kind
    MaxLen       \* bound: their length

Kinds == {"file", "format", "path", "line"}

ASSUME TextAssumption == \A k \in Kinds : Alphabet[k] \subseteq 1 .. 127 /\ MaxLen[k] \in Nat

VARIABLES
    text,
    kind

TextInit == text = <<>> /\ kind \in Kinds

Write(c) ==
    /\ Len(text) < MaxLen[kind]
    /\ text' = Append(text, c)
    /\ UNCHANGED kind

TextNext == \E c \in Alphabet[kind] : Write(c)
-----------------------------------------------------------------------------
(***************************************************************************)
(* Lines, said declaratively.                                              *)
(***************************************************************************)
Begins(f)  == {i \in DOMAIN f : i = 1 \/ f[i - 1] = NL}
EndOf(f, i) == Min({j \in i .. Len(f) : f[j] = NL} \cup {Len(f) + 1}) - 1
Lines(f)   == LET S == SetToSortSeq(Begins(f), <) IN [k \in DOMAIN S |-> SubSeq(f, S[k], EndOf(f, S[k]))]
Ended(f)   == f = <<>> \/ f[Len(f)] = NL
Short(f)   == \A k \in DOMAIN Lines(f) : Len(Lines(f)[k]) <= LineSize - 2
Fits(f)    == Short(f) /\ Len(Lines(f)) <= MaxLines
Trimmed(f) == LET ls == Lines(f)   \* what the tables of lines keep of a text
              IN  [k \in 1 .. Min({Len(ls), MaxLines}) |-> CutTo(ls[k], LineSize - 1)]
NoCr(out)  == SelectSeq(out, LAMBDA c : c # CR)
Splits(s)  == {<<SubSeq(s, 1, i), SubSeq(s, i + 1, Len(s))>> : i \in 0 .. Len(s)}
Small      == 0 .. 3

\* head -n and tail -n of a text cut it in two at a line, whatever n; head takes
\* n of its lines, and a text without a last newline loses nothing (head.c 21-42,
\* tail.c 39-64).
HeadTail ==
    \A n \in Small :
        LET head  == saramos_head(n, <<text>>)
            lines == Count(text, NL)
        IN  /\ IsPrefix(head, text)
            /\ Len(Lines(head)) = Min({n, Len(Lines(text))})
            /\ IsSuffix(saramos_tail(n, <<text>>), text)
            /\ n <= lines => head \o saramos_tail(lines - n, <<text>>) = text

\* tac prints the lines of a text that fits from the last to the first, and a
\* second tac restores it; what does not fit is not printed twice (tac.c 17-63).
TacReverses ==
    LET tac == saramos_tac(<<text>>)
    IN  /\ Ended(text) /\ Len(text) < TacBytes /\ Len(Lines(text)) <= MaxLines =>
              /\ Lines(tac) = Reverse(Lines(text))
              /\ saramos_tac(<<tac>>) = text
        /\ Len(SelectSeq(tac, LAMBDA c : c \notin {NUL, CR, NL}))
              <= Len(SelectSeq(text, LAMBDA c : c # NL))

\* rev turns round every line that fits and ends, and a second rev restores it;
\* nl numbers the lines it prints 1, 2, ... and, with -b t, only those that are
\* not empty; fold without -s cuts a line in pieces that are all full but the last
\* one, and puts nothing else between them; with -s it loses nothing, but see
\* FoldAtSpaces (rev.c 12-39, nl.c 13-60, fold.c 26-78).
Within(f, out) == Len(f) = FoldLeft(LAMBDA n, c : IF n < Len(f) /\ c = f[n + 1] THEN n + 1 ELSE n, 0, out)
LinesKept ==
    /\ Ended(text) /\ Short(text) =>
          LET rev == saramos_rev(<<text>>)
          IN  /\ Lines(NoCr(rev)) = [k \in DOMAIN Lines(text) |-> Reverse(Lines(text)[k])]
              /\ NoCr(saramos_rev(<<NoCr(rev)>>)) = text
    /\ Short(text) => \A body_only \in BOOLEAN :
          LET lines   == Lines(text)
              Number(k) == Cardinality({j \in 1 .. k : ~body_only \/ lines[j] # <<>>})
          IN  Lines(NoCr(saramos_nl(body_only, <<text>>))) =
                 [k \in DOMAIN lines |->
                     (IF body_only /\ lines[k] = <<>> THEN <<>> ELSE <<Num(Number(k))>>) \o <<TAB>> \o lines[k]]
    /\ \A w \in Small \ {0} :
          LET fold == Lines(NoCr(saramos_fold(w, FALSE, <<text>>)))
          IN  /\ \A k \in DOMAIN fold : Len(fold[k]) <= w
              /\ SelectSeq(NoCr(saramos_fold(w, FALSE, <<text>>)), LAMBDA c : c # NL)
                    = SelectSeq(text, LAMBDA c : c # NL)
              /\ Len(fold) = FoldLeft(LAMBDA n, l : n + Max({1, (Len(l) + w - 1) \div w}), 0, Lines(text))
              /\ Within(text, NoCr(saramos_fold(w, TRUE, <<text>>)))

\* What fold -s ought to do, and does not: it breaks lines at a space, and prints
\* every byte once. It prints a byte as soon as it is read, and at the break again
\* (fold.c 45-46, 58-59, 73). No run checks it: the first line that is too long
\* violates it.
FoldAtSpaces ==
    kind = "file" => \A w \in Small \ {0} :
        SelectSeq(NoCr(saramos_fold(w, TRUE, <<text>>)), LAMBDA c : c # NL) = SelectSeq(text, LAMBDA c : c # NL)

\* The programs that print lines in their order give each back once: head and
\* tail, tac, rev, nl and fold.
LinesInOrder == kind = "file" => HeadTail /\ TacReverses /\ LinesKept

\* sort prints the lines its table keeps, each as often as it came, in order;
\* uniq after it prints each once, and its counts add up to them all
\* (sort.c 14-56, uniq.c 44-82).
SortUniq ==
    LET kept   == Trimmed(text)
        sorted == sort_lines(read_lines(text, MaxLines))
        runs   == Runs(sorted)
    IN  /\ read_lines(text, MaxLines) = kept
        /\ \A l \in ToSet(kept) : Cardinality({k \in DOMAIN sorted : sorted[k] = l})
                                    = Cardinality({k \in DOMAIN kept : kept[k] = l})
        /\ Len(sorted) = Len(kept)
        /\ \A k \in 1 .. Len(sorted) - 1 : SortedPair(sorted[k], sorted[k + 1])
        /\ saramos_sort(<<text>>) = PutLines(sorted)
        /\ Cardinality(ToSet(kept)) = Len(runs)
        /\ FoldLeft(LAMBDA n, r : n + r.run, 0, runs) = Len(kept)
        /\ saramos_uniq(FALSE, NoCr(saramos_sort(<<text>>))) = PutLines([k \in DOMAIN runs |-> runs[k].line])

\* diff says 0 of two texts that fit exactly when their lines are the same but
\* for empty ones at the end, and prints every line that differs on both sides
\* (diff.c 44-79).
DiffTells ==
    \A s \in Splits(text) :
        Fits(s[1]) /\ Fits(s[2]) =>
            LET a == Lines(s[1])
                b == Lines(s[2])
                shorter == Min({Len(a), Len(b)})
                rest == SubSeq(a, shorter + 1, Len(a)) \o SubSeq(b, shorter + 1, Len(b))
            IN  /\ saramos_diff(s[1], s[2]).status = 0
                      <=> /\ SubSeq(a, 1, shorter) = SubSeq(b, 1, shorter)
                          /\ \A k \in DOMAIN rest : rest[k] = <<>>
                /\ (saramos_diff(s[1], s[2]).out = <<>>) = (saramos_diff(s[1], s[2]).status = 0)

\* grep prints, in order, the lines of a text that fits that hold the pattern;
\* without regard to case it finds what it finds in lower case (grep.c 12-84).
GrepFinds ==
    Short(text) =>
        \A pat \in {<<>>, <<97>>, <<65>>, <<97, 98>>, <<SP, 97>>} :
            LET Holds(l, p) == \E i \in 1 .. Len(l) + 1 : IsPrefix(p, SubSeq(l, i, Len(l)))
                lines == Lines(text)
            IN  /\ saramos_grep(FALSE, FALSE, pat, <<text>>)
                      = PutLines(SelectSeq(lines, LAMBDA l : Holds(l, pat)))
                /\ ToLower(saramos_grep(TRUE, FALSE, pat, <<text>>))
                      = saramos_grep(FALSE, FALSE, ToLower(pat), <<ToLower(text)>>)

\* The programs that choose among the lines of a text: sort, uniq, diff and grep.
LinesChosen == kind = "file" => SortUniq /\ DiffTells /\ GrepFinds

\* The programs that work line by line, over their fixed line buffers: nothing is
\* lost, doubled or moved that the rules above do not lose, double or move.
LinesRight == LinesInOrder /\ LinesChosen
-----------------------------------------------------------------------------
(***************************************************************************)
(* Fields and words.                                                       *)
(***************************************************************************)
Words(f) ==
    LET S == SetToSortSeq({i \in DOMAIN f : f[i] \notin Blank /\ (i = 1 \/ f[i - 1] \in Blank)}, <)
    IN  [k \in DOMAIN S |-> SubSeq(f, S[k], Min({j \in S[k] .. Len(f) : f[j] \in Blank} \cup {Len(f) + 1}) - 1)]

\* cut gives back what paste put side by side: the lines of each of the files,
\* and empty fields for those of the shorter one (paste.c 53-89, cut.c 22-62).
CutPaste ==
    \A s \in Splits(text) :
        LET pasted == NoCr(saramos_paste(TAB, s))
            rows   == Max({Len(Lines(s[1])), Len(Lines(s[2]))})
            LineAt(f, k) == IF k <= Len(Lines(f)) THEN Lines(f)[k] ELSE <<>>
        IN  (Short(s[1]) /\ Short(s[2]) /\ Short(pasted)) =>
              \A i \in 1 .. 2 :
                 saramos_cut(TAB, i, pasted) = PutLines([k \in 1 .. rows |-> LineAt(s[i], k)])

\* xargs hands every word of the file to the command once, in order, n at a time,
\* as long as n of them fit behind the command; wc counts the same words
\* (xargs.c 79-122, wc.c 24-42).
XargsWords ==
    LET command == <<<<97>>, <<98>>>>
        words   == Words(text)
        clipped == [k \in DOMAIN words |-> CutTo(words[k], LineSize)]
    IN  /\ count_file(text).words = Len(words)
        /\ \A n \in 1 .. XargsMax - Len(command) :
              LET runs == saramos_xargs(n, command, text)
                  Given(r) == SubSeq(r, Len(command) + 1, Len(r))
              IN  /\ FlattenSeq([k \in DOMAIN runs |-> Given(runs[k])]) = clipped
                  /\ \A k \in DOMAIN runs :
                        IsPrefix(command, runs[k]) /\ (Len(Given(runs[k])) = n \/ k = Len(runs))

\* wc's numbers of two files add up to its totals, and with a single option to
\* that one; strings finds the runs of printable bytes that are long enough; tr
\* puts for a byte the one at its place in the second set, and keeps a byte that
\* has none there; tr -d drops the bytes of its set, with what is between the ends
\* of a range and its dash; od prints every byte, alone or in words (wc.c 59-106,
\* strings.c 19-56, tr.c 15-72, od.c 42-86).
TrSets == {<<97>>, <<98, 97>>, <<65, 98, 97>>, <<97, 97, 32>>}
BytesKept ==
    /\ \A s \in Splits(text) :
          /\ saramos_wc(<<>>, s) = saramos_wc(<<>>, <<s[1]>>) \o saramos_wc(<<>>, <<s[2]>>)
                \o <<Num(Count(text, NL)), Num(Len(Words(s[1])) + Len(Words(s[2]))), Num(Len(text))>> \o Eol
          /\ saramos_wc(<<"lines">>, s) = SubSeq(saramos_wc(<<>>, s), 1, 10) \o <<Num(Count(text, NL))>> \o Eol
    /\ \A n \in Small :
          Short(text) =>
              Lines(NoCr(saramos_strings(n, <<text>>))) = SelectSeq(Lines(text), LAMBDA l : Len(l) >= Max({n, 1}))
    /\ \A set \in TrSets \cup {<<97, Minus, 98>>, <<Minus, 98>>, <<97, Minus>>} :
          LET dropped == ToSet(set) \cup (IF Len(set) = 3 /\ set[2] = Minus THEN set[1] .. set[3] ELSE {})
              dashed  == Append(text, Minus)
          IN  saramos_tr(TRUE, set, <<>>, dashed) = SelectSeq(dashed, LAMBDA c : c \notin dropped)
    /\ \A from, to \in TrSets :
          LET At(c) == {i \in DOMAIN from : from[i] = c /\ i <= Len(to)}
          IN  saramos_tr(FALSE, from, to, text)
                 = [i \in DOMAIN text |-> IF At(text[i]) = {} THEN text[i] ELSE to[Min(At(text[i]))]]
    /\ LET od == saramos_od(FALSE, <<text>>)
           Printed == SelectSeq(od, LAMBDA c : c \notin {CR, NL} \cup {Num(k * OdRow) : k \in 0 .. Len(text)})
       IN  /\ OdRow > Len(text) => SubSeq(od, 2, Len(text) + 1) = [i \in DOMAIN text |-> Num(text[i])]
           /\ Printed = SelectSeq([i \in DOMAIN text |-> Num(text[i])] \o <<Num(Len(text))>>,
                                  LAMBDA c : c \notin {Num(k * OdRow) : k \in 0 .. Len(text)})
           /\ Len(saramos_od(TRUE, <<text>>)) - 3 =
                 FoldLeft(LAMBDA n, r : n + 3 + (Min({OdRow, Len(text) - r * OdRow}) + 1) \div 2, 0,
                          [r \in 1 .. (Len(text) + OdRow - 1) \div OdRow |-> r - 1])

\* "Supports simple sets like tr 'a-z' 'A-Z'" (tr.c:4): a byte of a range becomes
\* the one at its place in the other range. The code counts the place in the text
\* of the second set, where the dash is one of its bytes (tr.c 40): no run checks
\* it, and a b violates it.
TrRanges ==
    kind = "file" => saramos_tr(FALSE, <<97, Minus, 98>>, <<65, Minus, 66>>, text)
                        = [i \in DOMAIN text |-> IF text[i] \in 97 .. 98 THEN text[i] - 32 ELSE text[i]]

\* seq counts from its first number to its last, up or down, in steps that do not
\* pass it (seq.c 44-56).
SeqCounts ==
    \A first \in Small, by \in {-2, -1, 1, 2} :
        LET last    == Len(text)
            towards == IF by > 0 THEN first .. last ELSE last .. first
            counted == {i \in towards : (i - first) % Max({by, -by}) = 0}
            order   == SetToSortSeq(counted, LAMBDA i, j : by * i < by * j)
        IN  Lines(NoCr(saramos_seq(first, by, last))) = [k \in DOMAIN order |-> <<Num(order[k])>>]

\* The programs that take the lines of a text apart: cut, paste, xargs, wc,
\* strings, tr and od; and seq.
FieldsAndWords == kind = "file" => CutPaste /\ XargsWords /\ BytesKept /\ SeqCounts
-----------------------------------------------------------------------------
(***************************************************************************)
(* Formats, paths, patterns and lines.                                     *)
(***************************************************************************)
\* printf with an argument for every conversion that wants one prints them in
\* order, and a %% or an escape takes none (printf.c 39-102).
PrintfRight ==
    LET args    == <<<<97>>, <<50>>>>
        heads   == {i \in DOMAIN text : text[i] \in {Percent, Backslash}
                        /\ Cardinality({j \in 1 .. i - 1 : \A k \in j .. i - 1 : text[k] \in {Percent, Backslash}}) % 2 = 0}
        starts  == {i \in 1 .. Len(text) : i - 1 \notin heads}
        wants   == {i \in heads : text[i] = Percent /\ i < Len(text) /\ text[i + 1] # Percent}
        Arg(i)  == args[Cardinality({j \in wants : j <= i})]
        Part(i) == IF i \notin heads THEN <<text[i]>>
                   ELSE IF text[i] = Backslash
                        THEN IF text[i + 1] \in DOMAIN Escapes THEN Escapes[text[i + 1]] ELSE SubSeq(text, i, i + 1)
                   ELSE Converted(text[i + 1], IF i \in wants THEN Arg(i) ELSE <<>>)
        order   == SetToSortSeq(starts, <)
    IN  Len(text) \notin heads /\ Cardinality(wants) = 2 =>
            saramos_printf(text, args) = FlattenSeq([k \in DOMAIN order |-> Part(order[k])])

\* A path that does not end in a slash is its dirname followed by its basename,
\* and a suffix is taken off a name that is more than the suffix (basename.c
\* 17-35, dirname.c 17-36).
PathParts ==
    (text # <<>> /\ text[Len(text)] \notin Slashes) =>
        LET dir  == saramos_dirname(text)
            base == saramos_basename(text, <<>>)
        IN  /\ (IF dir = <<46>> THEN <<>> ELSE dir) \o base = text
            /\ ToSet(base) \cap Slashes = {}
            /\ \A n \in 1 .. Len(base) :
                  saramos_basename(text, SubSeq(base, n, Len(base))) = IF n = 1 THEN base ELSE SubSeq(base, 1, n - 1)

\* The two matchers agree where there is no class, and a pattern without two
\* adjacent stars fits a name exactly when its parts can be laid out along it, in
\* order and without a gap (find.c 13-42, shell_parse.c 38-70).
LaidOut(name, pat) ==
    \E ends \in [0 .. Len(pat) -> 0 .. Len(name)] :
        /\ ends[0] = 0 /\ ends[Len(pat)] = Len(name)
        /\ \A i \in DOMAIN pat :
              \/ pat[i] = Star /\ ends[i - 1] <= ends[i]
              \/ ends[i] = ends[i - 1] + 1 /\ (pat[i] = AnyChar \/ pat[i] = name[ends[i]])
WildcardsFit ==
    \A name \in {<<97>>, <<98>>, <<97, 98>>, <<98, 97, 97>>} :
        /\ match_pattern(name, text) = glob_match(name, text)
        /\ (\A i \in 2 .. Len(text) : text[i] # Star \/ text[i - 1] # Star) =>
              (match_pattern(name, text) <=> LaidOut(name, text))
        /\ glob_match(name, <<Class>> \o <<97, Minus, 98>> \o <<EndClass>> \o text)
              = glob_match(name, <<AnyChar>> \o text)
        /\ glob_match(name, <<Class, Not, 97, EndClass>> \o text)
              = (name[1] # 97 /\ glob_match(name, <<AnyChar>> \o text))

\* The programs that print something about their arguments, and the wildcards.
ArgumentsRight == /\ kind = "format" => PrintfRight
                  /\ kind = "path" => PathParts /\ WildcardsFit

\* Every program that takes its lines or its arguments apart, and puts them together.
WordsRight == FieldsAndWords /\ ArgumentsRight

\* The words of a line without quotes are its runs of bytes that separate nothing,
\* as many as there is room for; what stands in quotes comes back as one word;
\* and the words of a line are those of its halves when a ; parts them
\* (shell_parse.c 157-204).
WordsOf(f) ==
    LET S == SetToSortSeq({i \in DOMAIN f : f[i] \notin Separators /\ (i = 1 \/ f[i - 1] \in Separators)}, <)
    IN  [k \in DOMAIN S |-> SubSeq(f, S[k], Min({j \in S[k] .. Len(f) : f[j] \in Separators} \cup {Len(f) + 1}) - 1)]
TokensRight ==
    LET plain == ToSet(text) \cap Quotes = {}
    IN  /\ \A max \in Small : plain => shell_tokenize(text, max) = SubSeq(WordsOf(text), 1, Min({max, Len(WordsOf(text))}))
        /\ \A q \in Quotes : q \notin ToSet(text) =>
              shell_tokenize(<<97, SP, q>> \o text \o <<q, 98>>, 9) = <<<<97>>, text, <<98>>>>
        /\ \A s \in Splits(text) : ToSet(s[1]) \cap Quotes = {} =>
              shell_tokenize(s[1] \o <<59>> \o s[2], 9) = shell_tokenize(s[1], 9) \o shell_tokenize(s[2], 9)

\* An expansion that does not fit is cut short, never past its buffer; values are
\* not expanded again, and a ${name} is replaced wherever it stands
\* (shell_parse.c 130-155).
ExpandRight ==
    LET whole == shell_expand(text, 99)
    IN  /\ \A size \in 1 .. 5 : shell_expand(text, size) = CutTo(whole, size)
        /\ \A s \in Splits(text) : Dollar \notin ToSet(s[1]) =>
              \A v \in DOMAIN Vars :
                 shell_expand(s[1] \o <<Dollar, Open>> \o v \o <<Close>> \o s[2], 99)
                    = s[1] \o Vars[v] \o shell_expand(s[2], 99)

\* The editor's line is as long as its buffer at most, holds what the words are
\* made of, and a character followed by a backspace leaves no trace while there
\* is room for it (shell.c 21-66, shell_run.c 34-51).
EditRight ==
    LET line == Edited(text)
    IN  /\ Len(line) < EditSize /\ \A i \in DOMAIN line : isprint(line[i])
        /\ Len(line) + 1 < EditSize => Edited(text \o <<97, Bell>>) = line
        /\ Edited(text \o <<SP, NL>>) = IF Len(line) + 1 < EditSize THEN Append(line, SP) ELSE line
        /\ FlattenSeq(shell_parse(line, 9)) = SelectSeq(line, LAMBDA c : c \notin Blanks)
        /\ \A max \in Small : shell_parse(line, max) = SubSeq(shell_parse(line, 9), 1, Min({max, Len(shell_parse(line, 9))}))

\* What the shells make of the characters that were typed.
ShellLineRight == kind = "line" => TokensRight /\ ExpandRight /\ EditRight
=============================================================================
