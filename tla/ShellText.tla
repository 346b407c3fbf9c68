----------------------------- MODULE ShellText -----------------------------
(***************************************************************************)
(* What the two shells do to the characters that were typed: the line      *)
(* editor, the words of a line, the expansion of variables and the         *)
(* wildcards (src/os/default/shell.c, src/tools/shell/shell_parse.c,       *)
(* shell_run.c). A line is the sequence of its bytes.                      *)
(***************************************************************************)
EXTENDS TextTools

CONSTANTS
    EditSize,    \* the size of the line buffer
    Vars         \* the environment: from names, as bytes, to values

Bell == 8   Delete == 127
Enter == {NL, CR}

(***************************************************************************)
(* shell_read_line() and the loops like it: printable bytes are kept while *)
(* there is room for them and a NUL, backspace takes the last one back,    *)
(* the rest is ignored, and Enter ends the line.                           *)
(***************************************************************************)
Edited(typed) ==
    FoldLeft(LAMBDA line, c :
                 IF c \in {Bell, Delete} THEN SubSeq(line, 1, Len(line) - 1)
                 ELSE IF isprint(c) /\ Len(line) + 1 < EditSize THEN Append(line, c)
                 ELSE line, <<>>, typed)

\* shell_parse() of shell.c: the runs of non-blanks, at most max_argc of them
Blanks == {SP, TAB}
shell_parse(line, max_argc) ==
    LET Next(s, c) ==
            IF c \in Blanks THEN [s EXCEPT !.in_word = FALSE]
            ELSE IF s.in_word THEN [s EXCEPT !.argv[Len(s.argv)] = Append(@, c)]
            ELSE IF Len(s.argv) = max_argc THEN s
            ELSE [in_word |-> TRUE, argv |-> Append(s.argv, <<c>>)]
    IN  FoldLeft(Next, [in_word |-> FALSE, argv |-> <<>>], line).argv

(***************************************************************************)
(* shell_tokenize(): as above, but ; and newline end a word too, and a     *)
(* quote at the start of a word takes everything up to its match.          *)
(***************************************************************************)
Quotes == {34, 39}
Separators == Blanks \cup {59, NL}
NoToken == -1
shell_tokenizeAnywhere(line, max_tokens) ==
    shell_parse(SelectSeq(line, LAMBDA c : c \notin Quotes), max_tokens)
shell_tokenize(line, max_tokens) ==
    LET Next(s, c) ==
            CASE s.quote = NoToken /\ Len(s.tokens) = max_tokens -> s
              [] s.quote = NoToken /\ c \in Separators -> s
              [] s.quote = NoToken -> 
                    IF c \in Quotes THEN [quote |-> c, tokens |-> Append(s.tokens, <<>>)]
                    ELSE [quote |-> 0, tokens |-> Append(s.tokens, <<c>>)]
              [] s.quote = c \/ (s.quote = 0 /\ c \in Separators) -> [s EXCEPT !.quote = NoToken]
              [] OTHER -> [s EXCEPT !.tokens[Len(s.tokens)] = Append(@, c)]
    IN  FoldLeft(Next, [quote |-> NoToken, tokens |-> <<>>], line).tokens

(***************************************************************************)
(* shell_expand(), into a buffer of the given size: a $ with the name that *)
(* follows it, in braces or not, is replaced by the value of the variable, *)
(* or by nothing; a ${ that is never closed stays. After a $ at the end of *)
(* the line it reads past it: such lines are left out.                     *)
(***************************************************************************)
Dollar == 36   Open == 123   Close == 125   Underscore == 95
isalpha(c) == c \in 65 .. 90 \cup 97 .. 122
isalnum(c) == isalpha(c) \/ Digit(c)

\* the bytes of src from p on that belong to the name find_var_end() finds there
find_var_end(src, p) ==
    IF isalpha(src[p]) \/ src[p] = Underscore
    THEN CHOOSE e \in p .. Len(src) :
            /\ \A i \in p .. e : isalnum(src[i]) \/ src[i] = Underscore
            /\ e = Len(src) \/ ~(isalnum(src[e + 1]) \/ src[e + 1] = Underscore)
    ELSE p
copy_var(name) == IF name \in DOMAIN Vars THEN Vars[name] ELSE <<>>
CutTo(s, size) == SubSeq(s, 1, Min({Len(s), size - 1}))

RECURSIVE Expanded(_)
Expanded(src) ==
    IF src = <<>> THEN <<>>
    ELSE IF src[1] # Dollar \/ Len(src) = 1 THEN <<src[1]>> \o Expanded(Tail(src))
    ELSE IF src[2] # Open
         THEN LET e == find_var_end(src, 2)
              IN  copy_var(SubSeq(src, 2, e)) \o Expanded(SubSeq(src, e + 1, Len(src)))
    ELSE LET ends == {i \in DOMAIN src : src[i] = Close}
         IN  IF ends = {} THEN <<Dollar>> \o Expanded(Tail(src))
             ELSE copy_var(SubSeq(src, 3, Min(ends) - 1)) \o Expanded(SubSeq(src, Min(ends) + 1, Len(src)))
shell_expand(src, size) == CutTo(Expanded(src), size)

(***************************************************************************)
(* glob_match(): the wildcards of find's pattern, and classes. It reads    *)
(* past a class that is not closed, and past the name at a class that      *)
(* accepts its end: such patterns are left out.                            *)
(***************************************************************************)
Class == 91   EndClass == 93   Not == 33
match_char_class(c, class) ==
    LET neg  == class # <<>> /\ class[1] = Not
        body == IF neg THEN Tail(class) ELSE class
        \* each step of the loop takes a range, of three bytes, or a byte
        steps == FoldLeft(LAMBDA s, i : IF i < s.next THEN s
                                        ELSE IF i + 2 <= Len(body) /\ body[i + 1] = Minus
                                        THEN [next |-> i + 3, in |-> s.in \/ c \in body[i] .. body[i + 2]]
                                        ELSE [next |-> i + 1, in |-> s.in \/ c = body[i]],
                          [next |-> 1, in |-> FALSE], [i \in DOMAIN body |-> i])
    IN  steps.in # neg
RECURSIVE glob_match(_, _)
glob_match(name, pat) ==
    IF pat = <<>> THEN name = <<>>
    ELSE IF pat[1] = Star
         THEN Len(pat) = 1 \/ \E i \in DOMAIN name : glob_match(SubSeq(name, i, Len(name)), Tail(pat))
    ELSE IF pat[1] = Class
         THEN LET end == Min({i \in DOMAIN pat : pat[i] = EndClass})
              IN  /\ name # <<>>
                  /\ match_char_class(name[1], SubSeq(pat, 2, end - 1))
                  /\ glob_match(Tail(name), SubSeq(pat, end + 1, Len(pat)))
    ELSE name # <<>> /\ (pat[1] = AnyChar \/ pat[1] = name[1]) /\ glob_match(Tail(name), Tail(pat))
=============================================================================
