------------------------------- MODULE Shell -------------------------------
(***************************************************************************)
(* A session of the enhanced shell (src/tools/shell): its variables, its   *)
(* builtins and control flow, the commands on files and the editor it      *)
(* starts. A line is given as its words, a word as a sequence of bytes of  *)
(* FatFs; pipelines are in SaramosPipeline. Typing, quoting and patterns   *)
(* byte by byte are in ShellText. A script that changes itself is left out.*)
(***************************************************************************)
EXTENDS Vi

CONSTANTS
    Variables,     \* bytes that are the name of a variable
    MaxEnv, EnvSize,   \* SHELL_MAX_ENV, SHELL_ENV_SIZE
    MaxTokens,     \* SHELL_MAX_TOKENS
    ReadOnly,      \* the commands that only print: wc, date, true, ...
    Lines,         \* the lines that are typed to the shell
    Typed, Keys,   \* the lines typed to the editor, its commands
    Edited,        \* the words vi is called with
    Budgets        \* bounds: how many commands and keys a run types

VARIABLES
    s,        \* the volume, the variables and the last outcome
    vi,       \* the editor
    line,     \* the last line
    left,     \* commands and keys left to type, the bounds
    block     \* history: the lines this insert mode put in the buffer

vars == <<s, vi, line, left, block>>

Word(w) == <<w>>
NoVar == [name |-> <<>>, value |-> <<>>]

(***************************************************************************)
(* shell_env.c: a table of slots "name=value"; an empty slot is free.      *)
(***************************************************************************)
find_slot(env, name) == {i \in DOMAIN env : env[i] # NoVar /\ env[i].name = name}
empty_slot(env) == {i \in DOMAIN env : env[i] = NoVar}
shell_env_get(env, name) ==
    IF find_slot(env, name) = {} THEN <<>> ELSE env[Min(find_slot(env, name))].value
shell_env_refuses(env, name, value) ==
    \/ name = <<>>
    \/ Len(name) + Len(value) + 2 > EnvSize
    \/ find_slot(env, name) = {} /\ empty_slot(env) = {}
shell_env_setNew(env, name, value) ==   \* always into a free slot
    IF shell_env_refuses(env, name, value) \/ empty_slot(env) = {} THEN env
    ELSE [env EXCEPT ![Min(empty_slot(env))] = [name |-> name, value |-> value]]
shell_env_set(env, name, value) ==
    IF shell_env_refuses(env, name, value) THEN env
    ELSE LET slot == IF find_slot(env, name) # {} THEN find_slot(env, name) ELSE empty_slot(env)
         IN  [env EXCEPT ![Min(slot)] = [name |-> name, value |-> value]]
shell_env_unset(env, name) == [i \in DOMAIN env |-> IF i \in find_slot(env, name) THEN NoVar ELSE env[i]]
shell_env_init ==
    LET Set(env, v) == shell_env_set(env, Word(v[1]), Word(v[2]))
    IN  FoldLeft(Set, [i \in 1 .. MaxEnv |-> NoVar],
                 <<<<"PATH", "/bin:/usr/bin">>, <<"HOME", "/">>, <<"TERM", "vt100">>>>)

(***************************************************************************)
(* Words: $name is replaced by its value; a word with a * is replaced by   *)
(* the names of the directory that match it, when there are any.           *)
(***************************************************************************)
shell_expand(env, w) ==
    FoldLeft(LAMBDA e, i : IF w[i] = "$" /\ i < Len(w) THEN e
                           ELSE IF i > 1 /\ w[i - 1] = "$" THEN e \o shell_env_get(env, Word(w[i]))
                           ELSE Append(e, w[i]), <<>>, [i \in DOMAIN w |-> i])
ExpandAll(env, words) == [i \in DOMAIN words |-> shell_expand(env, words[i])]
\* a name is one byte here: of the patterns, a star matches them all
Matches(name, w) == w = <<"*">>
shell_glob(t, w) == UNION {SetToSeqs({Word(n) : n \in {n \in names : Matches(n, w)}}) : names \in f_readdir(t, t.cwd)}
Globbed(t, w) ==
    IF Contains(w, "*") THEN {IF g = <<>> THEN <<w>> ELSE g : g \in shell_glob(t, w)} ELSE {<<w>>}
Expansions(t, words) ==
    {SubSeq(e, 1, Min({Len(e), MaxTokens})) :
        e \in FoldLeft(LAMBDA S, w : {e \o g : e \in S, g \in Globbed(t, w)}, {<<>>}, ExpandAll(t.env, words))}

\* the parts of a word before and after its first =
Equals(w) == {i \in DOMAIN w : w[i] = "="}
NamePart(w) == SubSeq(w, 1, Min(Equals(w)) - 1)
ValuePart(w) == SubSeq(w, Min(Equals(w)) + 1, Len(w))
is_assignment(w) == Equals(w) # {} /\ NamePart(w) # <<>> /\ ToSet(NamePart(w)) \subseteq Names \cup Variables

(***************************************************************************)
(* shell_builtins.c                                                        *)
(***************************************************************************)
shell_builtin_cd(t, argv) ==
    {Done(r.s, IF r.ok THEN 0 ELSE 1) : r \in f_chdir(t, IF Len(argv) > 1 THEN argv[2] ELSE <<Slash>>)}
shell_builtin_pwd(t, argv) == {Done(Says(t, t.cwd \o EndLine), 0)} \cup Fault(t, {Done(t, 1)})
shell_env_print(t) ==
    Says(t, FoldLeft(LAMBDA o, v : IF v = NoVar THEN o ELSE o \o v.name \o <<"=">> \o v.value \o EndLine, <<>>, t.env))
shell_builtin_export(t, argv) ==
    LET Set(name, value) == [t EXCEPT !.env = shell_env_set(@, name, value)]
    IN  IF Len(argv) < 2 THEN {Done(shell_env_print(t), 0)}
        ELSE IF Equals(argv[2]) = {} THEN {Done(Set(argv[2], shell_env_get(t.env, argv[2])), 0)}
        ELSE {Done(Set(NamePart(argv[2]), ValuePart(argv[2])),
                   IF shell_env_refuses(t.env, NamePart(argv[2]), ValuePart(argv[2])) THEN 1 ELSE 0)}
shell_builtin_unset(t, argv) ==
    IF Len(argv) < 2 THEN {Done(t, 1)} ELSE {Done([t EXCEPT !.env = shell_env_unset(@, argv[2])], 0)}
shell_builtin_exit(t, argv) == {Done([t EXCEPT !.exit = TRUE], 0)}
shell_builtin_echo(t, argv) ==
    LET newline == ~(Len(argv) > 1 /\ argv[2] = Word("-n"))
        words == SubSeq(argv, IF newline THEN 2 ELSE 3, Len(argv))
    IN  {Done(Says(t, Words(words, 1, <<" ">>) \o (IF newline THEN EndLine ELSE <<>>)), 0)}

\* one of the numbers 0 and 1, and 0 of any other word
parse_int(w) == IF w = Word("1") THEN 1 ELSE 0
\* the set of its outcomes: a search on the card may fail
test_op(t, a, op, b) ==
    CASE op = Word("=") -> {a = b}
      [] op = Word("!=") -> {a # b}
      [] op = Word("-eq") -> {parse_int(a) = parse_int(b)}
      [] op = Word("-ne") -> {parse_int(a) # parse_int(b)}
      [] op = Word("-lt") -> {parse_int(a) < parse_int(b)}
      [] op = Word("-le") -> {parse_int(a) <= parse_int(b)}
      [] op = Word("-gt") -> {parse_int(a) > parse_int(b)}
      [] op = Word("-ge") -> {parse_int(a) >= parse_int(b)}
      [] op = Word("-z") -> {a = <<>>}
      [] op = Word("-n") -> {a # <<>>}
      [] op = Word("-e") -> f_stat(t, a)
      [] op = Word("-d") -> {found /\ IsDir(t, Path(t, a)) : found \in f_stat(t, a)}
      [] op = Word("-f") -> {found /\ ~IsDir(t, Path(t, a)) : found \in f_stat(t, a)}
      [] OTHER -> {FALSE}
shell_builtin_test(t, argv) ==
    LET bracket == argv[1] = Word("[")
        words == IF bracket THEN Front(argv) ELSE argv
        Status(results) == {IF r THEN 0 ELSE 1 : r \in results}
    IN  IF bracket /\ (Len(argv) < 3 \/ argv[Len(argv)] # Word("]")) THEN {1}
        ELSE CASE Len(words) = 2 -> Status({words[2] # <<>>})
               [] Len(words) = 3 -> Status(test_op(t, words[2], words[3], <<>>))
               [] Len(words) = 4 -> Status(test_op(t, words[2], words[3], words[4]))
               [] OTHER -> {1}

(***************************************************************************)
(* shell_exec.c                                                            *)
(***************************************************************************)
dispatch_external(t, argv) ==
    CASE argv[1] = Word("cat")   -> saramos_cat(t, argv)
      [] argv[1] = Word("rm")    -> saramos_rm(t, argv)
      [] argv[1] = Word("mkdir") -> saramos_mkdir(t, argv)
      [] argv[1] = Word("tee")   -> saramos_tee(t, argv)
      [] argv[1] = Word("cp")    -> saramos_cp(t, argv)
      [] argv[1] = Word("mv")    -> saramos_mv(t, argv)
      [] argv[1] = Word("touch") -> saramos_touch(t, argv)
      [] argv[1] = Word("chmod") -> saramos_chmod(t, argv)
      [] argv[1] = Word("ls")    -> saramos_ls(t, argv)
      [] argv[1] = Word("which") -> saramos_which(t, argv)
      [] argv[1] = Word("find")  -> saramos_find(t, argv)
      [] argv[1] = Word("du")    -> saramos_du(t, argv)
      [] argv[1] \in ReadOnly    -> {Done(t, 0)}
      [] OTHER                   -> {Done(t, 1)}   \* command not found

\* the lines of a script that end; their words, the last with what stands before
\* the end of its line
Parts(data, sep) ==
    LET Next(ps, c) == IF c = sep THEN Append(ps, <<>>) ELSE [ps EXCEPT ![Len(ps)] = Append(@, c)]
    IN  FoldLeft(Next, <<<<>>>>, data)
Script(data) == [i \in DOMAIN Front(Parts(data, Lf)) |->
                    SelectSeq(Parts(Parts(data, Lf)[i], " "), LAMBDA w : w # <<>>)]
Indices(words, w) == {i \in DOMAIN words : words[i] = Word(w)}
LastOf(words, w) == Max(Indices(words, w) \cup {0})

RECURSIVE shell_execute(_, _)

\* shell_run_file(): every line of the file, whatever becomes of those before it
shell_run_file(t, w) ==
    IF ~IsFile(t, w) THEN {Done(t, 1)}
    ELSE Fault(t, {Done(t, 1)}) \cup
         UNION {{Done(u, 0) : u \in ForEach(t, Script(r.data), shell_execute)} : r \in f_read(t, w)}

execute_tokens(t, argv) ==
    CASE argv[1] = Word("cd")     -> shell_builtin_cd(t, argv)
      [] argv[1] = Word("pwd")    -> shell_builtin_pwd(t, argv)
      [] argv[1] = Word("export") -> shell_builtin_export(t, argv)
      [] argv[1] = Word("unset")  -> shell_builtin_unset(t, argv)
      [] argv[1] = Word("env")    -> {Done(shell_env_print(t), 0)}
      [] argv[1] = Word("exit")   -> shell_builtin_exit(t, argv)
      [] argv[1] \in {Word("test"), Word("[")} -> {Done(t, r) : r \in shell_builtin_test(t, argv)}
      [] argv[1] = Word("echo")   -> shell_builtin_echo(t, argv)
      [] argv[1] \in {Word("source"), Word(".")} ->
            IF Len(argv) < 2 THEN {Done(t, 1)} ELSE shell_run_file(t, argv[2])
      [] OTHER -> dispatch_external(t, argv)

\* the words between two places, expanded, are a line of their own
Body(t, words, from, to) ==
    IF from + 1 < to THEN shell_execute(t, ExpandAll(t.env, SubSeq(words, from + 1, to - 1))) ELSE {t}

handle_forOnce(t, words) ==   \* with the first value every time
    LET in   == LastOf(words, "in")
        do   == LastOf(words, "do")
        done == LastOf(words, "done")
        Turn(u, w) == Body([u EXCEPT !.env = shell_env_set(@, words[2], words[in + 1])], words, do, done)
    IN  IF in <= 2 \/ do <= in \/ done <= do THEN {Done(t, 1)}
        ELSE {Done(u, 0) : u \in ForEach(t, SubSeq(words, in + 1, do - 1), Turn)}
\* for x in words do body done; the words are taken as they stand
handle_for(t, words) ==
    LET in   == LastOf(words, "in")
        do   == LastOf(words, "do")
        done == LastOf(words, "done")
        Turn(u, w) == Body([u EXCEPT !.env = shell_env_set(@, words[2], w)], words, do, done)
    IN  IF in <= 2 \/ do <= in \/ done <= do THEN {Done(t, 1)}
        ELSE {Done(u, 0) : u \in ForEach(t, SubSeq(words, in + 1, do - 1), Turn)}
\* if test then body fi; the test has the words from the if on, as they stand
handle_if(t, words) ==
    LET then == LastOf(words, "then")
        fi   == LastOf(words, "fi")
    IN  IF then < 3 \/ fi < then THEN {Done(t, 1)}
        ELSE {Done(u, 0) : u \in UNION {IF r = 0 THEN Body(t, words, then, fi) ELSE {t} :
                                        r \in shell_builtin_test(t, SubSeq(words, 1, then - 1))}}

shell_execute(t, words) ==
    IF words = <<>> THEN {Done(t, 0)}
    ELSE IF words[1] = Word("for") THEN handle_for(t, words)
    ELSE IF words[1] = Word("if") THEN handle_if(t, words)
    ELSE IF is_assignment(words[1])
         THEN {Done([t EXCEPT !.env = shell_env_set(@, NamePart(words[1]), ValuePart(words[1]))], 0)}
    ELSE UNION {execute_tokens(t, e) : e \in Expansions(t, words)}

(***************************************************************************)
(* shell_interactive_process(): a line after the other until exit, and a   *)
(* new session with new variables; and saramos_vi(), which a line starts.  *)
(***************************************************************************)
NoVi == [mode |-> "none", lines |-> <<>>, cur |-> 0, pos |-> 0, path |-> <<>>, said |-> ""]

Init ==
    /\ s \in [files : {<<>>}, cwd : {Root}, faulty : BOOLEAN, env : {shell_env_init},
              out : {<<>>}, status : {0}, exit : {FALSE}, fds : {{}}, twice : {FALSE}]
    /\ vi = NoVi
    /\ line = <<>> /\ block = <<>>
    /\ left \in Budgets

Prompt == ~s.exit /\ ~s.twice /\ vi.mode = "none" /\ left.commands > 0

Type(words) ==
    /\ Prompt
    /\ s' \in shell_execute([s EXCEPT !.out = <<>>], words)
    /\ line' = words
    /\ left' = [left EXCEPT !.commands = @ - 1]
    /\ UNCHANGED <<vi, block>>

\* mountfs enters the shell again
Enter ==
    /\ s.exit
    /\ s' = [s EXCEPT !.exit = FALSE, !.env = shell_env_init]
    /\ line' = <<>>
    /\ UNCHANGED <<vi, left, block>>

StartVi(w) ==
    /\ Prompt
    /\ \E r \in vi_load(s, w) :
          /\ s' = r.s
          /\ vi' = [NoVi EXCEPT !.mode = "command", !.lines = r.lines, !.path = w]
    /\ line' = <<Word("vi"), w>>
    /\ left' = [left EXCEPT !.commands = @ - 1]
    /\ UNCHANGED block

\* what follows a line: the file is written, the editor left, or neither
Goes(v) ==
    IF v.mode \in {"save", "save quit"}
    THEN \E r \in vi_save(s, v.path, v.lines) :
            /\ s' = r.s
            /\ vi' = [v EXCEPT !.mode = IF v.mode = "save" THEN "command" ELSE "none", !.said = r.said]
    ELSE /\ vi' = [v EXCEPT !.mode = IF @ = "quit" THEN "none" ELSE @, !.said = ""]
         /\ UNCHANGED s

Key == left.keys > 0 /\ left' = [left EXCEPT !.keys = @ - 1] /\ UNCHANGED line

ViCommand(cmd) ==
    /\ vi.mode = "command" /\ Key
    /\ Goes(Commanded(vi, cmd))
    /\ block' = <<>>

Adds(text) == block' = IF Len(vi'.lines) > Len(vi.lines) THEN Append(block, text) ELSE block
ViEnter(text) ==
    /\ vi.mode = "insert" /\ Key
    /\ Goes(Entered(vi, text))
    /\ Adds(text)
ViEscape(text) ==
    /\ vi.mode = "insert" /\ Key
    /\ Goes(Escaped(vi, text))
    /\ Adds(text)

Next ==
    \/ \E words \in Lines : Type(words)
    \/ Enter
    \/ \E w \in Edited : StartVi(w)
    \/ \E cmd \in Keys : ViCommand(cmd)
    \/ \E text \in Typed : ViEnter(text) \/ ViEscape(text)

Spec == Init /\ [][Next]_vars
-----------------------------------------------------------------------------
(***************************************************************************)
(* Properties. A line is plain when no word of it is expanded.             *)
(***************************************************************************)
Typed1 == left'.commands < left.commands /\ vi' = vi   \* the step is a line of the shell
Plain == \A i \in DOMAIN line' : ToSet(line'[i]) \cap {"$", "*"} = {}
Is(name) == Plain /\ line' # <<>> /\ line'[1] = Word(name)
Arg(i) == line'[i]
Named == {Path(s, Arg(i)) : i \in {i \in 2 .. Len(line') : Valid(Arg(i))}}
Untouched(p) == p \in DOMAIN s'.files /\ s'.files[p] = s.files[p]

\* cp: a status of 0 says that the copy is a beginning of the file - a full volume
\* is not reported - and, where there is room, all of it, or nothing when it is
\* the close that failed
CpRight ==
    Is("cp") /\ s'.status = 0 /\ Path(s, Arg(2)) # Path(s, Arg(3)) =>
        LET was == IF IsFile(s, Arg(3)) THEN Len(Data(s, Arg(3))) ELSE 0
        IN  /\ IsPrefix(Data(s', Arg(3)), Data(s, Arg(2)))
            /\ Len(Data(s, Arg(2))) <= Room(s) + was =>
                  \/ Data(s', Arg(3)) = Data(s, Arg(2))
                  \/ s.faulty /\ Data(s', Arg(3)) = <<>>
            /\ Untouched(Path(s, Arg(2)))
\* mv: no error loses a file, nor one in a directory that is moved, unless it is
\* moved below itself; a status of 0 says that it has the new name and no longer
\* the old one, another that nothing was done, unless it is the card's
MvRight ==
    Is("mv") /\ Valid(Arg(2)) /\ Valid(Arg(3)) =>
        LET old == Path(s, Arg(2))
            new == Path(s, Arg(3))
            At(p, r) == LET q == p \o SubSeq(r, Len(old) + 1, Len(r))
                        IN  q \in DOMAIN s'.files /\ s'.files[q] = s.files[r]
            tree == {r \in DOMAIN s.files : IsPrefix(old, r)}
        IN  /\ new = old \/ ~IsPrefix(old, new) =>
                  \A r \in tree : (s'.status # 0 /\ At(old, r)) \/ At(new, r)
            /\ s'.status = 0 /\ new # old => \A r \in tree : r \notin DOMAIN s'.files
            /\ s'.status # 0 /\ ~s.faulty => s'.files = s.files
\* tee: a status of 0 says that the words are in the file
TeeRight == Is("tee") /\ s'.status = 0 =>
                Data(s', Arg(2)) = Words(line', 3, <<" ">>) \o EndLine
\* touch: a status of 0 says that the files are there, and on a card that works
\* one that was there keeps what it holds
TouchRight == Is("touch") =>
    /\ ~s.faulty => \A p \in DOMAIN s.files : Untouched(p)
    /\ s'.status = 0 => \A i \in 2 .. Len(line') : Exists(s', Arg(i))
\* What touch ought to do, and does not: it makes a file of every name it cannot
\* find, and empties a file that is there when its search fails (touch.c 23, 33).
\* No run checks it: a failing card violates it.
TouchKeeps == [][Typed1 /\ Is("touch") => \A p \in DOMAIN s.files : Untouched(p)]_vars

\* A command changes no file that it does not name, nor the directory of; what cp,
\* mv, tee and touch promise of those they name holds, errors and a full volume
\* included.
\* (cp.c 39-60, mv.c 23, tee.c 29-63, touch.c 21-42, rm.c 17-24, chmod.c 48-54)
FilesStep ==
    Typed1 =>
        /\ Plain /\ line'[1] \notin {Word("for"), Word("if"), Word("source"), Word(".")} =>
              \A p \in DOMAIN s.files : Untouched(p) \/ (\E n \in Named : IsPrefix(n, p))
        /\ CpRight /\ MvRight /\ TeeRight /\ TouchRight
FilesRight == [][FilesStep]_vars

\* the line "for x in <values> do <body> done" with this body
Values(body) == LET n == Len(line') IN SubSeq(line', 4, n - Len(body) - 2)
IsFor(body) ==
    LET n == Len(line')
    IN  /\ n > 5 + Len(body)
        /\ SubSeq(line', 1, 3) = <<Word("for"), Word("x"), Word("in")>>
        /\ SubSeq(line', n - Len(body) - 1, n) = <<Word("do")>> \o body \o <<Word("done")>>
Echo == <<Word("echo"), <<"$", "x">>>>
Tee  == <<Word("tee"), <<"$", "x">>, Word("v")>>
Kept(w, value) == w \in Names \cup Variables => shell_env_get(s'.env, Word(w)) = value
Settable(name, value) == ~shell_env_refuses(s.env, name, value)
Can(w) == Valid(w) /\ Path(s, w) # Root /\ IsDir(s, Front(Path(s, w))) /\ ~IsDir(s, Path(s, w))
          /\ (IsFile(s, w) => ~s.files[Path(s, w)].rdo)

\* A for loop runs its body once for each value, with the value in it, in order,
\* and leaves the last one in the variable; the echo commands of a script print
\* line by line what they would print if typed (shell_exec.c 171-185, 363-374).
LoopsStep ==
    /\ Typed1 /\ IsFor(Echo) /\ Settable(Word("x"), Word("v")) =>
          /\ s'.out = FoldLeft(LAMBDA o, v : o \o v \o EndLine, <<>>, Values(Echo))
          /\ shell_env_get(s'.env, Word("x")) = Values(Echo)[Len(Values(Echo))]
    /\ Typed1 /\ IsFor(Tee) /\ Settable(Word("x"), Word("v")) /\ ~s.faulty
       /\ Room(s) >= 3 * Len(Values(Tee)) =>
          \A i \in DOMAIN Values(Tee) :
              Can(Values(Tee)[i]) => Data(s', Values(Tee)[i]) = Word("v") \o EndLine
    /\ Typed1 /\ Is("source") /\ ~s.faulty /\ IsFile(s, Arg(2)) =>
          LET script == Script(Data(s, Arg(2)))
              echos == SelectSeq(script, LAMBDA l : l # <<>> /\ l[1] = Word("echo"))
          IN  (\A i \in DOMAIN script : \A j \in DOMAIN script[i] : "$" \notin ToSet(script[i][j])) =>
              SelectSeq(s'.out, LAMBDA c : c # Cr) =
                 FoldLeft(LAMBDA o, l : o \o SelectSeq(Words(l, 2, <<" ">>), LAMBDA c : c # Cr) \o <<Lf>>, <<>>, echos)
LoopsRight == [][LoopsStep]_vars

\* The table holds a variable once; a variable that could be set has its value,
\* one that is unset has none, and the others keep theirs (shell_env.c 13-79).
EnvStep ==
    LET set == IF line' # <<>> /\ is_assignment(Arg(1)) THEN Arg(1)
               ELSE IF Is("export") /\ Len(line') = 2 /\ Equals(Arg(2)) # {} THEN Arg(2) ELSE <<>>
        name == IF set # <<>> THEN NamePart(set) ELSE IF Is("unset") THEN Arg(2) ELSE <<>>
        Value(env, v) == shell_env_get(env, v)
    IN  /\ \A i, j \in DOMAIN s'.env : s'.env[i] # NoVar /\ s'.env[i].name = s'.env[j].name => i = j
        /\ Typed1 /\ name # <<>> =>
              /\ \A v \in {Word(n) : n \in Variables} \ {name} : Value(s'.env, v) = Value(s.env, v)
              /\ set # <<>> /\ Settable(name, ValuePart(set)) => Value(s'.env, name) = ValuePart(set)
              /\ set = <<>> => Value(s'.env, name) = <<>>
EnvRight == [][EnvStep]_vars

\* The editor: the cursor is on a line of the buffer; the lines an insert mode
\* took stand together in the order they were typed and end at the cursor; a file
\* it says it has written is read back as the buffer; a session that only writes
\* keeps a file it could load; and no descriptor stays in use, after an error
\* neither (saramos_vi.c 27-111, 137-189, saramos_fs.c 19-63, 98-106).
EditorStep ==
    /\ vi'.mode # "none" => vi'.cur < Max({Len(vi'.lines), 1})
    /\ vi'.mode = "insert" /\ block' # <<>> =>
          SubSeq(vi'.lines, vi'.cur + 2 - Len(block'), vi'.cur + 1) = block'
    /\ vi'.said = "written" /\ left'.keys < left.keys =>
          /\ {r.lines : r \in vi_load([s' EXCEPT !.faulty = FALSE], vi'.path)} = {vi'.lines}
          /\ \A p \in DOMAIN s.files \ {Path(s, vi.path)} : Untouched(p)
    /\ s'.fds = {}
EditorRight == [][EditorStep]_vars

\* README.md:441: "if test -f readme.txt; then echo exists; fi" prints what it
\* says when the file is there.
ReadmeStep ==
    Typed1 /\ line' = <<Word("if"), Word("test"), Word("-f"), Word("a"), Word("then"), Word("echo"), Word("v"), Word("fi")>>
    /\ ~s.faulty /\ IsFile(s, Word("a")) => s'.out = Word("v") \o EndLine
ReadmeTest == [][ReadmeStep]_vars
=============================================================================
