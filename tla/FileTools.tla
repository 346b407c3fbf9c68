----------------------------- MODULE FileTools -----------------------------
(***************************************************************************)
(* The commands that work on files (src/tools/fsutils, src/tools/coreutils)*)
(* as functions from a state and their arguments to the set of outcomes. A *)
(* state has the fields of FatFs, out - what was printed on success - and  *)
(* status. argv[1] is the name of the command, as in the operators' names. *)
(***************************************************************************)
EXTENDS FatFs

Done(s, r) == [s EXCEPT !.status = r]
Says(s, words) == [s EXCEPT !.out = @ \o words]
Words(argv, first, sep) ==   \* arguments from the first on, with sep between them
    FoldLeft(LAMBDA text, i : text \o (IF i = first THEN <<>> ELSE sep) \o argv[i],
             <<>>, [i \in 1 .. Len(argv) + 1 - first |-> i + first - 1])
Args(argv, first) == SubSeq(argv, first, Len(argv))

\* a command that goes on with its arguments whatever becomes of each of them
ForEach(s, words, Op(_, _)) ==
    FoldLeft(LAMBDA S, w : UNION {Op(t, w) : t \in S}, {s}, words)

saramos_cat(s, argv) ==
    IF Len(argv) < 2 THEN {Done(s, 1)}
    ELSE ForEach(Done(s, 0), Args(argv, 2),
                 LAMBDA t, w : IF IsFile(t, w) THEN {Says(t, r.data) : r \in f_read(t, w)}
                                                    \cup Fault(t, {t})
                               ELSE {t})

saramos_rm(s, argv) ==
    IF Len(argv) < 2 THEN {Done(s, 1)} ELSE ForEach(Done(s, 0), Args(argv, 2), f_unlink)

saramos_mkdir(s, argv) ==
    IF Len(argv) < 2 THEN {Done(s, 1)} ELSE ForEach(Done(s, 0), Args(argv, 2), f_mkdir)

\* the words are printed as they are written; nothing is undone after an error
EndLine == <<"\r", "\n">>
saramos_tee(s, argv) ==
    LET text == Words(SubSeq(argv, 3, Len(argv)), 1, <<" ">>) \o EndLine
    IN  IF Len(argv) < 3 THEN {Done(s, 1)}
        ELSE UNION {IF ~o.ok THEN {Done(o.s, 1)}
                    ELSE {IF w.error \/ w.n < Len(text) \/ ~w.closed THEN Done(w.s, 1)
                          ELSE Done(Says(w.s, text), 0) : w \in f_write(o.s, argv[2], text)}
                    : o \in f_open(s, argv[2])}

(***************************************************************************)
(* cp: a read or write error is a failure, a full volume and an error of   *)
(* the close are not. A file copied onto itself is emptied and then read   *)
(* from clusters that are no longer its own: what comes of it is open.     *)
(***************************************************************************)
saramos_cp(s, argv) ==
    LET src == argv[Len(argv) - 1]
        dst == argv[Len(argv)]
        Reads == IF Path(s, src) # Path(s, dst) THEN f_read(s, src)
                 ELSE {[data |-> SubSeq(Data(s, src), 1, n), ok |-> n = Len(Data(s, src))]
                          : n \in 0 .. Len(Data(s, src))}
        Copies(t, r) == {Done(w.s, IF w.error \/ ~r.ok THEN 1 ELSE 0) : w \in f_write(t, dst, r.data)}
    IN  IF Len(argv) < 3 THEN {Done(s, 1)}
        ELSE IF ~IsFile(s, src) THEN {Done(s, 1)}
        ELSE Fault(s, {Done(s, 1)}) \cup
             UNION {IF ~o.ok THEN {Done(o.s, 1)} ELSE UNION {Copies(o.s, r) : r \in Reads}
                    : o \in f_open(s, dst)}

saramos_mv(s, argv) ==
    IF Len(argv) < 3 THEN {Done(s, 1)}
    ELSE {Done(r.s, IF r.ok THEN 0 ELSE 1) : r \in f_rename(s, argv[Len(argv) - 1], argv[Len(argv)])}

\* touch makes a file of every name that cannot be found, which empties the
\* file when it was the search that failed; the first it cannot make ends it
saramos_touchBlind(s, argv) ==
    IF Len(argv) < 2 THEN {Done(s, 1)}
    ELSE {Done(o.s, IF o.ok THEN 0 ELSE 1) : o \in f_open(s, argv[2])}
saramos_touch(s, argv) ==
    LET Touch(t, w) ==
            IF t.status # 0 THEN {t}
            ELSE UNION {IF found THEN {t}
                        ELSE {Done(o.s, IF o.ok THEN 0 ELSE 1) : o \in f_open(t, w)}
                        : found \in f_stat(t, w)}
    IN  IF Len(argv) < 2 THEN {Done(s, 1)} ELSE ForEach(Done(s, 0), Args(argv, 2), Touch)

\* +r makes a file read-only, -r undoes it; h, s and a change nothing here
Modes == {<<m>> : m \in {"+r", "-r", "+h", "-h", "+s", "-s", "+a", "-a"}}
saramos_chmod(s, argv) ==
    IF Len(argv) < 3 \/ argv[2] \notin Modes THEN {Done(s, 1)}
    ELSE ForEach(Done(s, 0), Args(argv, 3),
                 LAMBDA t, w : IF argv[2] \in {<<"+r">>, <<"-r">>}
                               THEN f_chmod(t, w, argv[2] = <<"+r">>) ELSE {t})

\* The names ls prints, the ones find prints of a whole tree, and the sectors
\* du counts: at least one for each entry.
IsOption(w) == w # <<>> /\ w[1] \in {"-l", "-a", "-name"}
Listed(s, d) == {Says(s, SetToSeq(names)) : names \in f_readdir(s, d)}
ls_simple(s, w) == IF Valid(w) /\ IsDir(s, Path(s, w)) THEN Listed(s, Path(s, w)) ELSE {s}
saramos_ls(s, argv) ==
    LET paths == SelectSeq(Args(argv, 2), LAMBDA w : ~IsOption(w))
    IN  IF paths = <<>> THEN Listed(Done(s, 0), s.cwd) ELSE ls_simple(Done(s, 0), paths[Len(paths)])

\* find -name takes the last of its paths, and no pattern accepts every name
find_recursive(s, d, pattern) ==
    {p \in Inside(s, d) : pattern = <<>> \/ pattern = <<"*">> \/ pattern = <<p[Len(p)]>>}
saramos_find(s, argv) ==
    LET opts == {i \in 2 .. Len(argv) - 1 : argv[i] = <<"-name">>}
        pattern == IF opts = {} THEN <<>> ELSE argv[Max(opts) + 1]
        paths == {i \in 2 .. Len(argv) : ~IsOption(argv[i]) /\ i - 1 \notin opts}
        base == IF paths = {} THEN <<Slash>> ELSE argv[Max(paths)]
    IN  IF ~(Valid(base) /\ IsDir(s, Path(s, base))) THEN {Done(s, 0)}
        ELSE {Says(Done(s, 0), FlattenSeq([i \in DOMAIN found |-> <<Slash>> \o found[i]])) :
                 found \in {SetToSeq(F) : F \in {find_recursive(s, Path(s, base), pattern)}
                               \cup Fault(s, SUBSET find_recursive(s, Path(s, base), pattern))}}

Sector == 2   \* bound: the bytes of a sector
du_recursive(s, d) ==
    MapThenSumSet(LAMBDA p : Max({1, (Len(s.files[p].data) + Sector - 1) \div Sector}) * Sector, Inside(s, d))
saramos_du(s, argv) ==
    LET full == IF Len(argv) < 2 THEN du_recursive(s, s.cwd)
                ELSE IF Valid(argv[2]) /\ IsDir(s, Path(s, argv[2])) THEN du_recursive(s, Path(s, argv[2]))
                ELSE 0
    IN  {Says(Done(s, 0), <<ToString(n)>>) : n \in {full} \cup Fault(s, 0 .. full)}

PathDirs == <<<<"bin">>, <<"usr", "bin">>>>
saramos_which(s, argv) ==
    LET Found(w) == {d \in ToSet(PathDirs) : d \o w \in DOMAIN s.files /\ ~s.files[d \o w].dir}
    IN  {Done(s, IF Len(argv) > 1 /\ \E i \in 2 .. Len(argv) : Found(argv[i]) # {} THEN 0 ELSE 1)}
=============================================================================
