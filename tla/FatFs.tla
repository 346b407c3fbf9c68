------------------------------- MODULE FatFs -------------------------------
(***************************************************************************)
(* FatFs (src/third_party/fatfs/source/ff.c) as the tools of src/tools     *)
(* call it: a volume with files and directories, a current directory, room *)
(* for a number of bytes, and a card whose transfers may fail. An f_open   *)
(* with FA_CREATE_ALWAYS empties a file at once, an f_write to a full      *)
(* volume comes back short and without an error, an f_close that fails may *)
(* leave the size in the directory as it was. FF_FS_LOCK is 0 (ffconf.h):  *)
(* nothing stops two handles of a file.                                    *)
(*                                                                         *)
(* A "byte" is any value: a word of the shell is a sequence of them. Every *)
(* operation takes a state s with the fields files, cwd, faulty and twice  *)
(* and gives the set of its outcomes. s.twice: two entries have the same   *)
(* clusters, of which the model says no more (Shell types nothing then).   *)
(* Clusters that no entry has any longer count as free, and a directory    *)
(* never needs a second one.                                               *)
(***************************************************************************)
EXTENDS Naturals, FiniteSets, FiniteSetsExt, SequencesExt

CONSTANTS
    Names,    \* bytes that are the name of a file
    Space     \* the bytes that fit the volume

ASSUME SpaceAssumption == Space \in Nat

DirSize == 1   \* bound: the bytes of the cluster a directory takes
Slash == "/"
Root  == <<>>

\* outcomes only a card that fails its transfers has
Fault(s, outcomes) == IF s.faulty THEN outcomes ELSE {}

\* names between slashes: anything else is FR_INVALID_NAME
Valid(w) == /\ w # <<>>
            /\ ToSet(w) \subseteq Names \cup {Slash}
            /\ \A i \in 1 .. Len(w) - 1 : w[i] = Slash \/ w[i + 1] = Slash
Path(s, w) == (IF w[1] = Slash THEN Root ELSE s.cwd) \o SelectSeq(w, LAMBDA n : n # Slash)

IsDir(s, p) == p = Root \/ (p \in DOMAIN s.files /\ s.files[p].dir)
Exists(s, w) == Valid(w) /\ Path(s, w) \in DOMAIN s.files
IsFile(s, w) == Exists(s, w) /\ ~IsDir(s, Path(s, w))
Data(s, w) == s.files[Path(s, w)].data
Room(s) == Space - MapThenSumSet(LAMBDA p : IF IsDir(s, p) THEN DirSize ELSE Len(s.files[p].data), DOMAIN s.files)
Inside(s, d) == {p \in DOMAIN s.files : p # d /\ IsPrefix(d, p)}

File(data) == [dir |-> FALSE, rdo |-> FALSE, data |-> data]
Give(s, p, entry) == [s EXCEPT !.files = (p :> entry) @@ @]
Without(s, p) == [s EXCEPT !.files = [q \in DOMAIN @ \ {p} |-> @[q]]]

f_stat(s, w) == {Exists(s, w)} \cup Fault(s, {FALSE})

\* what a loop of f_read gets: all of the file, or less before an error
f_read(s, w) ==
    {[data |-> Data(s, w), ok |-> TRUE]}
    \cup Fault(s, {[data |-> SubSeq(Data(s, w), 1, n), ok |-> FALSE] : n \in 0 .. Len(Data(s, w))})

\* f_open() with FA_CREATE_ALWAYS
f_open(s, w) ==
    LET p   == Path(s, w)
        new == Give(s, p, File(<<>>))
    IN  IF /\ Valid(w) /\ p # Root /\ IsDir(s, Front(p)) /\ ~IsDir(s, p)
           /\ p \in DOMAIN s.files => ~s.files[p].rdo
        THEN {[s |-> new, ok |-> TRUE]} \cup Fault(s, {[s |-> t, ok |-> FALSE] : t \in {s, new}})
        ELSE {[s |-> s, ok |-> FALSE]}

\* the writes to a file just created, and its f_close: n bytes were taken,
\* error is that of a write, closed that of the close
f_write(s, w, data) ==
    LET room == Min({Len(data), Room(s)})
        Kept(n) == [s EXCEPT !.files[Path(s, w)].data = SubSeq(data, 1, n)]
        Ends(n, error) ==
            {[s |-> Kept(n), n |-> n, error |-> error, closed |-> TRUE]}
            \cup Fault(s, {[s |-> t, n |-> n, error |-> error, closed |-> FALSE] : t \in {s, Kept(n)}})
    IN  Ends(room, FALSE) \cup Fault(s, UNION {Ends(n, TRUE) : n \in 0 .. room})

(***************************************************************************)
(* f_rename(): the new entry is made, then the old one removed, then the   *)
(* volume synced. One that fails leaves the old name, both, or the new one *)
(* alone. An object renamed to itself stays as it is. Nothing refuses a    *)
(* directory a name inside itself: it is out of the tree then, with what   *)
(* is in it (and the current directory, of which nothing is found).        *)
(***************************************************************************)
f_rename(s, v, w) ==
    LET p == Path(s, v)
        q == Path(s, w)
        \* what is in a directory goes with it
        At(r) == IF IsPrefix(p, r) THEN q \o SubSeq(r, Len(p) + 1, Len(r)) ELSE r
        Old(r) == CHOOSE t \in DOMAIN s.files : At(t) = r
        named == [r \in {At(t) : t \in DOMAIN s.files} |-> s.files[Old(r)]]
        moved == IF IsPrefix(p, q)
                 THEN [s EXCEPT !.files = [r \in {r \in DOMAIN @ : ~IsPrefix(p, r)} |-> @[r]]]
                 ELSE [s EXCEPT !.files = named, !.cwd = At(@)]
        both  == [s EXCEPT !.files = named @@ @, !.twice = TRUE]
    IN  IF ~(Exists(s, v) /\ Valid(w) /\ q # Root /\ IsDir(s, Front(q)) /\ (q \in DOMAIN s.files => q = p))
        THEN {[s |-> s, ok |-> FALSE]}
        ELSE IF p = q THEN {[s |-> s, ok |-> TRUE]} \cup Fault(s, {[s |-> s, ok |-> FALSE]})
        ELSE {[s |-> moved, ok |-> TRUE]} \cup Fault(s, {[s |-> t, ok |-> FALSE] : t \in {s, both, moved}})

f_unlink(s, w) ==
    LET p == Path(s, w)
    IN  IF Exists(s, w) /\ ~s.files[p].rdo /\ (IsDir(s, p) => Inside(s, p) = {} /\ p # s.cwd)
        THEN {Without(s, p)} \cup Fault(s, {s})
        ELSE {s}

\* refused when no cluster is free for it
f_mkdir(s, w) ==
    LET p == Path(s, w)
    IN  IF Valid(w) /\ p # Root /\ p \notin DOMAIN s.files /\ IsDir(s, Front(p)) /\ Room(s) >= DirSize
        THEN {Give(s, p, [File(<<>>) EXCEPT !.dir = TRUE])} \cup Fault(s, {s})
        ELSE {s}

f_chmod(s, w, rdo) ==
    IF Exists(s, w) THEN {[s EXCEPT !.files[Path(s, w)].rdo = rdo]} \cup Fault(s, {s}) ELSE {s}

f_chdir(s, w) ==
    IF Valid(w) /\ IsDir(s, Path(s, w))
    THEN {[s |-> [s EXCEPT !.cwd = Path(s, w)], ok |-> TRUE]} \cup Fault(s, {[s |-> s, ok |-> FALSE]})
    ELSE {[s |-> s, ok |-> FALSE]}

\* the names f_readdir gives of a directory, in some order; less after an error
f_readdir(s, d) ==
    LET names == {p[Len(p)] : p \in {p \in Inside(s, d) : Len(p) = Len(d) + 1}}
    IN  {names} \cup Fault(s, SUBSET names)
=============================================================================
