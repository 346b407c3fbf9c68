----------------------------- MODULE Calculator -----------------------------
(***************************************************************************)
(* The programmable calculator of the command line (os/default/main.c,     *)
(* builtin_programs.c): the stored programs, their line editor and         *)
(* the interpreter.  A step is one line typed or one line executed.        *)
(*                                                                         *)
(* A program line is [op, int, name, label]: its first word, the number    *)
(* parse_int32() finds in the rest (a set of none or one), the rest as a   *)
(* name, and the name program_find_label() sees in it: that of a line that *)
(* begins with "label", were it in the middle of a word.                   *)
(***************************************************************************)
EXTENDS Integers, Sequences

CONSTANTS
    Names,         \* the names programs are given; all valid
    Lines,         \* the lines that may be typed in the editor
    Numbers,       \* the numbers that may be typed to a program's "input"
    Width,         \* bits of an int
    MemSize,       \* PROGRAM_MEM_SIZE
    MaxPrograms,   \* PROGRAM_MAX_COUNT
    MaxLines,      \* PROGRAM_MAX_LINES
    Builtins,      \* the programs there are after the boot
    MaxTyped       \* bound of the model: lines typed in the editor

ASSUME CalculatorAssumption ==
    /\ Width \in Nat \ {0} /\ MemSize \in Nat /\ MaxTyped \in Nat
    /\ MaxPrograms \in Nat \ {0} /\ MaxLines \in Nat \ {0}
    /\ Len(Builtins) <= MaxPrograms

BuiltinLines ==
    UNION {{Builtins[i].lines[j] : j \in DOMAIN Builtins[i].lines} : i \in DOMAIN Builtins}
\* a name names one program, and what stands for a number in a line is one
ASSUME ProgramsAssumption ==
    /\ Builtins \in Seq([name : {Builtins[i].name : i \in DOMAIN Builtins}, lines : Seq(BuiltinLines)])
    /\ \A i, j \in DOMAIN Builtins : Builtins[i].name = Builtins[j].name => i = j
    /\ \A line \in Lines \cup BuiltinLines : line.int \subseteq Int
    /\ Numbers \subseteq Int

VARIABLES
    programs,   \* the used slots, in their order: [name, lines]
    mode,       \* "prompt", or the call the command line is in
    edited,     \* the slot that is edited or run
    st,         \* the run: [acc, flag, mem, pc, ok]
    typed,      \* lines typed in the editor so far
    compared,   \* of the run, for the properties: its last cmp, <<>> before one,
    stored      \* and what was last stored at each address

calculatorVars == <<programs, mode, edited, st, typed, compared, stored>>

(***************************************************************************)
(* int arithmetic as the build does it: it wraps, and division truncates.  *)
(***************************************************************************)
Wrap(x) == ((x + 2^(Width - 1)) % 2^Width) - 2^(Width - 1)
Abs(x) == IF x < 0 THEN -x ELSE x
Sign(x) == IF x < 0 THEN -1 ELSE IF x > 0 THEN 1 ELSE 0
Quotient(a, b) == Sign(a) * Sign(b) * (Abs(a) \div Abs(b))
Remainder(a, b) == a - b * Quotient(a, b)

Addresses == 0 .. MemSize - 1
Fresh == [acc |-> 0, flag |-> 0, mem |-> [a \in Addresses |-> 0], pc |-> 0, ok |-> TRUE]

(***************************************************************************)
(* The store: a slot, once used, keeps its name.                           *)
(***************************************************************************)
program_find(name) == {i \in DOMAIN programs : programs[i].name = name}
program_get_or_allocLast(name) ==   \* that takes the last slot of a full store
    IF program_find(name) # {} THEN programs
    ELSE IF Len(programs) < MaxPrograms THEN Append(programs, [name |-> name, lines |-> <<>>])
    ELSE [programs EXCEPT ![MaxPrograms] = [name |-> name, lines |-> <<>>]]
program_get_or_alloc(name) ==
    IF program_find(name) # {} THEN programs
    ELSE IF Len(programs) < MaxPrograms THEN Append(programs, [name |-> name, lines |-> <<>>])
    ELSE programs

\* the first line that defines the name, or none
program_find_label(lines, name) ==
    LET at == {i \in DOMAIN lines : lines[i].label = name}
    IN  {i \in at : \A j \in at : i <= j}

(***************************************************************************)
(* program_exec_line(): the state after a line, or the run's error.  pc    *)
(* counts from 0, as the code's does; "input" is ReadInput below.          *)
(***************************************************************************)
Error(s) == [s EXCEPT !.ok = FALSE]
Then(s) == [s EXCEPT !.pc = @ + 1]
Number(line) == Wrap(CHOOSE n \in line.int : TRUE)
Jump == [goto |-> {-1, 0, 1}, jeq |-> {0}, jne |-> {-1, 1}, jlt |-> {-1},
         jle |-> {-1, 0}, jgt |-> {1}, jge |-> {0, 1}]     \* the flags that take it
Jumped(lines, line, s) ==
    LET target == program_find_label(lines, line.name)
    IN  IF target = {} THEN Error(s)
        ELSE IF s.flag \in Jump[line.op] THEN [s EXCEPT !.pc = (CHOOSE i \in target : TRUE) - 1]
        ELSE Then(s)
Plain == {"", "label", "prints"}
Unary(op, acc) == CASE op = "inc" -> acc + 1 [] op = "dec" -> acc - 1 [] op = "neg" -> -acc
Binary(op, acc, n) ==
    CASE op = "set" -> n [] op = "add" -> acc + n [] op = "sub" -> acc - n [] op = "mul" -> acc * n
      [] op = "div" -> Quotient(acc, n) [] op = "mod" -> Remainder(acc, n)
Numeric(line, s, n) ==
    CASE line.op \in {"div", "mod"} /\ n = 0 -> Error(s)
      [] line.op \in {"set", "add", "sub", "mul"} \/ (line.op \in {"div", "mod"} /\ n # 0) ->
            Then([s EXCEPT !.acc = Wrap(Binary(line.op, s.acc, n))])
      [] line.op = "cmp" -> Then([s EXCEPT !.flag = Sign(s.acc - n)])
      [] line.op \in {"store", "load"} /\ n \notin Addresses -> Error(s)
      [] line.op = "store" /\ n \in Addresses -> Then([s EXCEPT !.mem[n] = s.acc])
      [] line.op = "load" /\ n \in Addresses -> Then([s EXCEPT !.acc = s.mem[n]])
      [] OTHER -> Error(s)
program_exec_line(lines, s) ==
    LET line == lines[s.pc + 1]
    IN  CASE line.op \in Plain -> Then(s)
          [] line.op = "print" -> IF line.name = "" THEN Then(s) ELSE Error(s)
          [] line.op = "putc" -> IF line.int = {} THEN Error(s) ELSE Then(s)
          [] line.op \in {"inc", "dec", "neg"} -> Then([s EXCEPT !.acc = Wrap(Unary(line.op, s.acc))])
          [] line.op \in {"end", "halt"} -> [s EXCEPT !.pc = Len(lines)]
          [] line.op \in DOMAIN Jump -> Jumped(lines, line, s)
          [] OTHER -> IF line.int = {} THEN Error(s)
                      ELSE Numeric(line, s, Number(line))

(***************************************************************************)
(* The editor: it empties the program it edits at once, and ends at "end"  *)
(* or when the program is full.                                            *)
(***************************************************************************)
program_edit(name) ==
    LET got == program_get_or_alloc(name)
        slot == {i \in DOMAIN got : got[i].name = name}
    IN  /\ mode = "prompt"
        /\ IF slot = {} THEN UNCHANGED <<programs, mode, edited>>
           ELSE /\ edited' = (CHOOSE i \in slot : TRUE)
                /\ programs' = [got EXCEPT ![edited'].lines = <<>>]
                /\ mode' = "edit"
        /\ UNCHANGED <<st, typed, compared, stored>>
EditLine(line) ==
    /\ mode = "edit" /\ typed < MaxTyped /\ typed' = typed + 1
    /\ programs' = [programs EXCEPT ![edited].lines = Append(@, line)]
    /\ mode' = IF Len(programs'[edited].lines) < MaxLines THEN "edit" ELSE "prompt"
    /\ UNCHANGED <<edited, st, compared, stored>>
EditEnd ==
    /\ mode = "edit" /\ mode' = "prompt"
    /\ UNCHANGED <<programs, edited, st, typed, compared, stored>>

(***************************************************************************)
(* The run: each begins with a state of its own.                           *)
(***************************************************************************)
program_runKeeps(name) ==   \* that goes on with the memory of the run before
    /\ mode = "prompt"
    /\ IF program_find(name) = {} THEN UNCHANGED <<mode, edited, st, compared, stored>>
       ELSE /\ mode' = "run" /\ edited' = (CHOOSE i \in program_find(name) : TRUE)
            /\ st' = [Fresh EXCEPT !.mem = st.mem]
            /\ compared' = <<>> /\ stored' = [a \in Addresses |-> 0]
    /\ UNCHANGED <<programs, typed>>
program_run(name) ==
    /\ mode = "prompt"
    /\ IF program_find(name) = {} THEN UNCHANGED <<mode, edited, st, compared, stored>>
       ELSE /\ mode' = "run" /\ edited' = (CHOOSE i \in program_find(name) : TRUE)
            /\ st' = Fresh
            /\ compared' = <<>> /\ stored' = [a \in Addresses |-> 0]
    /\ UNCHANGED <<programs, typed>>

Code == programs[edited].lines
Running == mode = "run" /\ st.pc < Len(Code)
Op == Code[st.pc + 1].op
After(s) == st' = s /\ mode' = IF s.ok /\ s.pc < Len(Code) THEN "run" ELSE "prompt"
ExecLine ==
    /\ Running /\ Op # "input"
    /\ After(program_exec_line(Code, st))
    /\ LET n == Number(Code[st.pc + 1])
       IN  /\ compared' = IF Op = "cmp" /\ st'.ok THEN <<st.acc, n>> ELSE compared
           /\ stored' = IF Op = "store" /\ st'.ok THEN [stored EXCEPT ![n] = st.acc] ELSE stored
    /\ UNCHANGED <<programs, edited, typed>>
\* a number typed, or something that is none
ReadInput ==
    /\ Running /\ Op = "input"
    /\ \/ /\ Code[st.pc + 1].name = ""
          /\ \E n \in Numbers : After(Then([st EXCEPT !.acc = Wrap(n)]))
       \/ After(Error(st))
    /\ UNCHANGED <<programs, edited, typed, compared, stored>>
\* an empty program
RunNothing ==
    /\ mode = "run" /\ ~Running /\ mode' = "prompt"
    /\ UNCHANGED <<programs, edited, st, typed, compared, stored>>

\* program_init_builtins(), unless the build leaves them out
CalculatorInit ==
    /\ programs = Builtins /\ mode = "prompt" /\ edited = 1 /\ st = Fresh
    /\ typed = 0 /\ compared = <<>> /\ stored = [a \in Addresses |-> 0]
CalculatorStep ==
    \/ \E line \in Lines : EditLine(line)
    \/ EditEnd \/ ExecLine \/ ReadInput \/ RunNothing

(***************************************************************************)
(* Properties.                                                             *)
(***************************************************************************)

Relation(op, a, b) ==
    CASE op = "goto" -> TRUE [] op = "jeq" -> a = b [] op = "jne" -> a # b [] op = "jlt" -> a < b
      [] op = "jle" -> a <= b [] op = "jgt" -> a > b [] op = "jge" -> a >= b

\* A run does what its program says, from the numbers it compared and stored itself: a
\* jump is taken just when its relation held of the last cmp (of 0 and 0 before one), to
\* the first line of that name; a load gives what this run last stored there, or 0.
RunsRight ==
    [][Running /\ mode' \in {"run", "prompt"} /\ st'.ok =>
         /\ Op \in DOMAIN Jump =>
               LET c == IF compared = <<>> THEN <<0, 0>> ELSE compared
                   to == st'.pc + 1
               IN  IF Relation(Op, c[1], c[2])
                   THEN /\ to \in DOMAIN Code /\ Code[to].label = Code[st.pc + 1].name
                        /\ \A i \in 1 .. to - 1 : Code[i].label # Code[st.pc + 1].name
                   ELSE st'.pc = st.pc + 1
         /\ Op = "load" => \E n \in Code[st.pc + 1].int :
                               Wrap(n) \in Addresses /\ st'.acc = stored[Wrap(n)]]_st

\* A stored program is changed by the editor that was called with its name and by nothing
\* else, however runs, edits of other programs and a full store come in between; a name
\* names one program.
ProgramsKept ==
    [][/\ \A i \in DOMAIN programs :
            /\ i \in DOMAIN programs' /\ programs'[i].name = programs[i].name
            /\ programs'[i] # programs[i] => edited' = i /\ "edit" \in {mode, mode'}
       /\ \A i, j \in DOMAIN programs' : programs'[i].name = programs'[j].name => i = j]_programs
=============================================================================
