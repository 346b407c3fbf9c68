----------------------------- MODULE MCConsole ------------------------------
EXTENDS Console
Line(op, int, name) == [op |-> op, int |-> int, name |-> name, label |-> "-"]
Label(text, name) == [op |-> text, int |-> {}, name |-> "", label |-> name]
MCLines ==
    {Label("label", "a"), Label("labela", "a"), Line("input", {}, ""), Line("cmp", {1}, ""),
     Line("jlt", {}, "a"), Line("jge", {}, "a"), Line("dec", {}, ""), Line("store", {0}, ""), Line("load", {0}, "")}
MCBuiltins ==
    <<[name |-> "arith", lines |-> <<Line("set", {12}, ""), Line("add", {8}, ""), Line("mul", {3}, ""),
                                     Line("sub", {10}, ""), Line("div", {5}, ""), Line("print", {}, "")>>],
      [name |-> "modulo", lines |-> <<Line("set", {29}, ""), Line("mod", {5}, ""), Line("print", {}, "")>>]>>
MCApp == <<"sudoku", "lost">>
=============================================================================
