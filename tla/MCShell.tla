------------------------------ MODULE MCShell ------------------------------
(* A volume of a few bytes, names a and b and a directory d, a variable x  *)
(* and one slot of the table for it.                                       *)
EXTENDS Shell

W(w) == <<w>>
MCNames == {"a", "b", "d"}
MCVariables == {"x", "y"}
MCReadOnly == {W("true")}
X == <<"$", "x">>
For(values, body) == <<W("for"), W("x"), W("in")>> \o values \o <<W("do")>> \o body \o <<W("done")>>
MCLines == {
    <<W("tee"), W("a"), W("v"), W("b"), <<"v", "v">>>>,
    <<W("tee"), W("b"), W("echo"), W("v")>>,
    <<W("tee"), X, W("v")>>,
    <<W("tee"), <<"d", "/", "a">>, W("v")>>,
    <<W("cp"), W("a"), W("b")>>,
    <<W("cp"), X, W("a")>>,
    <<W("mv"), W("a"), W("b")>>,
    <<W("mv"), W("b"), <<"d", "/", "a">>>>,
    <<W("mv"), W("d"), W("b")>>,
    <<W("mv"), W("d"), <<"d", "/", "b">>>>,
    <<W("touch"), W("a"), W("b")>>,
    <<W("rm"), W("a")>>,
    <<W("rm"), W("*")>>,
    <<W("chmod"), W("+r"), W("a")>>,
    <<W("mkdir"), W("d")>>,
    <<W("cd"), W("d")>>,
    <<W("cd")>>,
    <<W("cat"), W("a")>>,
    <<W("ls")>>,
    <<W("find"), W("-name"), W("a")>>,
    <<W("du")>>,
    <<<<"x", "=", "b">>>>,
    <<W("export"), <<"y", "=", "a">>>>,
    <<W("unset"), W("x")>>,
    <<W("source"), W("b")>>,
    <<W("exit")>>,
    For(<<W("a"), W("b")>>, <<W("echo"), X>>),
    For(<<W("a"), W("b")>>, <<W("tee"), X, W("v")>>),
    <<W("if"), W("a"), W("="), W("a"), W("then"), W("touch"), W("b"), W("fi")>>,
    <<W("if"), W("a"), W("-f"), W("then"), <<"x", "=", "a">>, W("fi")>>}
MCTyped == {<<"echo", " ", "v">>, <<"echo", " ", "b">>, <<>>, <<".">>, <<":w">>, <<":wq">>}
MCKeys == {"i", "a", "d", "n", "p", ":w", ":q", ":wq"}
MCEdited == {W("a"), W("b")}

MCBudgets == {[commands |-> 3, keys |-> 0], [commands |-> 2, keys |-> 4]}

\* the line of the README
MCReadme == {<<W("if"), W("test"), W("-f"), W("a"), W("then"), W("echo"), W("v"), W("fi")>>,
             <<W("touch"), W("a")>>}
=============================================================================
