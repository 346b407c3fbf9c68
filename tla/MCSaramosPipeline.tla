------------------------- MODULE MCSaramosPipeline -------------------------
(* Instances of the pipelines for TLC: texts of two letters and newlines. *)
EXTENDS SaramosPipeline

CONSTANTS a, b, nl

MCBytes == {a, b, nl} \cup 0 .. 8

Of(g)      == [prog |-> g, arg |-> NULL]
Grep(c)    == [prog |-> "grep", arg |-> c]
HeadN(n)   == [prog |-> "head", arg |-> n]
Cmd(t, ss) == [input |-> t, stages |-> ss]

\* Two lines and an unfinished one; a line longer than a line buffer.
Short == <<a, nl, b, nl, a>>
Long  == <<a, b, b, b, nl>>

\* Pipelines of two and three stages that read to the end of their input, or
\* whose rest fits the pipe, and one whose last stage finds no place in the
\* process table.
MCCommands ==
    { Cmd(Short, <<Of("echo"), Grep(a), Of("cat")>>),
      Cmd(Long,  <<Of("echo"), Of("cat"), Of("wc")>>),
      Cmd(<<a, nl, b>>, <<Of("echo"), HeadN(1), Of("wc")>>),
      Cmd(<<>>,  <<Of("echo"), Of("cat")>>),
      Cmd(<<b>>, <<Of("echo"), Of("sync")>>),
      Cmd(Long,  <<Of("echo"), Of("cat"), Of("wc"), Of("cat")>>) }

\* A stage that stops reading before its input ends.
MCEarly == {Cmd(Short, <<Of("echo"), HeadN(1)>>)}

\* Two stages of one program.
MCTwice == {Cmd(<<a, nl>>, <<Of("echo"), Grep(a), Grep(b)>>)}
=============================================================================
