------------------------------ MODULE MCPrograms ------------------------------
(***************************************************************************)
(* Texts for TLC: buffers of a few bytes, so that short texts overflow     *)
(* them, and for every kind of text the bytes the programs tell apart.     *)
(***************************************************************************)
EXTENDS Programs

\* a, b, A, space and newline; a % and its conversions; a name with wildcards
\* and slashes; a line with both quotes, ; and a variable
MCAlphabet == [file   |-> {97, 98, 65, 32, 10},
               format |-> {37, 92, 115, 100, 110},
               path   |-> {97, 98, 42, 63, 47},
               line   |-> {86, 32, 39, 59, 36, 8}]
MCMaxLen   == [file |-> 5, format |-> 6, path |-> 4, line |-> 5]

\* V = "$V", which an expansion must not expand again
MCVars == (<<86>> :> <<36, 86, 97>>) @@ (<<86, 86>> :> <<>>)
=============================================================================
