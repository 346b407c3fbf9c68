---------------------------- MODULE MCScreens ----------------------------
(* Instances of the display applications for TLC. *)
EXTENDS Screens

MCChars == {"a", "\n", "BS", "\t"}
MCTest == <<"t">>

MCWidth  == [src |-> 230, parent |-> 230, brown |-> 252]
MCHeight == [src |-> 230, parent |-> 230, brown |-> 252]

\* three columns, so that the last of two bars is the wider one
MCColors  == <<"red", "green">>
MCRegions == <<{c \in Screen : c[2] = 1}, {c \in Screen : c[1] > 1}>>
MCStripes == <<{c \in Screen : c[1] = 1}, {c \in Screen : c[1] = 3}>>
MCBands   == <<{c \in Screen : c[2] = 2}>>
MCBars    == <<"white", "blue">>
=============================================================================
