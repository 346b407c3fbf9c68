----------------------------- MODULE ColorTests -----------------------------
(***************************************************************************)
(* colored-screen (app_colored_screen.c): commands that fill the buffer    *)
(* that is scanned, or rectangles of it, one fill after the other with a   *)
(* delay between.  The first of them brings the display up.                *)
(***************************************************************************)
EXTENDS Display, SequencesExt

CONSTANTS
    Columns, Lines,     \* the screen, in cells
    Colors,             \* k_colors, a sequence
    Regions,            \* k_regions, a sequence of sets of cells
    Stripes, Bands,     \* k_stripe_x and k_band_y, the cells of each
    Bars                \* k_bars, a sequence of colours

ASSUME ColorAssumption ==
    /\ Columns \in Nat /\ Lines \in Nat /\ Bars # <<>>
    /\ Colors \in Seq(ToSet(Colors)) /\ Bars \in Seq(ToSet(Bars)) /\ Regions \in Seq(ToSet(Regions))
    /\ Stripes \in Seq(ToSet(Stripes)) /\ Bands \in Seq(ToSet(Bands))

VARIABLES
    colortest_ready,    \* g_colortest_ready
    fills,              \* what the running command has yet to fill
    test                \* the command that runs or ran last

colorVars == <<colortest_ready, fills, test>>

Screen == (1 .. Columns) \X (1 .. Lines)
BlackScreen == [kind |-> "cells", text |-> [c \in Screen |-> "black"]]
Left == {c \in Screen : 2 * c[1] <= Columns}
Top  == {c \in Screen : 2 * c[2] <= Lines}
Fill(cells, color) == [cells |-> cells, color |-> color]
Clear == Fill(Screen, "black")

ColorInit == colortest_ready = FALSE /\ fills = <<>> /\ test = "none"

\* a loop that clears the screen before each of its fills, and the clear after it
Each(shows) == FlattenSeq([i \in DOMAIN shows |-> <<Clear, shows[i]>>]) \o <<Clear>>
In(cells, color) == [i \in DOMAIN cells |-> Fill(cells[i], color)]
bar_w == Columns \div Len(Bars)
colorbars ==
    [i \in DOMAIN Bars |->
        Fill({c \in Screen : /\ c[1] - 1 >= (i - 1) * bar_w
                             /\ i < Len(Bars) => c[1] - 1 < i * bar_w}, Bars[i])]
Tests == [
    colortest  |-> Each([i \in DOMAIN Colors |-> Fill(Screen, Colors[i])]),
    halftest   |-> Each(FlattenSeq([i \in DOMAIN Colors |-> In(Regions, Colors[i])])),
    stripetest |-> Each(In(Stripes, "white")),
    longtest   |-> Each(<<Fill(Top, "red"), Fill(Left, "red")>>),
    bandtest   |-> Each(In(Bands, "green")),
    colorbars  |-> colorbars]

RunTest(t) ==
    /\ fills = <<>> /\ step = "none"
    /\ test' = t /\ fills' = Tests[t]
    /\ IF colortest_ready THEN UNCHANGED step ELSE step' = "sdram"
    /\ UNCHANGED <<buf, drawing, shadow, reload, scanned, ltdc, clock, stream, panel, lit,
                   colortest_ready>>
\* the black first frame, and the return from the bring-up
BlackFirst ==
    /\ \/ step = "frame" /\ step' = "host" /\ buf' = [buf EXCEPT ![1] = BlackScreen]
          /\ UNCHANGED colortest_ready
       \/ step = "done" /\ step' = "none" /\ colortest_ready' = TRUE
          /\ UNCHANGED buf
    /\ UNCHANGED <<drawing, shadow, reload, scanned, ltdc, clock, stream, panel, lit, fills, test>>
fill_rect ==
    /\ fills # <<>> /\ step = "none"
    /\ \/ drawing = 0 /\ drawing' = 1 /\ UNCHANGED <<buf, fills>>
       \/ drawing = 1 /\ drawing' = 0 /\ fills' = Tail(fills)
          /\ buf' = [buf EXCEPT ![1].text = [c \in Screen |->
                       IF c \in Head(fills).cells THEN Head(fills).color ELSE @[c]]]
    /\ UNCHANGED <<shadow, reload, scanned, ltdc, clock, stream, panel, lit, step,
                   colortest_ready, test>>

ColorStep == BlackFirst \/ fill_rect

\* Whatever tests were run before, each shows what it fills over a screen that is black
\* elsewhere, and leaves black; the bars leave no column of an earlier picture.
TestsRight ==
    colortest_ready /\ drawing = 0 /\ Len(fills) < Len(Tests[test]) =>
        LET cells == buf[1].text
            last == Tests[test][Len(Tests[test]) - Len(fills)]
        IN  IF test = "colorbars"
            THEN fills = <<>> => \A c \in Screen : \E i \in DOMAIN Bars :
                    /\ cells[c] = Bars[i]
                    /\ (i - 1) * bar_w < c[1] /\ (i < Len(Bars) => c[1] <= i * bar_w)
            ELSE /\ cells = [c \in Screen |-> IF c \in last.cells THEN last.color ELSE "black"]
                 /\ fills = <<>> => cells = BlackScreen.text
=============================================================================
