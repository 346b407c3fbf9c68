----------------------------- MODULE GfxConsole -----------------------------
(***************************************************************************)
(* The graphical shell (app_graphical_shell.c over lvgl_port.c): what any  *)
(* task prints goes into a ring; a process of the cooperative scheduler    *)
(* drains it into a grid of characters, and when the grid has changed      *)
(* copies it into LVGL's label, draws the label into the frame buffer that *)
(* it did not draw into the last time, and flips the display to it.        *)
(*                                                                         *)
(* The scheduler's processes do not preempt each other: a command and the  *)
(* renderer run one at a time.  Tasks that print and the LTDC's blanking   *)
(* come between any two steps.  LVGL (third_party/lvgl) is external.       *)
(***************************************************************************)
EXTENDS Display, FiniteSetsExt, SequencesExt

CONSTANTS
    Rows, Cols,     \* of the grid
    Tab,            \* 8
    LabelMax,       \* LV_LABEL_TEXT_LEN_MAX; less than the grid's characters
    RingSize,       \* GFX_RB_SIZE
    Chars,          \* the characters that are printed
    Test,           \* the text lvgl_port_init() prints
    MaxPuts,        \* bounds of the model: characters that enter the ring,
    MaxPictures     \* and "picture" commands

ASSUME GfxConsoleAssumption ==
    /\ {Rows, Cols, Tab, LabelMax, RingSize} \subseteq Nat \ {0}
    /\ LabelMax <= Rows * (Cols + 1)
    /\ MaxPuts \in Nat /\ MaxPictures \in Nat
    /\ Test \in Seq(ToSet(Test))

VARIABLES
    rb, head, tail,       \* g_rb, g_rb_head, g_rb_tail
    rows, row, col,       \* g_rows and the cursor
    dirty,                \* g_dirty
    label,                \* the text of g_console_label
    label_made,           \* whether there is one
    buf2_next,            \* LVGL's render_buf2_active
    gfx_active, picture_ready,
    caller,               \* the command the command line is in, "none"
    renderer,             \* the process: "unborn", "sleep", "drain", "flushed", "drawing"
    accepted, drained,    \* what entered and what left the ring, for the properties
    pictures              \* "picture" commands so far

ringVars == <<rb, head, tail, accepted, drained>>
gridVars == <<rows, row, col, dirty>>
lvglVars == <<label, label_made, buf2_next>>
appVars == <<gfx_active, picture_ready, caller, renderer, pictures>>
vars == <<displayVars, ringVars, gridVars, lvglVars, appVars>>

Blank == [c \in 1 .. Cols |-> " "]
BlankGrid == [rows |-> [r \in 1 .. Rows |-> Blank], row |-> 1, col |-> 0]
House == [kind |-> "house", text |-> <<>>]
Label(text) == [kind |-> "label", text |-> text]

(***************************************************************************)
(* The grid, as lvgl_port.c keeps it.                                      *)
(***************************************************************************)
scroll_up(g) == [g EXCEPT !.rows = [r \in 1 .. Rows |-> IF r < Rows THEN g.rows[r + 1] ELSE Blank]]
console_newline(g) ==
    IF g.row < Rows THEN [g EXCEPT !.col = 0, !.row = @ + 1] ELSE scroll_up([g EXCEPT !.col = 0])
Wrapped(g) == IF g.col >= Cols THEN console_newline(g) ELSE g
PutAt(g, c) == [g EXCEPT !.rows[g.row][g.col + 1] = c, !.col = @ + 1]
TabTo(g) ==
    LET next == (g.col \div Tab + 1) * Tab
        stop == IF next < Cols THEN next ELSE Cols
    IN  [g EXCEPT !.rows[g.row] = [c \in 1 .. Cols |-> IF c \in g.col + 1 .. stop THEN " " ELSE @[c]],
                  !.col = stop]
gfx_console_putc(g, c) ==
    CASE c = "\n" -> console_newline(g)
      [] c = "BS" -> [g EXCEPT !.col = IF @ > 0 THEN @ - 1 ELSE 0]
      [] c = "\t" -> Wrapped(TabTo(g))
      [] OTHER -> Wrapped(PutAt(g, c))
Grid == [rows |-> rows, row |-> row, col |-> col]
SetGrid(g) == rows' = g.rows /\ row' = g.row /\ col' = g.col

\* console_flush(): the rows without the blanks at their ends, joined as far as the label
\* takes them
Trimmed(line) == SubSeq(line, 1, Max({0} \cup {c \in 1 .. Cols : line[c] # " "}))
Join(room, lines) ==
    LET Add(acc, line) ==
            IF acc.full \/ Len(acc.text) + Len(Trimmed(line)) + 1 >= room THEN [acc EXCEPT !.full = TRUE]
            ELSE [acc EXCEPT !.text = @ \o Trimmed(line) \o <<"\n">>]
        all == FoldLeft(Add, [text |-> <<>>, full |-> FALSE], lines).text
    IN  IF all = <<>> THEN <<>> ELSE Front(all)
console_flush(lines, made) == label' = IF made THEN Join(LabelMax, lines) ELSE label

Init ==
    /\ DisplayInit
    /\ rb = [i \in 0 .. RingSize - 1 |-> "\n"] /\ head = 0 /\ tail = 0
    /\ accepted = <<>> /\ drained = <<>>
    /\ rows = [r \in 1 .. Rows |-> [c \in 1 .. Cols |-> "NUL"]] /\ row = BlankGrid.row /\ col = BlankGrid.col /\ dirty = FALSE
    /\ label = <<>> /\ label_made = FALSE /\ buf2_next = FALSE
    /\ gfx_active = FALSE /\ picture_ready = FALSE /\ caller = "none" /\ renderer = "unborn"
    /\ pictures = 0

(***************************************************************************)
(* hal_uart_output_hook(), from any task: a full ring drops the character. *)
(***************************************************************************)
After(i) == (i + 1) % RingSize
rb_putOver(c) ==      \* that does not look for the tail
    /\ rb' = [rb EXCEPT ![head] = c] /\ head' = After(head) /\ accepted' = Append(accepted, c)
rb_put(c) ==
    /\ After(head) # tail
    /\ rb' = [rb EXCEPT ![head] = c] /\ head' = After(head) /\ accepted' = Append(accepted, c)
hal_uart_output_hook(c) ==
    /\ gfx_active /\ Len(accepted) < MaxPuts
    /\ rb_put(c)
    /\ UNCHANGED <<displayVars, tail, drained, gridVars, lvglVars, appVars>>

(***************************************************************************)
(* lv_timer_handler() and lv_flush_cb(): a drawing takes longer than a     *)
(* blanking; the buffer it goes into is the one not drawn into last.       *)
(***************************************************************************)
Draw(b) == drawing' = b /\ buf2_next' = (b = 1)
DrawLabel == Draw(IF buf2_next THEN 2 ELSE 1)
Drawn(picture) == buf' = [buf EXCEPT ![drawing] = picture] /\ drawing' = 0
LabelDrawn ==
    /\ Drawn(IF label_made THEN Label(label) ELSE Black)
    /\ hal_display_flip(drawing)

(***************************************************************************)
(* The renderer.                                                           *)
(***************************************************************************)
Wake ==
    /\ renderer = "sleep" /\ caller = "none" /\ renderer' = "drain"
    /\ UNCHANGED <<displayVars, ringVars, gridVars, lvglVars, gfx_active, picture_ready, caller, pictures>>
gfxshell_drain_rb ==      \* one turn of its loop
    /\ renderer = "drain" /\ head # tail
    /\ SetGrid(gfx_console_putc(Grid, rb[tail])) /\ dirty' = TRUE
    /\ tail' = After(tail) /\ drained' = Append(drained, rb[tail])
    /\ UNCHANGED <<displayVars, rb, head, accepted, lvglVars, appVars>>
lvgl_port_handler ==
    /\ renderer = "drain" /\ head = tail
    /\ IF dirty THEN /\ console_flush(rows, label_made)
                     /\ dirty' = FALSE /\ DrawLabel /\ renderer' = "drawing"
       ELSE renderer' = "sleep" /\ UNCHANGED <<label, dirty, drawing, buf2_next>>
    /\ UNCHANGED <<buf, shadow, reload, scanned, ltdc, clock, stream, panel, lit, step, ringVars,
                   rows, row, col, label_made, gfx_active, picture_ready, caller, pictures>>
lv_flush_cb ==
    /\ renderer = "drawing" /\ renderer' = "sleep"
    /\ LabelDrawn
    /\ UNCHANGED <<scanned, ltdc, clock, stream, panel, lit, step, ringVars, gridVars, lvglVars,
                   gfx_active, picture_ready, caller, pictures>>

(***************************************************************************)
(* The commands.                                                           *)
(***************************************************************************)
Prompt == caller = "none" /\ renderer \in {"unborn", "sleep"}
cli_gfxshell ==
    /\ Prompt /\ ~gfx_active
    /\ caller' = "gfxshell" /\ step' = "sdram"
    /\ UNCHANGED <<buf, drawing, shadow, reload, scanned, ltdc, clock, stream, panel, lit,
                   ringVars, gridVars, lvglVars, gfx_active, picture_ready, renderer, pictures>>
cli_picture ==
    /\ Prompt /\ pictures < MaxPictures /\ pictures' = pictures + 1
    /\ caller' = "picture"
    /\ IF ~gfx_active /\ ~picture_ready THEN step' = "sdram" /\ UNCHANGED drawing
       ELSE step' = "again" /\ drawing' = 1
    /\ UNCHANGED <<buf, shadow, reload, scanned, ltdc, clock, stream, panel, lit,
                   ringVars, gridVars, lvglVars, gfx_active, picture_ready, renderer>>
\* the first frame of each; without a label lvgl_port_init() returns before the video
FirstHouse ==
    /\ caller = "picture" /\ step = "frame" /\ drawing = 0
    /\ drawing' = 1
    /\ UNCHANGED <<buf, shadow, reload, scanned, ltdc, clock, stream, panel, lit, step,
                   ringVars, gridVars, lvglVars, appVars>>
draw_house_picture ==
    /\ caller = "picture" /\ drawing = 1
    /\ Drawn(House) /\ step' = IF step = "again" THEN "done" ELSE "host"
    /\ UNCHANGED <<shadow, reload, scanned, ltdc, clock, stream, panel, lit,
                   ringVars, gridVars, lvglVars, appVars>>
lvgl_port_init ==
    /\ caller = "gfxshell" /\ step = "frame" /\ drawing = 0
    /\ \E made \in BOOLEAN :
        LET g == FoldLeft(gfx_console_putc, BlankGrid, Test)
        IN  /\ label_made' = made
            /\ IF made
               THEN /\ SetGrid(g) /\ console_flush(g.rows, TRUE)
                    /\ drained' = Test /\ accepted' = Test
                    /\ DrawLabel /\ UNCHANGED step
               ELSE /\ step' = "done"
                    /\ UNCHANGED <<rows, row, col, label, drained, accepted, drawing, buf2_next>>
    /\ UNCHANGED <<buf, shadow, reload, scanned, ltdc, clock, stream, panel, lit,
                   rb, head, tail, dirty, appVars>>
FirstLabel ==
    /\ caller = "gfxshell" /\ step = "frame" /\ drawing # 0
    /\ LabelDrawn /\ step' = "host"
    /\ UNCHANGED <<scanned, ltdc, clock, stream, panel, lit, ringVars, gridVars, lvglVars, appVars>>
\* the display counts as ready however the bring-up went; the process table may be full
Finish ==
    /\ step = "done" /\ step' = "none" /\ caller' = "none"
    /\ IF caller = "gfxshell"
       THEN gfx_active' = TRUE /\ renderer' \in {"unborn", "sleep"} /\ UNCHANGED picture_ready
       ELSE picture_ready' = TRUE /\ UNCHANGED <<gfx_active, renderer>>
    /\ UNCHANGED <<buf, drawing, shadow, reload, scanned, ltdc, clock, stream, panel, lit,
                   ringVars, gridVars, lvglVars, pictures>>

Renderer == Wake \/ gfxshell_drain_rb \/ lvgl_port_handler \/ lv_flush_cb
Commanding == FirstHouse \/ draw_house_picture \/ lvgl_port_init \/ FirstLabel \/ Finish
Hardware == (BringUp \/ VBlank) /\ UNCHANGED <<ringVars, gridVars, lvglVars, appVars>>
Next ==
    \/ \E c \in Chars : hal_uart_output_hook(c)
    \/ cli_gfxshell \/ cli_picture
    \/ Commanding \/ Renderer \/ Hardware

Spec == Init /\ [][Next]_vars

\* The loop of the scheduler runs every process again and again, a command goes on, and
\* the LTDC comes to its blankings.
FairSpec == Spec /\ WF_vars(Renderer) /\ WF_vars(Commanding) /\ WF_vars(Hardware)

(***************************************************************************)
(* Properties.                                                             *)
(***************************************************************************)

\* What entered the ring leaves it once, in its order, however many tasks print and
\* however often it is full: a character is dropped before it enters or not at all.
Waiting == [i \in 1 .. (head - tail) % RingSize |-> rb[(tail + i - 1) % RingSize]]
TextKept == accepted = drained \o Waiting

\* The reference: a paper without end.
Sheet == [lines |-> <<Blank>>, col |-> 0]
Feed(p) == [lines |-> Append(p.lines, Blank), col |-> 0]
FeedFull(p) == IF p.col = Cols THEN Feed(p) ELSE p
Ink(p, cs, c) ==
    [lines |-> [p.lines EXCEPT ![Len(p.lines)] = [i \in 1 .. Cols |-> IF i \in cs THEN c ELSE @[i]]],
     col |-> Max(cs)]
ToStop(p) == {i \in p.col + 1 .. Cols : \A j \in p.col + 1 .. i - 1 : j % Tab # 0}
Type(p, c) ==
    CASE c = "\n" -> Feed(p)
      [] c = "BS" -> [p EXCEPT !.col = Max({0, @ - 1})]
      [] c = "\t" -> FeedFull(Ink(p, ToStop(p), " "))
      [] OTHER -> FeedFull(Ink(p, {p.col + 1}, c))
Paper == FoldLeft(Type, Sheet, drained)

\* The grid is the end of a paper without end on which the printed text was typed: its
\* last lines, with nothing left of the lines that went off the top.
GridRight ==
    label_made =>
        LET end == SubSeq(Paper.lines, Max({1, Len(Paper.lines) - Rows + 1}), Len(Paper.lines))
        IN  /\ \A r \in 1 .. Rows : rows[r] = IF r \in DOMAIN end THEN end[r] ELSE Blank
            /\ row = Len(end) /\ col = Paper.col

\* From a task that prints to the grid: every character that was accepted is on its way
\* in order or on the paper the grid shows the end of.
TextRight == TextKept /\ GridRight

\* The backlight comes on only over a whole picture: with the clock and the scan running,
\* the panel given every one of its commands, and a finished first frame of the
\* application in the buffer that is scanned, whichever wait ran out before.
LitWhenWhole ==
    [][lit' /\ ~lit =>
         /\ clock /\ ltdc /\ stream = "video" /\ panel = 1 .. Commands
         /\ drawing # scanned /\ buf[scanned].kind \notin {"noise", "black"}]_lit

\* What is printed comes to the screen, as far as the label takes it: once printing ends,
\* the ring is empty and the display scans the grid's text, or a picture that a command
\* drew over it, for good.
Showing == renderer # "unborn" /\ label_made /\ ltdc /\ clock
ScreenCatchesUp ==
    <>[](Showing => /\ head = tail
                    /\ buf[scanned] \in {Label(Join(LabelMax, rows))} \cup (IF pictures > 0 THEN {House} ELSE {}))

\* "scan-out is always reading one complete, finished buffer or the other, never a buffer
\* mid-write" (hal_display.c:1506)
ScannedWhole == ltdc => drawing # scanned

\* "building the joined string here is enough to get the same wrap/scroll behavior the old
\* per-pixel blitter had" (lvgl_port.c:27): all of the grid comes to the screen.
NewestShown ==
    <>[](Showing /\ pictures = 0 => buf[scanned] = Label(Join(Rows * (Cols + 1) + 1, rows)))
=============================================================================
