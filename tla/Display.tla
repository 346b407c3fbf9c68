------------------------------ MODULE Display -------------------------------
(***************************************************************************)
(* The panel of the STM32F769I-DISCO (hal_display.c, hal_sdram.c): two     *)
(* frame buffers, the LTDC that scans one of them out, the DSI host, the   *)
(* panel's registers and the backlight.  The bring-up goes through "step"; *)
(* what draws the first frame and calls it is in GfxConsole.  Register     *)
(* values and delays are left out; a wait that may run out may fail.       *)
(***************************************************************************)
EXTENDS Integers

CONSTANT Commands     \* how many commands otm8009a_init() sends, more than the one that fits
ASSUME DisplayAssumption == Commands \in Nat /\ Commands > 1

VARIABLES
    buf,       \* what the two frame buffers hold
    drawing,   \* the buffer that is being drawn into, 0 for none
    shadow,    \* the layer's CFBAR, as written
    reload,    \* SRCR.VBR: the shadow is taken over at the next blanking
    scanned,   \* the buffer the LTDC scans
    ltdc,      \* whether it scans
    clock,     \* whether PLLSAI, the pixel clock, runs
    stream,    \* the DSI host: "off", "command" or "video"
    panel,     \* the init commands the panel has had since its reset
    lit,       \* the backlight
    step       \* of the bring-up

displayVars == <<buf, drawing, shadow, reload, scanned, ltdc, clock, stream, panel, lit, step>>

Buffers == 1 .. 2
Noise == [kind |-> "noise", text |-> <<>>]
Black == [kind |-> "black", text |-> <<>>]

DisplayInit ==
    /\ buf = [b \in Buffers |-> Noise] /\ drawing = 0
    /\ shadow = 1 /\ reload = FALSE /\ scanned = 1 /\ ltdc = FALSE
    /\ clock = FALSE /\ stream = "off" /\ panel = {} /\ lit = FALSE
    /\ step = "none"

\* its test of the memory writes where the first frame buffer is
hal_sdram_init ==
    /\ step = "sdram" /\ step' = "clear"
    /\ buf' = [buf EXCEPT ![1] = Noise]
    /\ UNCHANGED <<drawing, shadow, reload, scanned, ltdc, clock, stream, panel, lit>>

(***************************************************************************)
(* hal_display_init(): it returns nothing, and the caller goes on to draw  *)
(* the first frame whether the clock runs or not.                          *)
(***************************************************************************)
hal_display_init ==
    /\ step = "clear" /\ step' = "clock"
    /\ buf' = [buf EXCEPT ![1] = Black]
    /\ UNCHANGED <<drawing, shadow, reload, scanned, ltdc, clock, stream, panel, lit>>
disp_clock_init ==
    /\ step = "clock"
    /\ \/ clock' = TRUE /\ step' = "reset"
       \/ ~clock /\ clock' = FALSE /\ step' = "frame"
    /\ UNCHANGED <<buf, drawing, shadow, reload, scanned, ltdc, stream, panel, lit>>
panel_reset ==      \* after panel_reset_gpio_init()
    /\ step = "reset" /\ step' = "frame"
    /\ lit' = FALSE /\ panel' = {}
    /\ UNCHANGED <<buf, drawing, shadow, reload, scanned, ltdc, clock, stream>>

(***************************************************************************)
(* hal_display_start_video(): the reset of LTDC and DSI comes first, then  *)
(* the waits that may fail.                                                *)
(***************************************************************************)
dsi_host_init ==
    /\ step = "host"
    /\ ltdc' = FALSE /\ reload' = FALSE /\ stream' = "off"
    /\ step' \in {"prime", "done"}
    /\ UNCHANGED <<buf, drawing, shadow, scanned, clock, panel, lit>>
\* the priming start, a read whose answer does not matter, and the stop
Prime ==
    /\ step = "prime"
    /\ \/ stream = "off" /\ stream' = "command" /\ step' = "prime"
       \/ stream = "command" /\ stream' = "off" /\ step' = "video"
    /\ UNCHANGED <<buf, drawing, shadow, reload, scanned, ltdc, clock, panel, lit>>
\* dsi_video_mode_init(), ltdc_init() with its immediate reload, and the start
ltdc_init == ltdc' = TRUE /\ shadow' = 1 /\ scanned' = 1 /\ reload' = FALSE
StartVideo ==
    /\ step = "video" /\ step' = "panel"
    /\ ltdc_init /\ stream' = "video"
    /\ UNCHANGED <<buf, drawing, clock, panel, lit>>

\* dsi_short_write() and dsi_long_write() wait for an empty FIFO.  In video mode it is
\* emptied in the windows of the live stream: without one the first command fills it.
Drains == stream = "command" \/ (stream = "video" /\ ltdc /\ clock)
Unsent == IF Drains THEN SUBSET (1 .. Commands) ELSE {2 .. Commands}

otm8009a_initLast ==     \* whose result is that of its last command
    /\ step = "panel"
    /\ \E unsent \in Unsent :
        /\ panel' = panel \cup ((1 .. Commands) \ unsent)
        /\ step' = IF Commands \notin unsent THEN "light" ELSE "done"
    /\ UNCHANGED <<buf, drawing, shadow, reload, scanned, ltdc, clock, stream, lit>>
\* every command is tried, whatever became of those before
otm8009a_init ==
    /\ step = "panel"
    /\ \E unsent \in Unsent :
        /\ panel' = panel \cup ((1 .. Commands) \ unsent)
        /\ step' = IF unsent = {} THEN "light" ELSE "done"
    /\ UNCHANGED <<buf, drawing, shadow, reload, scanned, ltdc, clock, stream, lit>>
hal_display_backlight_on ==
    /\ step = "light" /\ step' = "done"
    /\ lit' = TRUE
    /\ UNCHANGED <<buf, drawing, shadow, reload, scanned, ltdc, clock, stream, panel>>

BringUp ==
    \/ hal_sdram_init \/ hal_display_init \/ disp_clock_init \/ panel_reset
    \/ dsi_host_init \/ Prime \/ StartVideo \/ otm8009a_init \/ hal_display_backlight_on

\* hal_display_flip(): taken over by the LTDC at its next vertical blanking
hal_display_flipUnloaded(b) == shadow' = b /\ UNCHANGED reload   \* without the reload
hal_display_flip(b) == shadow' = b /\ reload' = ltdc
VBlank ==
    /\ ltdc /\ clock /\ reload
    /\ scanned' = shadow /\ reload' = FALSE
    /\ UNCHANGED <<buf, drawing, shadow, ltdc, clock, stream, panel, lit, step>>
=============================================================================
