------------------------------- MODULE Picora -------------------------------
(***************************************************************************)
(* draw-picora (app_draw_picora.c): the "picora" command brings the        *)
(* display up, draws the first picture and adds a task to the kernel; the  *)
(* task polls the blue button and moves, swaps and inverts the picture,    *)
(* one action of a cycle of six for each press.  It draws straight into    *)
(* the buffer that is scanned.                                             *)
(***************************************************************************)
EXTENDS Display, Sequences

CONSTANTS
    DisplayWidth, DisplayHeight,
    Width, Height,      \* of each of the images "src", "parent" and "brown"
    TaskIds, ButtonId,  \* the ids of the kernel's tasks, and the one this task is given
    MaxPresses          \* bound of the model

Images == {"src", "parent", "brown"}
Stride == 20
\* the images that are built in leave room for a stride on each side
ASSUME PicoraAssumption ==
    /\ {DisplayWidth, DisplayHeight, MaxPresses} \subseteq Nat
    /\ \A i \in Images :
        /\ Width[i] \in Nat /\ Width[i] + 2 * Stride <= DisplayWidth
        /\ Height[i] \in Nat /\ Height[i] + 2 * Stride <= DisplayHeight

VARIABLES
    cur_img, off_x, off_y, bg,   \* g_cur_img, g_off_x, g_off_y, g_bg_color
    action,                      \* g_current_action
    place,                       \* "none", then the command's "starting" and "first",
                                 \* then the task's "poll" and "redraw", or "refused"
    button, was_pressed,         \* the pin's level, and the task's last sample
    presses, acted               \* for the properties: the presses, and the actions

picoraVars == <<cur_img, off_x, off_y, bg, action, place, button, was_pressed, presses, acted>>
shown == <<cur_img, off_x, off_y, bg>>
Cleared == [kind |-> "cleared", text |-> <<>>]     \* the first frame

BgBase == 14791                  \* rgb565(0x3A, 0x3B, 0x3C)
Complement(color) == 65535 - color
Actions == <<"MOVE_UP", "MOVE_DOWN", "MOVE_LEFT", "MOVE_RIGHT", "CLEAR", "RESTORE">>

PicoraInit ==
    /\ cur_img = "src" /\ off_x = 0 /\ off_y = 0 /\ bg = BgBase /\ action = 0
    /\ place = "none" /\ button = FALSE /\ was_pressed = FALSE
    /\ presses = 0 /\ acted = 0

Clamped(off, room) ==
    LET max == IF room < 0 THEN 0 ELSE room \div 2
    IN  IF off > max THEN max ELSE IF off < -max THEN -max ELSE off
clamp_offsets(img, x, y) ==
    /\ off_x' = Clamped(x, DisplayWidth - Width[img])
    /\ off_y' = Clamped(y, DisplayHeight - Height[img])
ShowAt(img, x, y) == cur_img' = img /\ clamp_offsets(img, x, y)
execute_system_action ==
    /\ CASE Actions[action + 1] = "MOVE_UP"    -> ShowAt("parent", off_x, off_y - Stride) /\ UNCHANGED bg
         [] Actions[action + 1] = "MOVE_DOWN"  -> ShowAt("src", off_x, off_y + Stride) /\ UNCHANGED bg
         [] Actions[action + 1] = "MOVE_LEFT"  -> ShowAt("brown", off_x - Stride, off_y) /\ UNCHANGED bg
         [] Actions[action + 1] = "MOVE_RIGHT" -> ShowAt("brown", off_x + Stride, off_y) /\ UNCHANGED bg
         [] Actions[action + 1] = "CLEAR"      -> ShowAt(cur_img, off_x, off_y) /\ bg' = Complement(bg)
         [] Actions[action + 1] = "RESTORE"    -> ShowAt("src", 0, 0) /\ bg' = BgBase
    /\ action' = (action + 1) % Len(Actions)
    /\ acted' = acted + 1

\* cli_picora(), once, and ensure_display_started()
cli_picora ==
    /\ place = "none" /\ place' = "starting" /\ step' = "sdram"
    /\ cur_img' = "src" /\ off_x' = 0 /\ off_y' = 0 /\ bg' = BgBase /\ action' = 0
    /\ UNCHANGED <<buf, drawing, shadow, reload, scanned, ltdc, clock, stream, panel, lit,
                   button, was_pressed, presses, acted>>
ensure_display_started ==
    /\ place = "starting"
    /\ \/ step = "frame" /\ step' = "host" /\ buf' = [buf EXCEPT ![1] = Cleared]
          /\ UNCHANGED <<drawing, place>>
       \/ step = "done" /\ step' = "none" /\ drawing' = 1 /\ place' = "first"
          /\ UNCHANGED buf
    /\ UNCHANGED <<shadow, reload, scanned, ltdc, clock, stream, panel, lit,
                   shown, action, button, was_pressed, presses, acted>>
\* after the first redraw() the command adds the task, and does not look at the result
saramos_task_add == IF ButtonId \in TaskIds THEN "refused" ELSE "poll"
redraw ==
    /\ place \in {"first", "redraw"}
    /\ place' = IF place = "first" THEN saramos_task_add ELSE "poll"
    /\ buf' = [buf EXCEPT ![1] = [kind |-> "picora", text |-> shown]] /\ drawing' = 0
    /\ UNCHANGED <<shadow, reload, scanned, ltdc, clock, stream, panel, lit, step,
                   shown, action, button, was_pressed, presses, acted>>
button_task_entry ==
    /\ place = "poll" /\ button # was_pressed
    /\ was_pressed' = button
    /\ IF button THEN execute_system_action /\ place' = "redraw" /\ drawing' = 1
       ELSE UNCHANGED <<shown, action, acted, place, drawing>>
    /\ UNCHANGED <<buf, shadow, reload, scanned, ltdc, clock, stream, panel, lit, step,
                   button, presses>>
\* a press may be over, and another begun, before the task looks
Button ==
    /\ button \/ presses < MaxPresses
    /\ button' = ~button /\ presses' = IF button THEN presses ELSE presses + 1
    /\ UNCHANGED <<displayVars, shown, action, place, was_pressed, acted>>

PicoraStep == ensure_display_started \/ redraw \/ button_task_entry

\* However fast the button is pressed, it makes no action of its own, and the picture
\* that is drawn is whole on the screen and is the one the number of actions makes it:
\* six of them are a cycle, and none leaves an offset or a background behind.
PictureRight ==
    LET Frames == << <<"src", 0, 0, BgBase>>, <<"parent", 0, -Stride, BgBase>>, <<"src", 0, 0, BgBase>>,
                     <<"brown", -Stride, 0, BgBase>>, <<"brown", 0, 0, BgBase>>,
                     <<"brown", 0, 0, Complement(BgBase)>> >>
        x0 == (DisplayWidth - Width[cur_img]) \div 2 + off_x
        y0 == (DisplayHeight - Height[cur_img]) \div 2 + off_y
    IN  /\ acted <= presses
        /\ x0 >= 0 /\ x0 + Width[cur_img] <= DisplayWidth
        /\ y0 >= 0 /\ y0 + Height[cur_img] <= DisplayHeight
        /\ place \in {"poll", "refused"} => buf[1].text = Frames[(acted % 6) + 1]

\* "Press the blue user button to cycle." (app_draw_picora.c:282): the task comes to see
\* where the button is left.  It does not with TaskIds = {0, 1, 2} and ButtonId = 2.
ButtonAnswers == <>[](place \in {"poll", "refused"} => was_pressed = button)
=============================================================================
