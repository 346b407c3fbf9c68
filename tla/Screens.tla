------------------------------ MODULE Screens -------------------------------
(***************************************************************************)
(* The applications that use the display.  An image is built with one of   *)
(* them (APP_DIR in the Makefile), over the same panel.                    *)
(***************************************************************************)
EXTENDS GfxConsole, Picora, ColorTests

VARIABLE app

screenVars == <<vars, picoraVars, colorVars, app>>
Apps == {"graphical-shell", "draw-picora", "colored-screen"}

ScreensInit == Init /\ PicoraInit /\ ColorInit /\ app \in Apps

\* what the application does by itself, and the display's hardware
Runs ==
    \/ app = "graphical-shell" /\ (Renderer \/ Commanding) /\ UNCHANGED <<picoraVars, colorVars, app>>
    \/ app = "draw-picora" /\ PicoraStep /\ UNCHANGED <<ringVars, gridVars, lvglVars, appVars, colorVars, app>>
    \/ app = "colored-screen" /\ ColorStep /\ UNCHANGED <<ringVars, gridVars, lvglVars, appVars, picoraVars, app>>
Panel == Hardware /\ UNCHANGED <<picoraVars, colorVars, app>>
\* what a user, or a task that prints, makes of it
Used ==
    \/ app = "graphical-shell" /\ (cli_gfxshell \/ cli_picture \/ \E c \in Chars : hal_uart_output_hook(c))
       /\ UNCHANGED <<picoraVars, colorVars, app>>
    \/ app = "draw-picora" /\ (cli_picora \/ Button)
       /\ UNCHANGED <<ringVars, gridVars, lvglVars, appVars, colorVars, app>>
    \/ app = "colored-screen" /\ (\E t \in DOMAIN Tests : RunTest(t))
       /\ UNCHANGED <<ringVars, gridVars, lvglVars, appVars, picoraVars, app>>
ScreensNext == Runs \/ Panel \/ Used

\* As FairSpec of GfxConsole: the scheduler and the kernel run the application, and the
\* LTDC comes to its blankings.
ScreensSpec == ScreensInit /\ [][ScreensNext]_screenVars /\ WF_screenVars(Runs) /\ WF_screenVars(Panel)

\* What each application draws is what was printed, pressed or asked for.
ScreenRight == TextRight /\ PictureRight /\ TestsRight
=============================================================================
