------------------------------ MODULE Console -------------------------------
(***************************************************************************)
(* The command line and the tasks main() starts (os/default/main.c), with  *)
(* the state its commands keep: the calculator, the arena, the network and *)
(* the pins.  The cli runs in the task of the cooperative scheduler; the   *)
(* net task has the same priority, so that SysTick lets either go on       *)
(* between any two steps.  lwIP is external: what matters of it is which   *)
(* tasks are inside it.                                                    *)
(***************************************************************************)
EXTENDS Calculator, FiniteSets

CONSTANTS
    AppCommands,     \* the commands the app registers at boot, in order
    AppCmdMax,       \* APP_CMD_MAX
    AutoInit,        \* whether the app brings the network up at boot
    Pins,            \* the pins the pin commands name
    Sizes,           \* the sizes alloc asks for
    Generation,      \* generation_bytes
    MaxCommands      \* bound of the model: commands typed

ASSUME ConsoleAssumption ==
    /\ AutoInit \in BOOLEAN /\ AppCmdMax \in Nat /\ MaxCommands \in Nat
    /\ Generation \in Nat /\ Sizes \subseteq Nat

VARIABLES
    app_cmds,          \* the registered commands
    arena,             \* [active, used, epoch]
    claims,            \* the claims of this generation: [from, size]
    verbose,           \* which of the "heartbeat" and "eth" logs are on
    net_initialized,
    lwip,              \* the tasks that are inside lwIP
    inits,             \* net inits completed
    pin,               \* each pin: [mode, pull, out]
    last_input,        \* the pin "inp read" samples, a set of none or one
    sampled,           \* the last pin it sampled, likewise
    commands           \* commands typed

osVars == <<app_cmds, arena, claims, verbose>>
netVars == <<net_initialized, lwip, inits>>
pinVars == <<pin, last_input, sampled>>
consoleVars == <<calculatorVars, osVars, netVars, pinVars, commands>>

\* cli_register_command(): no more than the table takes
cli_register_command(table, cmd) == IF Len(table) >= AppCmdMax THEN table ELSE Append(table, cmd)
Registered[n \in 0 .. Len(AppCommands)] ==
    IF n = 0 THEN <<>> ELSE cli_register_command(Registered[n - 1], AppCommands[n])

\* main(): the arena, the calculator's programs, the app, then the tasks
ConsoleInit ==
    /\ CalculatorInit
    /\ app_cmds = Registered[Len(AppCommands)]
    /\ arena = [active |-> FALSE, used |-> 0, epoch |-> 1] /\ claims = {}
    /\ verbose = {}
    /\ net_initialized = AutoInit /\ lwip = {} /\ inits = IF AutoInit THEN 1 ELSE 0
    /\ pin = [p \in Pins |-> [mode |-> "input", pull |-> "none", out |-> 0]]
    /\ last_input = {} /\ sampled = {}
    /\ commands = 0

(***************************************************************************)
(* cli_input_process() and cli_execute(): a line at the prompt.  The app's *)
(* commands are looked up before the built-in ones of the same name.       *)
(***************************************************************************)
Typed(cmd) ==
    /\ mode = "prompt" /\ commands < MaxCommands
    /\ commands' = commands + 1
    /\ \A i \in DOMAIN app_cmds : app_cmds[i] # cmd
AppCommand(cmd) ==      \* the app's function is external
    /\ mode = "prompt" /\ commands < MaxCommands /\ commands' = commands + 1
    /\ \E i \in DOMAIN app_cmds : app_cmds[i] = cmd
    /\ UNCHANGED <<calculatorVars, osVars, netVars, pinVars>>
\* help, status, hello, clear, net status, net show, sd info, pin read, a usage line or
\* an unknown command: they print
Printing(cmd) == Typed(cmd) /\ UNCHANGED <<calculatorVars, osVars, netVars, pinVars>>

cli_program ==
    /\ Typed("program")
    /\ \E name \in Names : program_edit(name) \/ program_run(name)
    /\ UNCHANGED <<osVars, netVars, pinVars>>

(***************************************************************************)
(* saramos_arena.c over libttak's generations (external): a claim is what  *)
(* is left of the generation or nothing; a generation begins with the      *)
(* first claim and ends with a rotate.                                     *)
(***************************************************************************)
saramos_arena_remaining == IF arena.active THEN Generation - arena.used ELSE Generation
cli_alloc(n) ==
    /\ Typed("alloc")
    /\ IF n = 0 THEN UNCHANGED <<arena, claims>>
       ELSE /\ arena' = [arena EXCEPT !.active = TRUE,
                                      !.used = IF n <= saramos_arena_remaining THEN @ + n ELSE @]
            /\ claims' = IF n <= saramos_arena_remaining
                         THEN claims \cup {[from |-> arena.used, size |-> n]} ELSE claims
    /\ UNCHANGED <<app_cmds, verbose, calculatorVars, netVars, pinVars>>
saramos_arena_reset ==
    /\ Typed("reset")
    /\ arena' = [arena EXCEPT !.used = 0]
    /\ claims' = {}
    /\ UNCHANGED <<app_cmds, verbose, calculatorVars, netVars, pinVars>>
saramos_arena_rotate ==
    /\ Typed("rotate")
    /\ arena' = [active |-> FALSE, used |-> 0, epoch |-> arena.epoch + 1]
    /\ claims' = {}
    /\ UNCHANGED <<app_cmds, verbose, calculatorVars, netVars, pinVars>>
Log(cmd) ==    \* cli_heartbeat(), cli_eth(): on or off
    /\ Typed(cmd)
    /\ verbose' \in {verbose \cup {cmd}, verbose \ {cmd}}
    /\ UNCHANGED <<app_cmds, arena, claims, calculatorVars, netVars, pinVars>>

(***************************************************************************)
(* The pins: configuring one as an input makes it the pin "inp" samples.   *)
(***************************************************************************)
hal_gpio_init_input(p, pull) == pin' = [pin EXCEPT ![p].mode = "input", ![p].pull = pull]
cli_pin_input(p, pull) ==
    /\ Typed("pin")
    /\ hal_gpio_init_input(p, pull) /\ last_input' = {p}
    /\ UNCHANGED <<sampled, calculatorVars, osVars, netVars>>
cli_pin_out(p) ==
    /\ Typed("pin")
    /\ pin' = [pin EXCEPT ![p].mode = "output"]
    /\ UNCHANGED <<last_input, sampled, calculatorVars, osVars, netVars>>
cli_pin_write(p, val) ==
    /\ Typed("pin")
    /\ pin' = [pin EXCEPT ![p].out = val]
    /\ UNCHANGED <<last_input, sampled, calculatorVars, osVars, netVars>>
cli_inp_read ==
    /\ Typed("inp")
    /\ sampled' = last_input
    /\ UNCHANGED <<pin, last_input, calculatorVars, osVars, netVars>>
cli_pin ==
    \E p \in Pins :
        \/ \E pull \in {"none", "up", "down"} : cli_pin_input(p, pull)
        \/ cli_pin_out(p)
        \/ \E val \in 0 .. 1 : cli_pin_write(p, val)

(***************************************************************************)
(* The network.  "net init" builds the netif and starts DHCP, and only     *)
(* then sets the flag the net task polls; "http start" opens the server.   *)
(* Both are calls into lwIP from the scheduler's task.                     *)
(***************************************************************************)
LwipCommand(cmd, call) ==
    /\ Typed(cmd)
    /\ mode' = call /\ lwip' = lwip \cup {"sched"}
    /\ UNCHANGED <<programs, edited, st, typed, compared, stored, osVars, net_initialized, inits, pinVars>>
cli_net_initEarly ==    \* that sets the flag first
    /\ Typed("net")
    /\ mode' = "net_init" /\ lwip' = lwip \cup {"sched"} /\ net_initialized' = TRUE
    /\ UNCHANGED <<programs, edited, st, typed, compared, stored, osVars, inits, pinVars>>
cli_net_init == LwipCommand("net", "net_init")
cli_http_start == LwipCommand("http", "http_start")
LwipReturn ==
    /\ mode \in {"net_init", "http_start"}
    /\ mode' = "prompt" /\ lwip' = lwip \ {"sched"}
    /\ IF mode = "net_init" THEN net_initialized' = TRUE /\ inits' = inits + 1
       ELSE UNCHANGED <<net_initialized, inits>>
    /\ UNCHANGED <<programs, edited, st, typed, compared, stored, osVars, pinVars, commands>>

\* net_task_entry(): a round of ethernetif_input() and sys_check_timeouts()
NetEnter ==
    /\ net_initialized /\ "net" \notin lwip
    /\ lwip' = lwip \cup {"net"}
    /\ UNCHANGED <<calculatorVars, osVars, net_initialized, inits, pinVars, commands>>
NetLeave ==
    /\ "net" \in lwip
    /\ lwip' = lwip \ {"net"}
    /\ UNCHANGED <<calculatorVars, osVars, net_initialized, inits, pinVars, commands>>

Calculate == CalculatorStep /\ UNCHANGED <<osVars, netVars, pinVars, commands>>
ConsoleNext ==
    \/ cli_program \/ Calculate
    \/ \E n \in Sizes : cli_alloc(n)
    \/ saramos_arena_reset \/ saramos_arena_rotate
    \/ Log("heartbeat") \/ Log("eth")
    \/ cli_pin \/ cli_inp_read
    \/ cli_net_init \/ cli_http_start \/ LwipReturn \/ NetEnter \/ NetLeave
    \/ Printing("help") \/ AppCommand("sudoku")

ConsoleSpec == ConsoleInit /\ [][ConsoleNext]_consoleVars

(***************************************************************************)
(* Properties.                                                             *)
(***************************************************************************)

\* The net task is inside lwIP only when a netif was completely built before: the flag it
\* polls without a lock is the last thing "net init" does.
NetifFirst == "net" \in lwip => inits > 0

\* lwIP is configured "Bare-metal, single-threaded" (os/default/lwipopts.h:4), NO_SYS and
\* without protection: no two tasks are inside it at a time.
LwipSingleThreaded == Cardinality(lwip) <= 1

=============================================================================
