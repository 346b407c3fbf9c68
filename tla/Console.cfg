SPECIFICATION ConsoleSpec
CONSTANTS
    Names = {"arith", "mycalc", "other"}
    Lines <- MCLines
    Numbers = {0, 2}
    Width = 8
    MemSize = 1
    MaxPrograms = 3
    MaxLines = 4
    Builtins <- MCBuiltins
    MaxTyped = 3
    AppCommands <- MCApp
    AppCmdMax = 1
    AutoInit = FALSE
    Pins = {"PA0"}
    Sizes = {0, 2, 3}
    Generation = 4
    MaxCommands = 3
INVARIANTS
    NetifFirst
PROPERTIES
    RunsRight
    ProgramsKept
CHECK_DEADLOCK FALSE
