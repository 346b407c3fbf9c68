SPECIFICATION SemSpec
CONSTANTS
    t1 = t1
    t2 = t2
    t3 = t3
    t4 = t4
    NULL = NULL
    Boot = Boot
    Tasks <- MCFew
    TaskId <- MCFewId
    BasePrio <- MCFewPrio
    PrioArgs = {}
    MaxTasks = 16
    TickInStartWindow = FALSE
    Users = {t2, t3}
    BootOrder <- MCFewOrder
    InitialCount = 1
    MaxCount = 2
INVARIANTS
    SleepersAreWoken
