SPECIFICATION SemFairSpec
CONSTANTS
    t1 = t1
    t2 = t2
    t3 = t3
    t4 = t4
    NULL = NULL
    Boot = Boot
    Tasks <- MCTasks
    TaskId <- MCTaskId
    BasePrio <- MCBasePrio
    PrioArgs = {}
    MaxTasks = 16
    TickInStartWindow = FALSE
    Users = {t2, t3, t4}
    BootOrder <- MCOrder
    InitialCount = 1
    MaxCount = 2
INVARIANTS
    NoIdleUnits
PROPERTIES
    ImplementsSemaphore
    Served
