SPECIFICATION MutexSpec
CONSTANTS
    t1 = t1
    t2 = t2
    t3 = t3
    t4 = t4
    m1 = m1
    m2 = m2
    NULL = NULL
    Boot = Boot
    Tasks <- MCTasks
    TaskId <- MCTaskId
    BasePrio <- MCBasePrio
    PrioArgs = {}
    MaxTasks = 16
    TickInStartWindow = FALSE
    Mutexes = {m1}
    Users = {t2, t3, t4}
    Sleepers = {t2, t3, t4}
    BootOrder <- MCOrder
INVARIANTS
    HoldersOwn
    PrioritiesRight
PROPERTIES
    NoInversion
