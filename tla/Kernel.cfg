SPECIFICATION Spec
CONSTANTS
    t1 = t1
    t2 = t2
    t3 = t3
    t4 = t4
    NULL = NULL
    Boot = Boot
    Tasks <- MCTasks
    TaskId <- MCTaskId
    BasePrio <- MCBasePrio
    PrioArgs = {1, 3}
    MaxTasks = 3
    TickInStartWindow = FALSE
INVARIANTS
    KernelInv
    ReadyListExact
    ContextsIntact
PROPERTIES
    DispatchesHighest
CHECK_DEADLOCK FALSE
