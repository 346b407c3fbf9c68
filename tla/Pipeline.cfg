SPECIFICATION PipelineFair
CONSTANTS
    a = a
    b = b
    nl = nl
    NULL = NULL
    NL = nl
    Zero = 0
    Bytes <- MCBytes
    PipeSize = 2
    LineSize = 4
    WcBufSize = 2
    TotalMod = 9
    MaxProcs = 6
    Pipes = {1, 2, 3}
    Commands <- MCCommands
INVARIANTS
    ListsExact
    SleepersHaveCause
    OutputRight
PROPERTIES
    ImplementsChannels
    PipelinesEnd
