SPECIFICATION EthFairSpec
CONSTANTS
    RxDescs = 2
    TxDescs = 1
    SkipBudget = 2
    Timeout = 1
    MaxRx = 3
    MaxTx = 2
    MaxInits = 1
INVARIANTS
    FramesInOrder
PROPERTIES
    BufferStableInTime
    GoodFramesArrive
    AcceptedAreSent
