SPECIFICATION Spec
CONSTANTS
    c1 = c1
    c2 = c2
    NoCard = NoCard
    Cards <- MCCards
    HighCapacity <- MCHigh
    Blocks <- MCBlocks
    Data = {0, 1}
    Zero = 0
    Junk = Junk
    BlockSize = 2
    RetryMax = 2
    AcmdTries = 2
    ReadyPolls = 2
    MaxFaults = 2
    MaxSwaps = 2
CONSTRAINT KindsRight
INVARIANTS
    BlocksAsWritten
    ReadsRight
    FaultsMasked
