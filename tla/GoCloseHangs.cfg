SPECIFICATION FairSpec
CONSTANTS
    NumBlocks <- JustTwo
    WorkerCounts <- OneAndTwo
    Capacity = 1
    MaxCalc = 1
PROPERTY CloseReturns
CHECK_DEADLOCK FALSE
