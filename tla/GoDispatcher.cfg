SPECIFICATION FairSpec
CONSTANTS
    NumBlocks <- TwoThenOne
    WorkerCounts <- Two
    Capacity = 1
    MaxCalc = 2
INVARIANT TypeOK
INVARIANT AnswersAreSound
PROPERTY PostedInOrder
PROPERTY CalculationsEnd
CHECK_DEADLOCK FALSE
