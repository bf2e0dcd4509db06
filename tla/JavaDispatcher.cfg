SPECIFICATION FairSpec
CONSTANTS
    NumBlocks = 2
    WorkerCounts <- Two
    MaxCalc = 2
    MaxSessions = 2
INVARIANT TypeOK
INVARIANT AnswersAreSound
PROPERTY NothingAfterAborted
PROPERTY CalculationsEnd
CHECK_DEADLOCK FALSE
