SPECIFICATION FairSpec
CONSTANTS
    NumBlocks <- TwoThenOne
    WorkerCounts = {2}
    CountWidth = 8
    MaxCalc = 2
    MaxSessions = 2
INVARIANT TypeOK
INVARIANT AnswersAreSound
PROPERTY SessionsEndOrCrash
PROPERTY CalculationsEnd
CHECK_DEADLOCK FALSE
