SPECIFICATION Spec
CONSTANTS
    js = js
    cpp = cpp
    home = home
    zoomed = zoomed
    b1 = b1
    b2 = b2
    NoCalc = NoCalc
    Local = js
    Remote <- OneRemote
    OwnId <- OneRemote
    Flushing <- OneRemote
    Buffering <- NoRemote
    Hanging <- NoRemote
    Workers <- WorkersOf
    WorkersValue = 3
    Coords <- HomeAndZoomed
    InitialCoords = home
    Blocks <- TwoBlocks
    MaxRepeats = 1
    MaxInputs = 2
    MaxFailures = 1
SYMMETRY BlockSymmetry
INVARIANT TypeOK
INVARIANT PendingIffAborting
INVARIANT RunningIsUnfinished
INVARIANT NothingRunsUnwatched
INVARIANT EveryCalculationEnds
INVARIANT WorkersFitBackend
INVARIANT StartupIsFirst
INVARIANT ScreenIsTrue
PROPERTY EndsOnce
