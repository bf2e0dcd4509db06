SPECIFICATION FairSpec
CONSTANTS
    js = js
    cpp = cpp
    home = home
    zoomed = zoomed
    b1 = b1
    b2 = b2
    NoCalc = NoCalc
    Local = js
    Remote <- OneRemote
    OwnId <- OneRemote
    Flushing <- OneRemote
    Buffering <- OneRemote
    Hanging <- OneRemote
    Workers <- WorkersOf
    WorkersValue = 3
    Coords = {home}
    InitialCoords = home
    Blocks <- OneBlock
    MaxRepeats = 1
    MaxInputs = 2
    MaxFailures = 2
PROPERTY CalculationEnds
PROPERTY SelectedRecovers
CHECK_DEADLOCK FALSE
