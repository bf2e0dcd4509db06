SPECIFICATION Spec
CONSTANTS
    js = js
    cpp = cpp
    home = home
    zoomed = zoomed
    b1 = b1
    b2 = b2
    NoCalc = NoCalc
    Local = js
    Remote <- OneRemote
    OwnId <- NoRemote
    Flushing <- NoRemote
    Buffering <- NoRemote
    Hanging <- NoRemote
    Workers <- WorkersOf
    WorkersValue = 3
    Coords <- HomeAndZoomed
    InitialCoords = home
    Blocks <- OneBlock
    MaxRepeats = 0
    MaxInputs = 2
    MaxFailures = 0
INVARIANT MaxNRecalculates
