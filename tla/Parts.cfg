SPECIFICATION PartsSpec
CONSTANTS
    NumBlocks = 2
    WorkerCounts <- FewAndMany
    MaxCalc = 3
    Tabs = {"tab1", "tab2"}
    LastOption = 2
    DefaultOption = 2
    MaxSteps = 3
    DefaultSteps = 2
    BenchmarkSteps = {1}
    Unset = Unset
    Unknown = Unknown
    Points <- ThreePoints
    Outside = Outside
    Null = Null
    Drawn <- RectAndClick
    Benchmarks = {"00"}
    HomeStart = "00"
    MaxNs = {13, 20}
    BenchmarkMaxN = 20
    MaxIds = 2
    MaxZooms = 1
    NoData = NoData
    Results = {"r1", "r2", "r3"}
    ResultOf <- ThreeResults
    WorkersFilters = {1}
    BenchmarkFilters = {"12"}
    Keys = {"cpp", "go"}
    MaxRegistrations = 3
    Screens <- TwoScreens
    BlockSizes <- SmallBlocks
    Lists <- AllLists
    Scales = {400, 504, 8063, 99000, 100000}
    Offsets = {0, 3, 10}
    MinDepths = {0, 7}
    Depths = {0, 1, 6, 7, 255, 999}
    Shifts = {0, 5}
    DepthModulus = 1000
    MaxDepth = 11
    MaxPixels = 1
    Buckets = 4
    Part = 3
    Whole = 4
INVARIANT PartsTypeOK
INVARIANT AnswersAreSound
INVARIANT TabsAgree
INVARIANT DownIsHeld
INVARIANT BackShowsWhatWasPushed
INVARIANT TopListIsCurrent
INVARIANT BlocksTile
INVARIANT EveryColorShows
INVARIANT PlotAddress
PROPERTY LateAnswersAreIgnored
PROPERTY ImplementsService
PROPERTY CalculationsEnd
PROPERTY OfflineIsNoticed
PROPERTY HistogramEnds
CHECK_DEADLOCK FALSE
