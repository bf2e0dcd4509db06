SPECIFICATION NavigationSpec
CONSTANTS
    Drawn <- OneRectangle
    Benchmarks = {"00"}
    HomeStart = "00"
    MaxNs = {20, 30}
    BenchmarkMaxN = 20
    MaxIds = 2
    MaxZooms = 1
    NoData = NoData
INVARIANT MaxNUpdatesTheCurrent
CHECK_DEADLOCK FALSE
