------------------------------ MODULE MCParts ------------------------------
(***************************************************************************)
(* The parts of the system that share no state, for TLC in one run: the    *)
(* first state chooses a part, and only that part moves.  The others stay  *)
(* in one state, in which nothing fair is enabled.                         *)
(***************************************************************************)
EXTENDS WebDispatcher, Settings, Mouse, Navigation, TopList, Registry,
        BlockGrid, Colors, Histogram, C64Plot

-----------------------------------------------------------------------------
(* Values of the constants.                                                *)

\* Fewer workers than blocks, as many, and more.
FewAndMany == {1, 2, 3}

\* A rectangle drawn up and to the left, and a click.
RectAndClick == {<<<<2, 1>>, <<0, 0>>>>, <<<<2, 1>>, <<2, 1>>>>}

ThreePoints == {<<0, 0>>, <<2, 1>>, <<1, 3>>}

\* Two results of one machine with other workers, one of another machine.
ThreeResults ==
    [r1 |-> [machine |-> "a", workers |-> 4, benchmark |-> "12", speed |-> 1, worker_speed |-> 2],
     r2 |-> [machine |-> "a", workers |-> 1, benchmark |-> "12", speed |-> 4, worker_speed |-> 8],
     r3 |-> [machine |-> "b", workers |-> 4, benchmark |-> "01", speed |-> 16, worker_speed |-> 32]]

\* Sizes that divide the screens and sizes that do not.
TwoScreens == {<<2, 3>>, <<4, 2>>}
SmallBlocks == (1..4) \X (1..3)

\* The options of the input for colors.
C64List == <<"eef493", 1, "a8654a", 1, "7ccb8e", 1, "000000", 1, "eef493">>
WhiteRedList == <<"101010", 64, "ffffff", 64, "ff0000", 24, "101010">>
RainbowList == <<"9400d3", 32, "4b0082", 32, "0000ff", 32, "00ff00", 32, "ffff00", 32,
                 "ff7f00", 32, "ff0000", 32, "9400d3">>
AllLists == {C64List, WhiteRedList, RainbowList}

-----------------------------------------------------------------------------
VARIABLE part

Parts == {"web", "settings", "mouse", "navigation", "toplist",
          "registry", "grid", "colors", "histogram", "plot"}

PartsInit ==
    /\ part \in Parts
    /\ Init
    /\ SettingsInit
    /\ part # "settings" => storedOption = Unset /\ storedValue = Unset
    /\ MouseInit
    /\ NavigationInit
    /\ part # "navigation" => maxN = BenchmarkMaxN
    /\ TopListInit
    /\ part # "toplist" => database = {}
    /\ RegistryInit
    /\ GridInit
    /\ part # "grid" => screenSize = <<2, 3>> /\ blockSize = <<2, 3>>
    /\ ColorsInit
    /\ part # "colors" => gradients = Parse(C64List) /\ scaleLength = 400 /\ offset = 0
    /\ HistogramInit
    /\ part # "histogram" => pixels = [d \in 0..MaxDepth |-> 0]
    /\ PlotInit

WebMoves ==
    /\ part = "web" /\ Next
    /\ UNCHANGED <<part, settingsVars, mouseVars, navigationVars, topListVars,
                   registryVars, gridVars, colorVars, histogramVars, plotVars>>

SettingsMoves ==
    /\ part = "settings" /\ SettingsNext
    /\ UNCHANGED <<part, vars, mouseVars, navigationVars, topListVars,
                   registryVars, gridVars, colorVars, histogramVars, plotVars>>

MouseMoves ==
    /\ part = "mouse" /\ MouseNext
    /\ UNCHANGED <<part, vars, settingsVars, navigationVars, topListVars,
                   registryVars, gridVars, colorVars, histogramVars, plotVars>>

NavigationMoves ==
    /\ part = "navigation" /\ NavigationNext
    /\ UNCHANGED <<part, vars, settingsVars, mouseVars, topListVars,
                   registryVars, gridVars, colorVars, histogramVars, plotVars>>

ToplistMoves ==
    /\ part = "toplist" /\ TopListNext
    /\ UNCHANGED <<part, vars, settingsVars, mouseVars, navigationVars,
                   registryVars, gridVars, colorVars, histogramVars, plotVars>>

RegistryMoves ==
    /\ part = "registry" /\ RegistryNext
    /\ UNCHANGED <<part, vars, settingsVars, mouseVars, navigationVars,
                   topListVars, gridVars, colorVars, histogramVars, plotVars>>

GridMoves ==
    /\ part = "grid" /\ GridNext
    /\ UNCHANGED <<part, vars, settingsVars, mouseVars, navigationVars,
                   topListVars, registryVars, colorVars, histogramVars, plotVars>>

ColorsMoves ==
    /\ part = "colors" /\ ColorsNext
    /\ UNCHANGED <<part, vars, settingsVars, mouseVars, navigationVars,
                   topListVars, registryVars, gridVars, histogramVars, plotVars>>

HistogramMoves ==
    /\ part = "histogram" /\ HistogramNext
    /\ UNCHANGED <<part, vars, settingsVars, mouseVars, navigationVars,
                   topListVars, registryVars, gridVars, colorVars, plotVars>>

PlotMoves ==
    /\ part = "plot" /\ PlotNext
    /\ UNCHANGED <<part, vars, settingsVars, mouseVars, navigationVars,
                   topListVars, registryVars, gridVars, colorVars, histogramVars>>

PartsNext ==
    \/ WebMoves
    \/ SettingsMoves
    \/ MouseMoves
    \/ NavigationMoves
    \/ ToplistMoves
    \/ RegistryMoves
    \/ GridMoves
    \/ ColorsMoves
    \/ HistogramMoves
    \/ PlotMoves

partsVars == <<part, vars, settingsVars, mouseVars, navigationVars, topListVars,
               registryVars, gridVars, colorVars, histogramVars, plotVars>>

PartsSpec ==
    /\ PartsInit /\ [][PartsNext]_partsVars
    /\ Fairness /\ RegistryFairness /\ HistogramFairness

-----------------------------------------------------------------------------
(* Properties.                                                             *)

\* Each part keeps its types, and what its type invariant says of the counts
\* and lists it keeps beside what they count.
PartsTypeOK ==
    /\ part \in Parts
    /\ TypeOK /\ SettingsTypeOK /\ MouseTypeOK /\ NavigationTypeOK /\ TopListTypeOK
    /\ RegistryTypeOK /\ GridTypeOK /\ ColorsTypeOK /\ HistogramTypeOK /\ PlotTypeOK
=============================================================================
