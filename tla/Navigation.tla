----------------------------- MODULE Navigation -----------------------------
(***************************************************************************)
(* How the user moves through the fractal: the requests core.js makes of   *)
(* the rectangles of Mouse, the wheel and the buttons, and the history     *)
(* (history.js) over the session history of the browser.                   *)
(*                                                                         *)
(* Backends is reduced to what is seen here: a request starts at once,     *)
(* waits for the end of the running calculation, or is refused (offline).  *)
(* A place is where a benchmark started and the squares zoomed into since. *)
(* max_n counts tenths, because the wheel leaves fractions.                *)
(***************************************************************************)
EXTENDS Integers, Sequences, FiniteSets

CONSTANTS
    Drawn,          \* what Mouse gives to onMouseRect: first and second pixel
    Benchmarks,     \* the buttons of the benchmarks
    HomeStart,      \* the benchmark whose place is the first one
    MaxNs,          \* values of store.max_n, in tenths
    BenchmarkMaxN,  \* the one benchmarks set
    MaxIds,         \* bound: history entries pushed
    MaxZooms,       \* bound: zooms into one another
    NoData          \* null

ASSUME NavigationAssumption ==
    /\ Drawn \subseteq (Int \X Int) \X (Int \X Int)
    /\ HomeStart \in Benchmarks
    /\ MaxNs \subseteq Nat /\ BenchmarkMaxN \in MaxNs
    /\ MaxIds \in Nat /\ MaxZooms \in Nat
    /\ NoData \notin 1..MaxIds

VARIABLES
    maxN,           \* store.max_n
    entries,        \* the session history; "place" is a history variable
    position,       \* the current entry
    historyData,    \* this.historyData
    currentHistoryId,
    nextId,         \* Date.now(), which goes on when the page is loaded again
    busy,           \* a calculation is running or being aborted
    current,        \* currenctCalculation; its place is store.coordinates
    request,        \* requestedCalculation, while busy
    shown           \* history: the entry whose place is on the screen

historyVars == <<entries, historyData, currentHistoryId, nextId>>
calculationVars == <<busy, current, request, shown>>
navigationVars == <<maxN, position, historyVars, calculationVars>>

EntryIds == 1..MaxIds
Home == [start |-> HomeStart, zooms |-> <<>>]
NoEntry == [id |-> NoData, place |-> Home]

\* The parameters of a request.  History variables: the entry gone back to, and
\* the place it was pushed for.
Parameters(kind, place, max_n, entry, pushed) ==
    [kind |-> kind, place |-> place, max_n |-> max_n,
     entry |-> entry, pushed |-> pushed]
Nothing == Parameters("none", Home, BenchmarkMaxN, NoData, Home)

NavigationInit ==
    /\ maxN \in MaxNs
    /\ entries = <<NoEntry>> /\ position = 1
    /\ historyData = <<>> /\ currentHistoryId = NoData /\ nextId = 1
    /\ busy = FALSE /\ current = Nothing /\ request = NoData
    /\ shown = NoData

-----------------------------------------------------------------------------
(* Starting a calculation: onBeforeStart of the three kinds.               *)

\* What pushHistory() collects when the calculation starts.
HistoryRecord(r) == [place |-> r.place, max_n |-> maxN']

Push(r) ==
    /\ nextId \in EntryIds
    /\ nextId' = nextId + 1
    /\ currentHistoryId' = nextId
    /\ historyData' = [id \in DOMAIN historyData \cup {nextId} |->
          IF id = nextId THEN HistoryRecord(r) ELSE historyData[id]]
    /\ entries' = Append(SubSeq(entries, 1, position), [id |-> nextId, place |-> r.place])
    /\ position' = position + 1
    /\ shown' = nextId

\* Mutant of UpdatedEntry: all that store holds is written.
UpdatedWhole(entry, r) == [place |-> r.place, max_n |-> r.max_n]

\* update({max_n})
UpdatedEntry(entry, r) == [entry EXCEPT !.max_n = r.max_n]

\* It is the entry pushed last that is updated.  With nothing pushed, update()
\* throws: START is not sent, but all is as if.
Update(r) ==
    /\ historyData' = IF currentHistoryId = NoData THEN historyData
                      ELSE [historyData EXCEPT ![currentHistoryId] = UpdatedEntry(@, r)]
    /\ UNCHANGED <<entries, position, currentHistoryId, nextId, shown>>

\* p is the position in the session history.
Begin(r, p) ==
    /\ busy' = TRUE /\ current' = r /\ request' = NoData
    /\ \/ r.kind = "push" /\ Push(r)
       \/ r.kind = "max_n" /\ Update(r) /\ position' = p
       \/ r.kind = "back" /\ shown' = r.entry /\ position' = p /\ UNCHANGED historyVars

\* requestCalculation: it starts, is refused, or replaces one that waits.
Submit(r, p) ==
    \/ ~busy /\ Begin(r, p)
    \/ ~busy /\ position' = p /\ UNCHANGED <<historyVars, calculationVars>>
    \/ /\ busy /\ request' = r /\ position' = p
       /\ UNCHANGED <<historyVars, busy, current, shown>>

\* COMPLETED or ABORTED; the request that waited starts or is refused.
End ==
    /\ busy
    /\ UNCHANGED maxN
    /\ \/ request # NoData /\ Begin(request, position)
       \/ /\ busy' = FALSE /\ request' = NoData
          /\ UNCHANGED <<position, historyVars, current, shown>>

-----------------------------------------------------------------------------
(* The requests.                                                           *)

\* asRectWithAspectRatio, with the ratio 768 / 768.
AsRect(first, second) ==
    LET Abs(i) == IF i < 0 THEN -i ELSE i
        dx0 == second[1] - first[1]
        dy0 == second[2] - first[2]
        d == IF Abs(dx0) > Abs(dy0) THEN dx0 ELSE dy0
        Low(c) == IF d < 0 THEN c + d ELSE c IN
    [x |-> Low(first[1]), y |-> Low(first[2]), dx |-> Abs(d), dy |-> Abs(d)]

\* startFromZoom, from the coordinates of the calculation started last.
Zoomed(rect) ==
    Parameters("push", [current.place EXCEPT !.zooms = Append(@, rect)], maxN, NoData, Home)

Zoom(first, second) ==
    /\ Len(current.place.zooms) < MaxZooms
    /\ UNCHANGED maxN
    /\ Submit(Zoomed(AsRect(first, second)), position)

\* Math.round of tenths.
Rounded(n) == ((n + 5) \div 10) * 10

\* The wheel over max_n: startFromNewMaxN.
NewMaxN(n) ==
    /\ maxN' = n
    /\ Submit(Parameters("max_n", current.place, Rounded(n), NoData, Home), position)

StartBenchmark(b) ==
    /\ maxN' = BenchmarkMaxN
    /\ Submit(Parameters("push", [start |-> b, zooms |-> <<>>], BenchmarkMaxN, NoData, Home),
              position)

\* Another tab changes max_n in localStorage.
OtherTab(n) ==
    /\ maxN' = n
    /\ UNCHANGED <<position, historyVars, calculationVars>>

\* startFromHistory
FromHistory(entry) ==
    LET data == historyData[entry.id] IN
    Parameters("back", data.place, data.max_n, entry.id, entry.place)

\* onpopstate: entries without data are passed over.
PopState(p) ==
    /\ p \in DOMAIN entries \ {position}
    /\ \/ /\ entries[p].id \in DOMAIN historyData
          /\ Submit(FromHistory(entries[p]), p)
       \/ /\ entries[p].id \notin DOMAIN historyData
          /\ position' = p /\ UNCHANGED <<historyVars, calculationVars>>
    /\ UNCHANGED maxN

\* Mutant of IdAfterLoad: the ids are counted by the page.
IdsRestart == 1

IdAfterLoad == nextId

\* The page is loaded again: the session history stays.
Reload ==
    /\ historyData' = <<>> /\ currentHistoryId' = NoData /\ nextId' = IdAfterLoad
    /\ busy' = FALSE /\ current' = Nothing /\ request' = NoData /\ shown' = NoData
    /\ UNCHANGED <<maxN, entries, position>>

NavigationNext ==
    \/ End
    \/ \E pair \in Drawn : Zoom(pair[1], pair[2])
    \/ \E n \in MaxNs : NewMaxN(n) \/ OtherTab(n)
    \/ \E b \in Benchmarks : StartBenchmark(b)
    \/ \E p \in DOMAIN entries : PopState(p)
    \/ Reload

NavigationSpec == NavigationInit /\ [][NavigationNext]_navigationVars

-----------------------------------------------------------------------------
(* Properties.                                                             *)

Place == [start : Benchmarks, zooms : Seq([x : Int, y : Int, dx : Nat, dy : Nat])]

ParametersOK(r) ==
    /\ r.kind \in {"none", "push", "max_n", "back"}
    /\ r.place \in Place /\ r.max_n \in Nat
    /\ r.entry \in EntryIds \cup {NoData} /\ r.pushed \in Place

\* Places are squares of squares, so one delta would do for both axes (the Go
\* server exchanges them).
Square(place) == \A i \in DOMAIN place.zooms : place.zooms[i].dx = place.zooms[i].dy

NavigationTypeOK ==
    /\ maxN \in MaxNs
    /\ position \in DOMAIN entries
    /\ \A p \in DOMAIN entries : entries[p].id \in EntryIds \cup {NoData} /\ entries[p].place \in Place
    /\ \A id \in DOMAIN historyData : historyData[id].place \in Place /\ historyData[id].max_n \in Nat
    /\ currentHistoryId \in DOMAIN historyData \cup {NoData}
    /\ nextId \in EntryIds \cup {MaxIds + 1}
    /\ busy \in BOOLEAN
    /\ ParametersOK(current) /\ Square(current.place)
    /\ request # NoData => busy /\ ParametersOK(request) /\ Square(request.place)
    /\ shown \in EntryIds \cup {NoData}

\* Back and forward request the place that was on the screen when the entry of
\* the browser's history was made, after loading the page again or not, and
\* whatever was updated meanwhile.
BackShowsWhatWasPushed ==
    \A r \in {current} \cup ({request} \ {NoData}) :
        r.kind = "back" => r.place = r.pushed

\* "Update history, some operations (change of max_n), does not push history but
\* updates the current" (history.js:27): once max_n is changed, the record of the
\* entry shown has the max_n that the picture is calculated with, so that going
\* away and back shows the same.
MaxNUpdatesTheCurrent ==
    current.kind = "max_n" /\ shown # NoData =>
        historyData[shown].max_n = current.max_n
=============================================================================
