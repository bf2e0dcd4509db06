------------------------------ MODULE TopList ------------------------------
(***************************************************************************)
(* The top list of benchmarks (benchmark.js): results are read from the    *)
(* data base once, results of this page are added, and the list is made    *)
(* anew when there is something new in it.  Its type and its filters are   *)
(* persistent properties, which other tabs may change unnoticed.           *)
(*                                                                         *)
(* The list is a set of rows, each with the sum and the count its average  *)
(* is made of; sorting them and scaling them to 100 is left out.           *)
(***************************************************************************)
EXTENDS Integers, FiniteSets, FiniteSetsExt

CONSTANTS
    Results,        \* ids of the results there may ever be
    ResultOf,       \* id -> [machine, workers, benchmark, speed, worker_speed]
    WorkersFilters, \* the workers filters, without "off"
    BenchmarkFilters \* the benchmark filters, without "off"

Machines == {ResultOf[id].machine : id \in Results}

ASSUME TopListAssumption ==
    \A id \in Results :
        /\ ResultOf[id].workers \in Nat \ {0}
        /\ ResultOf[id].speed \in Nat /\ ResultOf[id].worker_speed \in Nat

Off == "off"
AnyWorkers == 0     \* "off" parsed as a number, or null
Types == {"speed", "worker*speed"}
Filters == [type : Types, workers : WorkersFilters \cup {AnyWorkers},
            benchmark : BenchmarkFilters \cup {Off}]
DefaultFilters == [type |-> "speed", workers |-> AnyWorkers, benchmark |-> Off]

VARIABLES
    database,       \* results the table holds
    scan,           \* "asked", "answered" or "failed"
    items,          \* this.items
    filters,        \* store.top_list_type, workers_filter, benchmark_filter
    topList,        \* store.top_list
    rows,           \* the table on the page, with the template it was made of
    saved,          \* history: results of this page
    passed          \* history: another tab changed filters since topList was made

topListVars == <<database, scan, items, filters, topList, rows, saved, passed>>

TopListInit ==
    /\ database \in SUBSET Results
    /\ scan = "asked" /\ items = {} /\ filters = DefaultFilters
    /\ topList = {} /\ rows = [type |-> "none", list |-> {}]
    /\ saved = {} /\ passed = FALSE

-----------------------------------------------------------------------------

Passes(id, f) ==
    /\ f.benchmark \in {Off, ResultOf[id].benchmark}
    /\ f.workers \in {AnyWorkers, ResultOf[id].workers}

\* groupKeyCreator
GroupKey(id, f) ==
    [machine |-> ResultOf[id].machine,
     workers |-> IF f.type = "speed" THEN ResultOf[id].workers ELSE AnyWorkers]

SpeedOf(id, f) ==
    IF f.type = "speed" THEN ResultOf[id].speed ELSE ResultOf[id].worker_speed

\* itemsAggregate, of one group.
Row(key, group, f) ==
    [key |-> key, count |-> Cardinality(group),
     sum |-> MapThenSumSet(LAMBDA id : SpeedOf(id, f), group)]

ListOf(its, f) ==
    LET passing == {id \in its : Passes(id, f)} IN
    {Row(key, {id \in passing : GroupKey(id, f) = key}, f) :
        key \in {GroupKey(id, f) : id \in passing}}

\* calculateTopList, and the subscriber that renders it.
CalculateTopList ==
    /\ topList' = ListOf(items', filters')
    /\ rows' = [type |-> filters'.type, list |-> topList']
    /\ passed' = FALSE

\* Mutant of Merged: what the scan found replaces what there is.
OnlyFound(its, found) == found

Merged(its, found) == its \cup found

\* The scan may miss what was put lately.
ScanAnswers(found) ==
    /\ scan = "asked"
    /\ scan' = "answered"
    /\ items' = Merged(items, found)
    /\ UNCHANGED <<database, filters, saved>>
    /\ CalculateTopList

ScanFails ==
    /\ scan = "asked"
    /\ scan' = "failed"
    /\ UNCHANGED <<database, items, filters, topList, rows, saved, passed>>

\* saveBenchmark, from onCompleted of core.js; putItem may fail.
SaveBenchmark(id, put) ==
    /\ id \notin items \cup database
    /\ items' = items \cup {id}
    /\ saved' = saved \cup {id}
    /\ database' = IF put THEN database \cup {id} ELSE database
    /\ UNCHANGED <<scan, filters>>
    /\ CalculateTopList

\* An input changes one filter; onStoreChange looks whether it did change.
SetFilters(f) ==
    /\ Cardinality({k \in DOMAIN f : f[k] # filters[k]}) = 1
    /\ filters' = f
    /\ UNCHANGED <<database, scan, items, saved>>
    /\ CalculateTopList

\* Another tab changes filters in localStorage, and the page hears nothing.
OtherTabFilters(f) ==
    /\ f # filters
    /\ filters' = f /\ passed' = TRUE
    /\ UNCHANGED <<database, scan, items, topList, rows, saved>>

ReloadTopList ==
    /\ scan' = "asked" /\ items' = {} /\ topList' = {} /\ saved' = {}
    /\ rows' = [type |-> "none", list |-> {}] /\ passed' = FALSE
    /\ UNCHANGED <<database, filters>>

TopListNext ==
    \/ \E found \in SUBSET database : ScanAnswers(found)
    \/ ScanFails
    \/ \E id \in Results, put \in BOOLEAN : SaveBenchmark(id, put)
    \/ \E f \in Filters : SetFilters(f) \/ OtherTabFilters(f)
    \/ ReloadTopList

TopListSpec == TopListInit /\ [][TopListNext]_topListVars

-----------------------------------------------------------------------------
(* Properties.                                                             *)

TopListTypeOK ==
    /\ database \subseteq Results /\ items \subseteq Results
    /\ scan \in {"asked", "answered", "failed"}
    /\ filters \in Filters
    /\ rows.type \in Types \cup {"none"}
    /\ saved \subseteq items
    /\ passed \in BOOLEAN

\* Unless another tab changed the filters, the table shows each result known
\* that passes them in one row, of the group it belongs to, the results of this
\* page included, whether the scan answers before or after they are saved.
TopListIsCurrent ==
    ~passed =>
        /\ rows.list = topList
        /\ rows.type \in {"none", filters.type}
        /\ \A row \in topList : row.key.workers = AnyWorkers <=> filters.type # "speed"
        /\ \A machine \in Machines :
              LET shownRows == {row \in topList : row.key.machine = machine}
                  counted == {id \in items \cup saved :
                                 ResultOf[id].machine = machine /\ Passes(id, filters)} IN
              /\ MapThenSumSet(LAMBDA row : row.count, shownRows) = Cardinality(counted)
              /\ MapThenSumSet(LAMBDA row : row.sum, shownRows)
                    = MapThenSumSet(LAMBDA id : SpeedOf(id, filters), counted)
=============================================================================
