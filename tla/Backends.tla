------------------------------ MODULE Backends ------------------------------
(***************************************************************************)
(* The controller of the frak client (src/web/backends.js, with the parts  *)
(* of core.js, store.js, history.js and main.js it drives): it owns one    *)
(* calculation at a time, on one of several backends, and turns requests   *)
(* of the user into START and ABORT messages and answers of the backends   *)
(* into the screen and the state the user sees.                            *)
(*                                                                         *)
(* The browser runs one handler at a time, so a handler is one action.     *)
(* What interleaves are the handlers themselves: user input, timers and    *)
(* the messages of every backend, each of which has a FIFO channel in each *)
(* direction.  A backend is modelled by what the client can observe of it; *)
(* the dispatchers have modules of their own.                              *)
(***************************************************************************)
EXTENDS Naturals, Sequences, FiniteSets

CONSTANTS
    Local,          \* the backend in a web worker of the page (LocalBackend)
    Remote,         \* the backends behind a WebSocket (RemoteBackend)
    OwnId,          \* backends that answer ABORT with the id they last started
    Flushing,       \* backends that may send queued messages after ABORTED
    Buffering,      \* backends that look at what is left over of a receive
                    \* only when more has arrived
    Hanging,        \* backends that may accept nobody after a lost connection
    Workers,        \* Workers[b]: number of workers backend b has
    WorkersValue,   \* store.workers_value, the number the user asked for
    Coords,         \* places in the complex plane (x0/y0 start and delta)
    InitialCoords,  \* store.coordinates before the first calculation
    Blocks,         \* the blocks a calculation is split into
    NoCalc,         \* null, of requestedCalculation and currenctCalculation
    MaxInputs,      \* bound on the number of user inputs
    MaxRepeats,     \* bound on the ids that createId() gives twice
    MaxFailures     \* bound on refused and lost connections

Backend == {Local} \cup Remote

Waiting == {"waiting-startup", "waiting-offline",
            "waiting-completed", "waiting-aborted"}

CalculationState == Waiting \cup {"calculating", "aborting"}

BackendState == {"online", "connecting", "offline"}

ASSUME BackendsAssumption ==
    /\ Local \notin Remote
    /\ OwnId \subseteq Remote
    /\ Flushing \subseteq Remote
    /\ Buffering \subseteq Remote
    /\ Hanging \subseteq Remote
    /\ Workers \in [Backend -> Nat \ {0}]
    /\ WorkersValue \in Nat \ {0}
    /\ InitialCoords \in Coords
    /\ MaxInputs \in Nat
    /\ MaxRepeats \in Nat
    /\ MaxFailures \in Nat

VARIABLES
    state,              \* store.state
    requested,          \* requestedCalculation
    current,            \* currenctCalculation
    lastId,             \* the id createId() returned last
    repeats,            \* history: how often it was the one before again
    completed,          \* history: ids onCompleted was called back with
    aborted,            \* history: ids onAborted was called back with
    coordinates,        \* store.coordinates
    screen,             \* the pixels of the screen, by block
    history,            \* coordinates pushed on the browser's history
    startup,            \* has window.init started the first calculation?
    selected,           \* selectedBackend (store.backend)
    backendState,       \* backend.state
    maxWorkers,         \* backend.max_workers
    storeBackendState,  \* store.backend_state
    storeMaxWorkers,    \* store.max_workers
    conn,               \* readyState of each backend's connection
    toServer,           \* messages from the client to each backend
    toClient,           \* messages from each backend to the client
    server,             \* what each backend is doing
    inputs,             \* number of user inputs so far
    failures            \* number of connection failures so far

calcVars    == <<state, requested, current, lastId, repeats>>
endVars     == <<completed, aborted>>
viewVars    == <<coordinates, screen, history>>
backendVars == <<selected, backendState, maxWorkers>>
mirrorVars  == <<storeBackendState, storeMaxWorkers>>
bounds      == <<inputs, failures>>

vars == <<calcVars, endVars, viewVars, startup, backendVars, mirrorVars,
          conn, toServer, toClient, server, bounds>>

-----------------------------------------------------------------------------
(* Data: requests, calculations, messages, pixels and backends.            *)

\* A request is told apart by what its onBeforeStart does: "zoom" (also the
\* benchmarks) pushes history, "max_n" updates it, "back" leaves it alone.
Request == [kind : {"zoom", "max_n", "back"}, coords : Coords]

\* The times of a calculation matter only by whether they are set.
Calculation == [kind : {"zoom", "max_n", "back"}, coords : Coords,
                id : Nat \ {0}, backend : Backend, workers : Nat \ {0},
                startTime : BOOLEAN, abortTime : BOOLEAN,
                completeTime : BOOLEAN]

StartMsg == [op : {"START"}, id : Nat \ {0}, coords : Coords,
             workers : Nat \ {0}]

AbortMsg == [op : {"ABORT"}, id : Nat]

\* CLOSE stands for the close event of the connection.
ControlMsg == [op : {"CONFIG"}, max_workers : Nat \ {0}] \cup [op : {"CLOSE"}]

BlockMsg == [op : {"BLOCK_STARTED", "BLOCK_COMPLETED"}, id : Nat \ {0},
             coords : Coords, block : Blocks]

EndMsg == [op : {"COMPLETED", "ABORTED"}, id : Nat]

Answer == BlockMsg \cup EndMsg

NotCalculated == [value |-> "not calculated"]
Calculating == [value |-> "calculating"]
Calculated(id, coords) ==
    [value |-> "calculated", id |-> id, coords |-> coords]

Pixels == {NotCalculated, Calculating}
          \cup [value : {"calculated"}, id : Nat \ {0}, coords : Coords]

Server == [calc : StartMsg \cup {NoCalc}, waiting : SUBSET Blocks,
           running : SUBSET Blocks, phase : {"idle", "calculating", "flushing"},
           kept : Nat, dead : BOOLEAN]

\* null is none of the records it stands in for.
ASSUME NoCalcAssumption == NoCalc \notin Request \cup Calculation \cup StartMsg

\* kept is the number of messages received and left in the server's buffer;
\* a dead server accepts nobody any more.
NewSession ==
    [calc |-> NoCalc, waiting |-> {}, running |-> {}, phase |-> "idle",
     kept |-> 0, dead |-> FALSE]

\* connection.send and postMessage: what is sent on a connection that is
\* not open is lost.
Send(b, msg) ==
    toServer' = IF conn[b] = "open"
                THEN [toServer EXCEPT ![b] = Append(@, msg)]
                ELSE toServer

Receive(b, op) ==
    /\ toClient[b] # <<>>
    /\ Head(toClient[b]).op = op
    /\ toClient' = [toClient EXCEPT ![b] = Tail(@)]

\* Mutants of IsCurrent: any answer, or (a string against a number) none.
AnyCurrent(id) == current # NoCalc

NeverCurrent(id) == FALSE

IsCurrent(id) == current # NoCalc /\ current.id = id

-----------------------------------------------------------------------------
(* handleCalculationState and start.  They are called at the end of other  *)
(* handlers, so they read the selected backend and the store primed and    *)
(* take the state and calculation those handlers leave as parameters.      *)

\* Mutant of WorkerCount: the count before this handler's update.
StaleWorkerCount ==
    IF storeMaxWorkers < WorkersValue THEN storeMaxWorkers ELSE WorkersValue

WorkerCount ==
    IF storeMaxWorkers' < WorkersValue THEN storeMaxWorkers' ELSE WorkersValue

\* createId() is the time in milliseconds: two calculations that start in the
\* same millisecond have the same id.
Repeats ==
    {repeats} \cup (IF lastId > 0 /\ repeats < MaxRepeats THEN {repeats + 1} ELSE {})

NewId == IF repeats' = repeats THEN lastId + 1 ELSE lastId

\* history.update() throws if nothing was ever pushed.
BeforeStartThrows(req) == req.kind = "max_n" /\ history = {}

\* onBeforeStart: screen.clear() or screen.clearInProgress().
ScreenBeforeStart(req) ==
    [blk \in Blocks |-> IF req.kind = "max_n" /\ screen[blk] # Calculating
                        THEN screen[blk]
                        ELSE NotCalculated]

Start(req) ==
    LET id == NewId IN
    /\ repeats' \in Repeats
    /\ state' = "calculating"
    /\ requested' = NoCalc
    /\ lastId' = id
    /\ current' = [kind |-> req.kind, coords |-> req.coords, id |-> id,
                   backend |-> selected', workers |-> WorkerCount,
                   startTime |-> ~BeforeStartThrows(req),
                   abortTime |-> FALSE, completeTime |-> FALSE]
    /\ coordinates' = req.coords
    /\ screen' = ScreenBeforeStart(req)
    /\ history' = IF req.kind = "zoom" THEN history \cup {req.coords}
                                       ELSE history
    /\ IF BeforeStartThrows(req)
       THEN UNCHANGED toServer
       ELSE Send(selected', [op |-> "START", id |-> id, coords |-> req.coords,
                             workers |-> WorkerCount])

\* Mutant of ForgetRequest: the request is not forgotten.
KeepRequest(calc, req) ==
    /\ state' = "waiting-offline"
    /\ requested' = req
    /\ current' = calc
    /\ UNCHANGED <<lastId, repeats, viewVars, toServer>>

ForgetRequest(calc, req) ==
    /\ state' = "waiting-offline"
    /\ requested' = NoCalc
    /\ current' = calc
    /\ UNCHANGED <<lastId, repeats, viewVars, toServer>>

\* Mutants of AbortCurrent: the next calculation does not wait for the end of
\* this one, and the ABORT goes to the backend selected now.
StartAtOnce(calc, req) == Start(req)

AbortSelected(calc, req) ==
    /\ state' = "aborting"
    /\ requested' = req
    /\ current' = calc
    /\ Send(selected', [op |-> "ABORT", id |-> calc.id])
    /\ UNCHANGED <<lastId, repeats, viewVars>>

AbortCurrent(calc, req) ==
    /\ state' = "aborting"
    /\ requested' = req
    /\ current' = calc
    /\ Send(calc.backend, [op |-> "ABORT", id |-> calc.id])
    /\ UNCHANGED <<lastId, repeats, viewVars>>

Handle(st, calc, req) ==
    \/ /\ st \in Waiting /\ req # NoCalc
       /\ backendState'[selected'] = "online"
       /\ Start(req)
    \/ /\ st \in Waiting /\ req # NoCalc
       /\ backendState'[selected'] # "online"
       /\ ForgetRequest(calc, req)
    \/ /\ st = "calculating" /\ req # NoCalc
       /\ AbortCurrent(calc, req)
    \/ /\ st = "aborting" \/ req = NoCalc
       /\ state' = st
       /\ requested' = req
       /\ current' = calc
       /\ UNCHANGED <<lastId, repeats, viewVars, toServer>>

\* store.max_workers and store.backend_state follow the selected backend.
Mirror(b) ==
    /\ storeMaxWorkers' = maxWorkers'[b]
    /\ storeBackendState' = backendState'[b]

OnBackendStateChange(b) ==
    IF b = selected THEN Mirror(b) ELSE UNCHANGED mirrorVars

\* now - abortTime > ABORT_TIMEOUT.  An abortTime that was never set is
\* undefined, and no comparison with undefined holds.
AbortTimedOut == state = "aborting" /\ current.abortTime

\* The timeout: give the abort up and reconnect.  A web worker is not
\* reconnected, it is sent one more ABORT.
GiveUpAbort(req) ==
    LET b == current.backend IN
    /\ state' = "waiting-aborted"
    /\ requested' = req
    /\ aborted' = aborted \cup {current.id}
    /\ IF b = Local
       THEN /\ Send(b, [op |-> "ABORT", id |-> 0])
            /\ UNCHANGED <<conn, toClient, server, backendState, mirrorVars>>
       ELSE /\ conn' = [conn EXCEPT ![b] = "connecting"]
            /\ toServer' = [toServer EXCEPT ![b] = <<>>]
            /\ toClient' = [toClient EXCEPT ![b] = <<>>]
            /\ server' = [server EXCEPT ![b] = [NewSession EXCEPT !.dead = server[b].dead]]
            /\ backendState' = [backendState EXCEPT ![b] = "connecting"]
            /\ OnBackendStateChange(b)
    /\ UNCHANGED <<current, lastId, repeats, completed, viewVars, selected,
                   maxWorkers>>

HandleCalculationState(req) ==
    IF AbortTimedOut
    THEN GiveUpAbort(req)
    ELSE /\ UNCHANGED <<endVars, backendVars, mirrorVars, conn, toClient, server>>
         /\ Handle(state, current, req)

-----------------------------------------------------------------------------
(* The page is opened; requests of the user.                               *)

\* Mutant of InitialMaxWorkers: max_workers is not yet set.
NoInitialWorkers == [b \in Backend |-> IF b = Local THEN Workers[b] ELSE 0]

InitialMaxWorkers == [b \in Backend |-> IF b = Local THEN Workers[b] ELSE 1]

Init ==
    /\ state = "waiting-startup"
    /\ requested = NoCalc
    /\ current = NoCalc
    /\ lastId = 0
    /\ repeats = 0
    /\ completed = {}
    /\ aborted = {}
    /\ coordinates = InitialCoords
    /\ screen = [blk \in Blocks |-> NotCalculated]
    /\ history = {}
    /\ startup = "init"
    /\ selected \in Backend
    /\ backendState = [b \in Backend |->
                          IF b = Local THEN "online" ELSE "connecting"]
    /\ maxWorkers = InitialMaxWorkers
    /\ storeBackendState = backendState[selected]
    /\ storeMaxWorkers = maxWorkers[selected]
    /\ conn = [b \in Backend |-> IF b = Local THEN "open" ELSE "connecting"]
    /\ toServer = [b \in Backend |-> <<>>]
    /\ toClient = [b \in Backend |-> <<>>]
    /\ server = [b \in Backend |-> NewSession]
    /\ inputs = 0
    /\ failures = 0

\* startBenchmark00, the first calculation of the page.
StartupRequest == [kind |-> "zoom", coords |-> InitialCoords]

\* Mutant of NotifyStartup: the subscription is not ended.
NotifyStartupAgain(online) ==
    /\ UNCHANGED startup
    /\ IF startup = "subscribed" /\ online
       THEN Handle(state, current, StartupRequest)
       ELSE UNCHANGED <<calcVars, viewVars, toServer>>

\* A change of store.backend_state calls window.init's subscriber, which
\* starts the first calculation as soon as the selected backend is online.
NotifyStartup(online) ==
    IF startup = "subscribed" /\ online
    THEN /\ startup' = "done"
         /\ Handle(state, current, StartupRequest)
    ELSE UNCHANGED <<startup, calcVars, viewVars, toServer>>

WindowInit ==
    /\ startup = "init"
    /\ UNCHANGED <<endVars, backendVars, mirrorVars, conn, toClient, server, bounds>>
    /\ IF storeBackendState = "online"
       THEN /\ startup' = "done"
            /\ Handle(state, current, StartupRequest)
       ELSE /\ startup' = "subscribed"
            /\ UNCHANGED <<calcVars, viewVars, toServer>>

UserInput ==
    /\ startup # "init"
    /\ inputs < MaxInputs
    /\ inputs' = inputs + 1
    /\ UNCHANGED failures

\* startFromZoom, and the benchmarks, which only differ in where they go.
Zoom(c) ==
    /\ UserInput
    /\ UNCHANGED startup
    /\ HandleCalculationState([kind |-> "zoom", coords |-> c])

\* startFromNewMaxN
NewMaxN ==
    /\ UserInput
    /\ UNCHANGED startup
    /\ HandleCalculationState([kind |-> "max_n", coords |-> coordinates])

\* startFromHistory, by the browser's back and forward buttons.
Back(c) ==
    /\ c \in history
    /\ UserInput
    /\ UNCHANGED startup
    /\ HandleCalculationState([kind |-> "back", coords |-> c])

\* store.backend is set: onBackendChange runs first and may notify
\* window.init, whose subscriptions end with any choice of a backend.
SelectBackend(b) ==
    /\ UserInput
    /\ selected' = b
    /\ UNCHANGED <<endVars, backendState, maxWorkers, conn, toClient, server>>
    /\ IF b = selected THEN UNCHANGED mirrorVars ELSE Mirror(b)
    /\ startup' = "done"
    /\ IF startup = "subscribed" /\ b # selected /\ backendState[b] = "online"
       THEN Handle(state, current, StartupRequest)
       ELSE UNCHANGED <<calcVars, viewVars, toServer>>

\* setInterval(() => this.handleCalculationState(), 200)
HandleTimer ==
    /\ startup # "init"
    /\ UNCHANGED <<startup, bounds>>
    /\ HandleCalculationState(requested)

\* setInterval(() => this.reviveBackend(), 1000)
ReviveBackend ==
    /\ backendState[selected] = "offline"
    /\ backendState' = [backendState EXCEPT ![selected] = "connecting"]
    /\ conn' = [conn EXCEPT ![selected] = "connecting"]
    /\ UNCHANGED maxWorkers
    /\ Mirror(selected)
    /\ UNCHANGED <<calcVars, endVars, viewVars, startup, selected, toServer,
                   toClient, server, bounds>>

-----------------------------------------------------------------------------
(* Messages and events from a backend.                                     *)

OnConfig(b) ==
    /\ Receive(b, "CONFIG")
    /\ backendState' = [backendState EXCEPT ![b] = "online"]
    /\ maxWorkers' = [maxWorkers EXCEPT ![b] = Head(toClient[b]).max_workers]
    /\ UNCHANGED <<endVars, selected, conn, server, bounds>>
    /\ OnBackendStateChange(b)
    /\ NotifyStartup(b = selected)

\* Mutant of SetOffline: only a backend that was online goes offline.
SetOfflineIfOnline(b) ==
    backendState' = [backendState EXCEPT ![b] = IF @ = "online" THEN "offline" ELSE @]

SetOffline(b) == backendState' = [backendState EXCEPT ![b] = "offline"]

OnClose(b) ==
    /\ Receive(b, "CLOSE")
    /\ SetOffline(b)
    /\ UNCHANGED maxWorkers
    /\ OnBackendStateChange(b)
    /\ UNCHANGED <<calcVars, endVars, viewVars, startup, selected, conn,
                   toServer, server, bounds>>

OnBlockStarted(b) ==
    /\ Receive(b, "BLOCK_STARTED")
    /\ LET msg == Head(toClient[b]) IN
       screen' = IF IsCurrent(msg.id)
                 THEN [screen EXCEPT ![msg.block] = Calculating]
                 ELSE screen
    /\ UNCHANGED <<calcVars, endVars, coordinates, history, startup,
                   backendVars, mirrorVars, conn, toServer, server, bounds>>

OnBlockCompleted(b) ==
    /\ Receive(b, "BLOCK_COMPLETED")
    /\ LET msg == Head(toClient[b]) IN
       screen' = IF IsCurrent(msg.id)
                 THEN [screen EXCEPT ![msg.block] = Calculated(msg.id, msg.coords)]
                 ELSE screen
    /\ UNCHANGED <<calcVars, endVars, coordinates, history, startup,
                   backendVars, mirrorVars, conn, toServer, server, bounds>>

\* Mutant of OnCompleted: the state is left as it was.
OnCompletedKeepsState(b) ==
    /\ Receive(b, "COMPLETED")
    /\ UNCHANGED <<aborted, startup, backendVars, mirrorVars, conn, server, bounds>>
    /\ IF IsCurrent(Head(toClient[b]).id)
       THEN /\ completed' = completed \cup {current.id}
            /\ Handle(state, [current EXCEPT !.completeTime = TRUE], requested)
       ELSE UNCHANGED <<completed, calcVars, viewVars, toServer>>

OnCompleted(b) ==
    /\ Receive(b, "COMPLETED")
    /\ UNCHANGED <<aborted, startup, backendVars, mirrorVars, conn, server, bounds>>
    /\ IF IsCurrent(Head(toClient[b]).id)
       THEN /\ completed' = completed \cup {current.id}
            /\ Handle("waiting-completed",
                      [current EXCEPT !.completeTime = TRUE], requested)
       ELSE UNCHANGED <<completed, calcVars, viewVars, toServer>>

OnAborted(b) ==
    /\ Receive(b, "ABORTED")
    /\ UNCHANGED <<completed, startup, backendVars, mirrorVars, conn, server, bounds>>
    /\ IF IsCurrent(Head(toClient[b]).id)
       THEN /\ aborted' = aborted \cup {current.id}
            /\ Handle("waiting-aborted",
                      [current EXCEPT !.abortTime = TRUE], requested)
       ELSE UNCHANGED <<aborted, calcVars, viewVars, toServer>>

Deliver(b) ==
    \/ OnConfig(b)
    \/ OnClose(b)
    \/ OnBlockStarted(b)
    \/ OnBlockCompleted(b)
    \/ OnCompleted(b)
    \/ OnAborted(b)

-----------------------------------------------------------------------------
(* The connections and the servers behind them, as the client sees them.   *)

clientVars == <<calcVars, endVars, viewVars, startup, backendVars, mirrorVars>>

\* A server that is not dead opens the session and says who it is.
Accept(b) ==
    /\ conn[b] = "connecting"
    /\ ~server[b].dead
    /\ conn' = [conn EXCEPT ![b] = "open"]
    /\ toClient' = [toClient EXCEPT
                       ![b] = Append(@, [op |-> "CONFIG", max_workers |-> Workers[b]])]
    /\ UNCHANGED <<clientVars, toServer, server, bounds>>

Fail(b) ==
    /\ failures < MaxFailures
    /\ failures' = failures + 1
    /\ conn' = [conn EXCEPT ![b] = "closed"]
    /\ UNCHANGED <<clientVars, inputs>>

\* The connection is never established.
Refuse(b) ==
    /\ conn[b] = "connecting"
    /\ Fail(b)
    /\ toClient' = [toClient EXCEPT ![b] = Append(@, [op |-> "CLOSE"])]
    /\ UNCHANGED <<toServer, server>>

\* The connection is lost, with any suffix of what the server has sent and
\* all that it has not yet read.  The server ends the session, and either goes
\* on to accept the next or hangs in the end of this one (or of its process).
Drop(b) ==
    /\ b # Local
    /\ conn[b] = "open"
    /\ Fail(b)
    /\ \E n \in 0..Len(toClient[b]) :
          toClient' = [toClient EXCEPT
                          ![b] = Append(SubSeq(@, 1, n), [op |-> "CLOSE"])]
    /\ toServer' = [toServer EXCEPT ![b] = <<>>]
    /\ \E dead \in {FALSE} \cup (IF b \in Hanging THEN {TRUE} ELSE {}) :
          server' = [server EXCEPT ![b] = [NewSession EXCEPT !.dead = dead]]

\* What a server may have left over when it has read a message.  A buffering
\* one first receives, any part of what is on its way, and then takes the
\* oldest message it has.
LeftOver(b) ==
    IF b \in Buffering
    THEN {k \in 0..Len(toServer[b]) - 1 : server[b].kept <= k + 1}
    ELSE {0}

\* A server reads when more is there than it has left over.
ServerReads(b, op) ==
    /\ Len(toServer[b]) > server[b].kept
    /\ Head(toServer[b]).op = op
    /\ toServer' = [toServer EXCEPT ![b] = Tail(@)]
    /\ UNCHANGED <<clientVars, conn, bounds>>

ServerSends(b, msg) == toClient' = [toClient EXCEPT ![b] = Append(@, msg)]

ServerStart(b) ==
    /\ ServerReads(b, "START")
    /\ \E k \in LeftOver(b) :
          server' = [server EXCEPT ![b] =
                        [calc |-> Head(toServer[b]), waiting |-> Blocks,
                         running |-> {}, phase |-> "calculating",
                         kept |-> k, dead |-> FALSE]]
    /\ UNCHANGED toClient

\* Java, go and the web worker answer with the id of the request, the C++
\* server with the id of the calculation it started last, if any.
ServerAbort(b) ==
    LET calc == server[b].calc
        id == IF b \notin OwnId THEN Head(toServer[b]).id
              ELSE IF calc = NoCalc THEN 0
              ELSE calc.id IN
    /\ ServerReads(b, "ABORT")
    /\ ServerSends(b, [op |-> "ABORTED", id |-> id])
    /\ \E k \in LeftOver(b) :
          server' = [server EXCEPT
                        ![b].kept = k,
                        ![b].phase = IF @ = "calculating" /\ b \in Flushing
                                     THEN "flushing" ELSE "idle"]

ServerBlockStarted(b, blk) ==
    LET calc == server[b].calc IN
    /\ server[b].phase # "idle"
    /\ blk \in server[b].waiting
    /\ server' = [server EXCEPT ![b].waiting = @ \ {blk},
                                ![b].running = @ \cup {blk}]
    /\ ServerSends(b, [op |-> "BLOCK_STARTED", id |-> calc.id,
                       coords |-> calc.coords, block |-> blk])
    /\ UNCHANGED <<clientVars, conn, toServer, bounds>>

ServerBlockCompleted(b, blk) ==
    LET calc == server[b].calc IN
    /\ server[b].phase # "idle"
    /\ blk \in server[b].running
    /\ server' = [server EXCEPT ![b].running = @ \ {blk}]
    /\ ServerSends(b, [op |-> "BLOCK_COMPLETED", id |-> calc.id,
                       coords |-> calc.coords, block |-> blk])
    /\ UNCHANGED <<clientVars, conn, toServer, bounds>>

ServerCompleted(b) ==
    /\ server[b].phase # "idle"
    /\ server[b].waiting = {} /\ server[b].running = {}
    /\ server' = [server EXCEPT ![b].phase = "idle"]
    /\ ServerSends(b, [op |-> "COMPLETED", id |-> server[b].calc.id])
    /\ UNCHANGED <<clientVars, conn, toServer, bounds>>

ServerStep(b) ==
    \/ ServerStart(b)
    \/ ServerAbort(b)
    \/ \E blk \in Blocks : ServerBlockStarted(b, blk) \/ ServerBlockCompleted(b, blk)
    \/ ServerCompleted(b)

-----------------------------------------------------------------------------
User ==
    \/ \E c \in Coords : Zoom(c) \/ Back(c)
    \/ NewMaxN
    \/ \E b \in Backend : SelectBackend(b)

Next ==
    \/ WindowInit
    \/ User
    \/ HandleTimer
    \/ ReviveBackend
    \/ \E b \in Backend : Deliver(b)
    \/ \E b \in Backend : Accept(b) \/ Refuse(b) \/ Drop(b) \/ ServerStep(b)

Spec == Init /\ [][Next]_vars

\* The browser delivers every event and runs its timers, servers accept
\* connections and go on calculating.  Nothing forces the user to act or a
\* connection to fail.
Fairness ==
    /\ WF_vars(WindowInit)
    /\ WF_vars(HandleTimer)
    /\ WF_vars(ReviveBackend)
    /\ \A b \in Backend : WF_vars(Deliver(b)) /\ WF_vars(Accept(b))
                          /\ WF_vars(ServerStep(b))

FairSpec == Spec /\ Fairness

-----------------------------------------------------------------------------
(* Properties.                                                             *)

TypeOK ==
    /\ state \in CalculationState
    /\ requested \in Request \cup {NoCalc}
    /\ current \in Calculation \cup {NoCalc}
    /\ lastId \in Nat /\ repeats \in 0..MaxRepeats
    /\ completed \subseteq Nat /\ aborted \subseteq Nat
    /\ coordinates \in Coords
    /\ screen \in [Blocks -> Pixels]
    /\ history \subseteq Coords
    /\ startup \in {"init", "subscribed", "done"}
    /\ selected \in Backend
    /\ backendState \in [Backend -> BackendState]
    /\ maxWorkers \in [Backend -> Nat \ {0}]
    /\ storeBackendState \in BackendState
    /\ storeMaxWorkers \in Nat \ {0}
    /\ conn \in [Backend -> {"connecting", "open", "closed"}]
    /\ toServer \in [Backend -> Seq(StartMsg \cup AbortMsg)]
    /\ toClient \in [Backend -> Seq(ControlMsg \cup Answer)]
    /\ server \in [Backend -> Server]
    /\ inputs \in 0..MaxInputs
    /\ failures \in 0..MaxFailures

\* A request is pending exactly while the calculation before it is being
\* aborted: no handler returns with a request that only the 200 ms timer
\* would pick up, and an abort is never waited for without a request.
PendingIffAborting == (requested # NoCalc) <=> (state = "aborting")

\* While the client shows "calculating" or "aborting" there is a calculation
\* to show, and no callback was told yet of its end (which is only known while
\* no two calculations had the same id).
RunningIsUnfinished ==
    state \in {"calculating", "aborting"} =>
        /\ current # NoCalc /\ ~current.completeTime
        /\ repeats = 0 => current.id \notin completed \cup aborted

\* Whatever is still calculating, on any backend, or is about to, is the
\* calculation the client waits for: at most one runs at a time, and none
\* is left behind by an abort, a completion or a change of backend.  With an id
\* given twice, an answer to the one can be taken for an answer to the other.
NothingRunsUnwatched ==
    repeats = 0 => \A b \in Backend :
        LET Watched(id) == /\ state \in {"calculating", "aborting"}
                           /\ current.id = id /\ current.backend = b IN
        /\ server[b].phase = "calculating" => Watched(server[b].calc.id)
        /\ \A i \in DOMAIN toServer[b] :
              toServer[b][i].op = "START" => Watched(toServer[b][i].id)

\* Every calculation is reported as completed or aborted before the next one
\* starts or the client goes back to waiting, while no id was given twice.
EveryCalculationEnds ==
    repeats = 0 => \A id \in 1..lastId :
        \/ id \in completed \cup aborted
        \/ id = lastId /\ state \in {"calculating", "aborting"}

\* All that is painted belongs to the place store.coordinates names, however
\* late the blocks of aborted calculations arrive.
ScreenShowsCoordinates ==
    \A blk \in Blocks :
        screen[blk].value = "calculated" => screen[blk].coords = coordinates

\* When the client says "completed", every block of the screen was painted
\* by the calculation that completed.
CompletedScreenIsFull ==
    state = "waiting-completed" =>
        \A blk \in Blocks : screen[blk] = Calculated(current.id, current.coords)

\* What the user looks at: never a mixture of places, and no picture called
\* completed that is not, while no id was given twice.
ScreenIsTrue == repeats = 0 => ScreenShowsCoordinates /\ CompletedScreenIsFull

\* The number of workers sent with START is the one the backend announced,
\* or the user's if smaller: never the 1 a backend has before its CONFIG or
\* the count of the backend that was selected before.
WorkersFitBackend ==
    \A b \in Backend : \A i \in DOMAIN toServer[b] :
        LET msg == toServer[b][i] IN
        msg.op = "START" =>
            /\ msg.workers <= Workers[b]
            /\ msg.workers < Workers[b] => msg.workers = WorkersValue

\* window.init can still start the first calculation only while nothing has
\* ever been calculated: it never interrupts the user.
StartupIsFirst == startup # "done" => lastId = 0

\* A calculation is reported as ended a second time only when the request that
\* aborted it was dropped, since the selected backend is offline: never while
\* another is pending, running or reported.
EndsOnce ==
    [][repeats = 0 =>
          \A id \in completed \cup aborted :
              id \in (completed' \ completed) \cup (aborted' \ aborted)
                  => state = "waiting-offline"]_vars

\* A message about the calculation shown is on its way to its backend.
UnderWay(op) ==
    \E i \in DOMAIN toServer[current.backend] :
        LET msg == toServer[current.backend][i] IN
        msg.op = op /\ msg.id = current.id

\* ... and the backend has received it with others, and looks at it only when
\* more arrives.
Kept(op) ==
    \E i \in 1..server[current.backend].kept :
        LET msg == toServer[current.backend][i] IN
        msg.op = op /\ msg.id = current.id

\* A backend that answers ABORT with its own last id, in a session that never
\* heard of the calculation shown.
AnswersAnotherId ==
    LET b == current.backend IN
    /\ b \in OwnId
    /\ ~UnderWay("START")
    /\ server[b].calc = NoCalc \/ server[b].calc.id # current.id

\* A calculation whose START was sent on an open connection leaves
\* "calculating", and one whose ABORT was leaves "aborting", whatever became of
\* connections before: unless this connection is lost, or the message is left
\* over in the backend's buffer, or the backend answers with another id.
CalculationEnds ==
    /\ (state = "calculating" /\ UnderWay("START"))
           ~> (\/ state # "calculating"
               \/ conn[current.backend] # "open"
               \/ Kept("START"))
    /\ (state = "aborting" /\ UnderWay("ABORT"))
           ~> (\/ state # "aborting"
               \/ conn[current.backend] # "open"
               \/ Kept("ABORT") \/ AnswersAnotherId)

\* The selected backend is online again and again, however connections fail, if
\* they fail finitely often and its server goes on accepting.
SelectedRecovers == []<>(storeBackendState = "online" \/ server[selected].dead)

\* "const ABORT_TIMEOUT = 5000" (backends.js:167): a client never waits for
\* an abort for ever.
AbortGivesUp == (state = "aborting") ~> (state # "aborting")

\* "Setting max n will cause immediate recalculation" (core.js:22): a change
\* of max_n that the client shows as "calculating" was sent to the backend.
MaxNRecalculates ==
    state = "calculating" /\ current.kind = "max_n" => current.startTime
=============================================================================
