--------------------------- MODULE BackendsProofs ---------------------------
(***************************************************************************)
(* Theorems about Backends, for every set of backends, blocks and places:  *)
(* the types and what the client's variables say about each other, then    *)
(* that whatever a backend calculates is watched by the client, and that   *)
(* every calculation ends once.                                            *)
(***************************************************************************)
EXTENDS Backends, TLAPS

\* The calculation shown as running has not been told its end.
TimesUnset ==
    state \in {"calculating", "aborting"} =>
        current # NoCalc /\ ~current.abortTime /\ ~current.completeTime

\* The last calculation has the id given last.
LastOK(calc) == IF calc = NoCalc THEN lastId = 0 ELSE calc.id = lastId

\* What handlers leave behind them before they call Handle.
Handed(st, calc, req) ==
    /\ st \in CalculationState
    /\ calc \in Calculation \cup {NoCalc}
    /\ req \in Request \cup {NoCalc}
    /\ st \in {"calculating", "aborting"} =>
           calc # NoCalc /\ ~calc.abortTime /\ ~calc.completeTime
    /\ st = "aborting" => req # NoCalc
    /\ LastOK(calc)

BackendsTypeOK ==
    /\ selected \in Backend
    /\ backendState \in [Backend -> BackendState]
    /\ maxWorkers \in [Backend -> Nat \ {0}]
    /\ storeBackendState \in BackendState
    /\ storeMaxWorkers \in Nat \ {0}

RestTypeOK ==
    /\ completed \subseteq Nat /\ aborted \subseteq Nat
    /\ startup \in {"init", "subscribed", "done"}
    /\ conn \in [Backend -> {"connecting", "open", "closed"}]
    /\ toClient \in [Backend -> Seq(ControlMsg \cup Answer)]
    /\ server \in [Backend -> Server]
    /\ inputs \in 0..MaxInputs
    /\ failures \in 0..MaxFailures

CalcTypeOK ==
    /\ state \in CalculationState
    /\ requested \in Request \cup {NoCalc}
    /\ current \in Calculation \cup {NoCalc}
    /\ lastId \in Nat /\ repeats \in 0..MaxRepeats
    /\ coordinates \in Coords
    /\ screen \in [Blocks -> Pixels]
    /\ history \subseteq Coords
    /\ toServer \in [Backend -> Seq(StartMsg \cup AbortMsg)]

LEMMA SendType ==
    ASSUME toServer \in [Backend -> Seq(StartMsg \cup AbortMsg)],
           NEW STATE b, NEW STATE msg, b \in Backend, msg \in StartMsg \cup AbortMsg, Send(b, msg)
    PROVE  toServer' \in [Backend -> Seq(StartMsg \cup AbortMsg)]
<1>1. Append(toServer[b], msg) \in Seq(StartMsg \cup AbortMsg)
    OBVIOUS
<1> QED BY <1>1 DEF Send

LEMMA StartType ==
    ASSUME CalcTypeOK, BackendsTypeOK', NEW STATE req, req \in Request, Start(req)
    PROVE  CalcTypeOK' /\ state' = "calculating" /\ requested' = NoCalc
           /\ current' # NoCalc /\ ~current'.abortTime /\ ~current'.completeTime
           /\ LastOK(current)'
<1> USE DEF CalcTypeOK
<1>1. WorkerCount \in Nat \ {0}
    BY BackendsAssumption DEF WorkerCount, BackendsTypeOK
<1>0. NewId \in Nat \ {0} /\ repeats' \in 0..MaxRepeats
    BY BackendsAssumption DEF Start, NewId, Repeats
<1> HIDE DEF NewId
<1>2. current' \in Calculation /\ ~current'.abortTime /\ ~current'.completeTime
    BY <1>0, <1>1, BackendsAssumption DEF Start, Calculation, BackendsTypeOK, Request, BeforeStartThrows
<1>3. screen' \in [Blocks -> Pixels]
    BY DEF Start, ScreenBeforeStart, Pixels
<1>4. toServer' \in [Backend -> Seq(StartMsg \cup AbortMsg)]
  <2>1. CASE BeforeStartThrows(req)
    BY <2>1 DEF Start
  <2>2. CASE ~BeforeStartThrows(req)
    <3> DEFINE msg == [op |-> "START", id |-> NewId, coords |-> req.coords,
                       workers |-> WorkerCount]
    <3>1. msg \in StartMsg
        BY <1>0, <1>1 DEF StartMsg, Request
    <3>2. Send(selected', msg)
        BY <2>2 DEF Start
    <3> HIDE DEF msg
    <3>3. Append(toServer[selected'], msg) \in Seq(StartMsg \cup AbortMsg)
        BY <3>1 DEF BackendsTypeOK
    <3> QED BY <3>2, <3>3 DEF Send, BackendsTypeOK
  <2> QED BY <2>1, <2>2
<1>5. current' # NoCalc
    BY <1>2, NoCalcAssumption
<1>6. history' \subseteq Coords /\ coordinates' \in Coords /\ lastId' \in Nat
    BY <1>0 DEF Start, Request
<1>7. LastOK(current)'
    BY <1>5 DEF Start, LastOK
<1> QED BY <1>0, <1>2, <1>3, <1>4, <1>5, <1>6, <1>7 DEF Start, CalculationState

LEMMA HandleType ==
    ASSUME CalcTypeOK, BackendsTypeOK',
           NEW STATE st, NEW STATE calc, NEW STATE req,
           Handed(st, calc, req), Handle(st, calc, req)
    PROVE  CalcTypeOK' /\ PendingIffAborting' /\ TimesUnset' /\ LastOK(current)'
<1> USE DEF Handed
<1>1. CASE /\ st \in Waiting /\ req # NoCalc
           /\ backendState'[selected'] = "online"
           /\ Start(req)
    BY <1>1, StartType, Zenon DEF PendingIffAborting, TimesUnset
<1>2. CASE /\ st \in Waiting /\ req # NoCalc
           /\ ForgetRequest(calc, req)
    BY <1>2 DEF ForgetRequest, CalcTypeOK, viewVars, PendingIffAborting,
                TimesUnset, CalculationState, Waiting, LastOK
<1>3. CASE /\ st = "calculating" /\ req # NoCalc
           /\ AbortCurrent(calc, req)
  <2> DEFINE msg == [op |-> "ABORT", id |-> calc.id]
  <2>1. calc \in Calculation /\ msg \in AbortMsg /\ calc.backend \in Backend
      BY <1>3 DEF Calculation, AbortMsg
  <2>2. toServer' \in [Backend -> Seq(StartMsg \cup AbortMsg)]
    <3>1. Send(calc.backend, msg)
        BY <1>3 DEF AbortCurrent
    <3> HIDE DEF msg
    <3> QED BY <2>1, <3>1, SendType DEF CalcTypeOK
  <2> QED BY <1>3, <2>1, <2>2 DEF AbortCurrent, CalcTypeOK, viewVars, PendingIffAborting,
                                  TimesUnset, CalculationState, LastOK
<1>4. CASE /\ st = "aborting" \/ req = NoCalc
           /\ state' = st
           /\ requested' = req
           /\ current' = calc
           /\ UNCHANGED <<lastId, repeats, viewVars, toServer>>
    BY <1>4 DEF CalcTypeOK, viewVars, PendingIffAborting, TimesUnset, LastOK
<1> QED BY <1>1, <1>2, <1>3, <1>4, Zenon DEF Handle

-----------------------------------------------------------------------------
(* The control invariant: types, and what state, requested and current     *)
(* tell about each other.                                                  *)

\* A session in which no message was read yet.
Fresh(session) ==
    session \in Server /\ session.calc = NoCalc /\ session.phase = "idle"

SessionOK == \A b \in Backend : server[b].phase # "idle" => server[b].calc # NoCalc

ControlInv ==
    TypeOK /\ PendingIffAborting /\ TimesUnset /\ SessionOK /\ LastOK(current)

LEMMA TypeParts == TypeOK <=> CalcTypeOK /\ BackendsTypeOK /\ RestTypeOK
BY DEF TypeOK, CalcTypeOK, BackendsTypeOK, RestTypeOK

LEMMA TypePartsNext == TypeOK' <=> CalcTypeOK' /\ BackendsTypeOK' /\ RestTypeOK'
BY DEF TypeOK, CalcTypeOK, BackendsTypeOK, RestTypeOK

LEMMA HandedCurrent ==
    ASSUME ControlInv, NEW STATE req, req \in Request
    PROVE  Handed(state, current, req) /\ ~AbortTimedOut
<1>1. req # NoCalc
    BY NoCalcAssumption
<1>2. state \in CalculationState /\ current \in Calculation \cup {NoCalc}
    BY DEF ControlInv, TypeOK
<1>3. state \in {"calculating", "aborting"} =>
          current # NoCalc /\ ~current.abortTime /\ ~current.completeTime
    BY DEF ControlInv, TimesUnset
<1>4. LastOK(current)
    BY DEF ControlInv
<1> QED BY <1>1, <1>2, <1>3, <1>4, Zenon DEF Handed, AbortTimedOut

LEMMA ControlInit == Init => ControlInv
<1> SUFFICES ASSUME Init PROVE ControlInv
    OBVIOUS
<1> USE BackendsAssumption DEF Init
<1>1. BackendsTypeOK
    BY DEF BackendsTypeOK, Backend, BackendState, InitialMaxWorkers
<1>2. CalcTypeOK
    BY DEF CalcTypeOK, CalculationState, Waiting, Pixels
<1>3. RestTypeOK
    BY DEF RestTypeOK, NewSession, Server
<1>4. PendingIffAborting /\ TimesUnset /\ SessionOK /\ LastOK(current)
    BY DEF PendingIffAborting, TimesUnset, SessionOK, NewSession, LastOK
<1> QED BY <1>1, <1>2, <1>3, <1>4, TypeParts DEF ControlInv

\* The session after a lost one is fresh, whether the server accepts or hangs.
LEMMA DropFresh ==
    ASSUME TypeOK, NEW b \in Backend, Drop(b)
    PROVE  /\ server' \in [Backend -> Server] /\ Fresh(server'[b])
           /\ \A c \in Backend \ {b} : server'[c] = server[c]
<1>1. PICK dead \in BOOLEAN :
          server' = [server EXCEPT ![b] = [NewSession EXCEPT !.dead = dead]]
    BY DEF Drop
<1>2. Fresh([NewSession EXCEPT !.dead = dead])
    BY DEF Fresh, NewSession, Server
<1> QED BY <1>1, <1>2 DEF TypeOK, Fresh

\* A request of the user, or the timer's look at what is pending.
LEMMA RequestControl ==
    ASSUME ControlInv, NEW STATE req, HandleCalculationState(req),
           req \in Request \/ req = requested,
           UNCHANGED startup, inputs' \in 0..MaxInputs, UNCHANGED failures
    PROVE  ControlInv'
<1>1. Handed(state, current, req) /\ ~AbortTimedOut
    BY HandedCurrent DEF ControlInv, TypeOK, Handed, TimesUnset,
                         PendingIffAborting, AbortTimedOut
<1>2. /\ UNCHANGED <<endVars, backendVars, mirrorVars, conn, toClient, server>>
      /\ Handle(state, current, req)
    BY <1>1 DEF HandleCalculationState
<1>3. BackendsTypeOK'
    BY <1>2, TypeParts DEF ControlInv, BackendsTypeOK, backendVars, mirrorVars
<1>4. CalcTypeOK' /\ PendingIffAborting' /\ TimesUnset' /\ LastOK(current)'
    BY <1>1, <1>2, <1>3, TypeParts, HandleType DEF ControlInv
<1>5. RestTypeOK' /\ SessionOK'
    BY <1>2, TypeParts DEF ControlInv, RestTypeOK, SessionOK, endVars
<1> QED BY <1>3, <1>4, <1>5, TypePartsNext DEF ControlInv

\* A handler that reports what became of the current calculation.
LEMMA ReceiveType ==
    ASSUME TypeOK, NEW b \in Backend, NEW op, Receive(b, op)
    PROVE  /\ Head(toClient[b]) \in ControlMsg \cup Answer
           /\ Head(toClient[b]).op = op
           /\ toClient' \in [Backend -> Seq(ControlMsg \cup Answer)]
<1>1. toClient[b] \in Seq(ControlMsg \cup Answer) /\ toClient[b] # <<>>
    BY DEF TypeOK, Receive
<1>2. /\ Head(toClient[b]) \in ControlMsg \cup Answer
      /\ Tail(toClient[b]) \in Seq(ControlMsg \cup Answer)
    BY <1>1
<1> QED BY <1>2 DEF Receive, TypeOK

\* The steps that neither start nor abort a calculation.
LEMMA FrameControl ==
    ASSUME ControlInv, UNCHANGED <<state, requested, current, lastId, repeats>>,
           BackendsTypeOK', RestTypeOK', SessionOK',
           coordinates' \in Coords, screen' \in [Blocks -> Pixels],
           history' \subseteq Coords,
           toServer' \in [Backend -> Seq(StartMsg \cup AbortMsg)]
    PROVE  ControlInv'
<1>1. CalcTypeOK'
    BY TypeParts DEF ControlInv, CalcTypeOK
<1> QED BY <1>1, TypePartsNext DEF ControlInv, PendingIffAborting, TimesUnset, LastOK

\* What an ABORT makes of the session of a server.
LEMMA LeftOverNat ==
    ASSUME NEW b, NEW S, toServer[b] \in Seq(S)
    PROVE  LeftOver(b) \subseteq Nat
BY DEF LeftOver

LEMMA AbortedSession ==
    ASSUME TypeOK, NEW b \in Backend, ServerAbort(b)
    PROVE  /\ server' \in [Backend -> Server]
           /\ server'[b].calc = server[b].calc
           /\ server'[b].waiting = server[b].waiting
           /\ server'[b].running = server[b].running
           /\ server'[b].phase \in {"idle", "flushing"}
           /\ server'[b].phase # "idle" => server[b].phase # "idle"
           /\ \A c \in Backend \ {b} : server'[c] = server[c]
<1>1. server \in [Backend -> Server] /\ server[b] \in Server
    BY DEF TypeOK
<1>2. LeftOver(b) \subseteq Nat
    BY LeftOverNat DEF TypeOK
<1>3. PICK k \in Nat, phase \in {"idle", "flushing"} :
          /\ server' = [server EXCEPT ![b].kept = k, ![b].phase = phase]
          /\ phase = "flushing" => server[b].phase # "idle"
    BY <1>2 DEF ServerAbort
<1>4. server' = [server EXCEPT ![b] = [server[b] EXCEPT !.kept = k, !.phase = phase]]
    BY <1>1, <1>3
<1>5. /\ server'[b] = [server[b] EXCEPT !.kept = k, !.phase = phase]
      /\ \A c \in Backend \ {b} : server'[c] = server[c]
    BY <1>1, <1>4
<1>6. server'[b] \in Server
    BY <1>1, <1>5 DEF Server
<1> QED BY <1>1, <1>3, <1>4, <1>5, <1>6 DEF Server

LEMMA ControlStep == ControlInv /\ [Next]_vars => ControlInv'
<1> SUFFICES ASSUME ControlInv, [Next]_vars PROVE ControlInv'
    OBVIOUS
<1> USE TypeParts DEF ControlInv
<1>1. ASSUME WindowInit PROVE ControlInv'
  <2>1. BackendsTypeOK'
      BY <1>1 DEF WindowInit, BackendsTypeOK, backendVars, mirrorVars
  <2>2. RestTypeOK' /\ SessionOK'
      BY <1>1 DEF WindowInit, RestTypeOK, SessionOK, endVars, bounds
  <2>3. CASE storeBackendState = "online"
    <3>1. StartupRequest \in Request
        BY BackendsAssumption DEF StartupRequest, Request
    <3>2. Handle(state, current, StartupRequest)
        BY <1>1, <2>3 DEF WindowInit
    <3>3. Handed(state, current, StartupRequest)
        BY <3>1, HandedCurrent
    <3> QED BY <2>1, <2>2, <3>2, <3>3, HandleType, TypePartsNext
  <2>4. CASE storeBackendState # "online"
      BY <1>1, <2>1, <2>2, <2>4, FrameControl
         DEF WindowInit, calcVars, viewVars, CalcTypeOK
  <2> QED BY <2>3, <2>4
<1>2. ASSUME NEW c \in Coords, Zoom(c) PROVE ControlInv'
  <2>1. [kind |-> "zoom", coords |-> c] \in Request
      BY DEF Request
  <2> QED BY <1>2, <2>1, RequestControl, BackendsAssumption DEF Zoom, UserInput, RestTypeOK
<1>3. ASSUME NEW c \in Coords, Back(c) PROVE ControlInv'
  <2>1. [kind |-> "back", coords |-> c] \in Request
      BY DEF Request
  <2> QED BY <1>3, <2>1, RequestControl, BackendsAssumption DEF Back, UserInput, RestTypeOK
<1>4. ASSUME NewMaxN PROVE ControlInv'
  <2>1. [kind |-> "max_n", coords |-> coordinates] \in Request
      BY DEF Request, CalcTypeOK
  <2> QED BY <1>4, <2>1, RequestControl, BackendsAssumption DEF NewMaxN, UserInput, RestTypeOK
<1>5. ASSUME HandleTimer PROVE ControlInv'
    BY <1>5, RequestControl DEF HandleTimer, RestTypeOK, bounds
<1>6. ASSUME NEW b \in Backend, SelectBackend(b) PROVE ControlInv'
  <2>a. BackendsTypeOK'
      BY <1>6 DEF SelectBackend, Mirror, mirrorVars, BackendsTypeOK
  <2>b. inputs' \in 0..MaxInputs
      BY <1>6, BackendsAssumption DEF SelectBackend, UserInput, RestTypeOK
  <2>c. RestTypeOK' /\ SessionOK'
      BY <1>6, <2>b DEF SelectBackend, UserInput, endVars, RestTypeOK, SessionOK
  <2>1. BackendsTypeOK' /\ RestTypeOK' /\ SessionOK'
      BY <2>a, <2>c
  <2>2. CASE Handle(state, current, StartupRequest)
    <3>1. StartupRequest \in Request
        BY BackendsAssumption DEF StartupRequest, Request
    <3>2. Handed(state, current, StartupRequest)
        BY <3>1, HandedCurrent
    <3> QED BY <2>1, <2>2, <3>2, HandleType, TypePartsNext
  <2>3. CASE UNCHANGED <<calcVars, viewVars, toServer>>
      BY <2>1, <2>3, FrameControl DEF calcVars, viewVars, CalcTypeOK
  <2> QED BY <1>6, <2>2, <2>3 DEF SelectBackend
<1>7. ASSUME ReviveBackend PROVE ControlInv'
  <2>1. BackendsTypeOK' /\ RestTypeOK' /\ SessionOK'
      BY <1>7 DEF ReviveBackend, Mirror, endVars, bounds, BackendState,
                  BackendsTypeOK, RestTypeOK, SessionOK
  <2> QED BY <1>7, <2>1, FrameControl DEF ReviveBackend, calcVars, viewVars, CalcTypeOK
<1>8. ASSUME NEW b \in Backend, OnConfig(b) PROVE ControlInv'
  <2>1. /\ Head(toClient[b]) \in ControlMsg \cup Answer
        /\ Head(toClient[b]).op = "CONFIG"
        /\ toClient' \in [Backend -> Seq(ControlMsg \cup Answer)]
      BY <1>8, ReceiveType DEF OnConfig
  <2>2. Head(toClient[b]).max_workers \in Nat \ {0}
      BY <2>1 DEF ControlMsg, Answer, BlockMsg, EndMsg
  <2>3. BackendsTypeOK'
      BY <1>8, <2>2 DEF OnConfig, OnBackendStateChange, Mirror, mirrorVars,
                        BackendsTypeOK, BackendState
  <2>4. RestTypeOK' /\ SessionOK'
      BY <1>8, <2>1 DEF OnConfig, NotifyStartup, endVars, bounds, RestTypeOK, SessionOK
  <2>5. CASE Handle(state, current, StartupRequest)
    <3>1. StartupRequest \in Request
        BY BackendsAssumption DEF StartupRequest, Request
    <3>2. Handed(state, current, StartupRequest)
        BY <3>1, HandedCurrent
    <3> QED BY <2>3, <2>4, <2>5, <3>2, HandleType, TypePartsNext
  <2>6. CASE UNCHANGED <<calcVars, viewVars, toServer>>
      BY <2>3, <2>4, <2>6, FrameControl DEF calcVars, viewVars, CalcTypeOK
  <2> QED BY <1>8, <2>5, <2>6 DEF OnConfig, NotifyStartup
<1>9. ASSUME NEW b \in Backend, OnClose(b) PROVE ControlInv'
  <2>1. toClient' \in [Backend -> Seq(ControlMsg \cup Answer)]
      BY <1>9, ReceiveType DEF OnClose
  <2>2. BackendsTypeOK' /\ RestTypeOK' /\ SessionOK'
      BY <1>9, <2>1 DEF OnClose, SetOffline, OnBackendStateChange, Mirror, mirrorVars, endVars, bounds,
                        BackendsTypeOK, RestTypeOK, SessionOK, BackendState
  <2> QED BY <1>9, <2>2, FrameControl DEF OnClose, calcVars, viewVars, CalcTypeOK
<1>10. ASSUME NEW b \in Backend, OnBlockStarted(b) \/ OnBlockCompleted(b)
       PROVE  ControlInv'
  <2>1. PICK op \in {"BLOCK_STARTED", "BLOCK_COMPLETED"} : Receive(b, op)
      BY <1>10 DEF OnBlockStarted, OnBlockCompleted
  <2>2. /\ Head(toClient[b]) \in BlockMsg
        /\ toClient' \in [Backend -> Seq(ControlMsg \cup Answer)]
      BY <2>1, ReceiveType DEF ControlMsg, Answer, EndMsg
  <2>3. screen' \in [Blocks -> Pixels]
    <3> DEFINE msg == Head(toClient[b])
    <3>1. Calculating \in Pixels /\ Calculated(msg.id, msg.coords) \in Pixels
        BY <2>2 DEF Pixels, Calculating, Calculated, BlockMsg
    <3>2. \/ screen' = screen
          \/ screen' = [screen EXCEPT ![msg.block] = Calculating]
          \/ screen' = [screen EXCEPT ![msg.block] = Calculated(msg.id, msg.coords)]
        BY <1>10 DEF OnBlockStarted, OnBlockCompleted
    <3> HIDE DEF msg
    <3> QED BY <3>1, <3>2 DEF CalcTypeOK
  <2>4. BackendsTypeOK' /\ RestTypeOK' /\ SessionOK'
      BY <1>10, <2>2 DEF OnBlockStarted, OnBlockCompleted, backendVars, mirrorVars, endVars,
                         bounds, BackendsTypeOK, RestTypeOK, SessionOK
  <2> QED BY <1>10, <2>3, <2>4, FrameControl
          DEF OnBlockStarted, OnBlockCompleted, calcVars, CalcTypeOK
<1>11. ASSUME NEW b \in Backend, OnCompleted(b) PROVE ControlInv'
  <2> DEFINE ended == [current EXCEPT !.completeTime = TRUE]
  <2>1. toClient' \in [Backend -> Seq(ControlMsg \cup Answer)]
      BY <1>11, ReceiveType DEF OnCompleted
  <2>2. BackendsTypeOK'
      BY <1>11 DEF OnCompleted, backendVars, mirrorVars, BackendsTypeOK
  <2>3. CASE IsCurrent(Head(toClient[b]).id)
    <3>1. current \in Calculation
        BY <2>3 DEF IsCurrent, CalcTypeOK
    <3>2. ended \in Calculation /\ current.id \in Nat
        BY <3>1 DEF Calculation
    <3>3. RestTypeOK' /\ SessionOK'
        BY <1>11, <2>1, <2>3, <3>2 DEF OnCompleted, bounds, RestTypeOK, SessionOK
    <3>4. Handle("waiting-completed", ended, requested)
        BY <1>11, <2>3 DEF OnCompleted
    <3> HIDE DEF ended
    <3>5. Handed("waiting-completed", ended, requested)
        BY <2>3, <3>1, <3>2, NoCalcAssumption
           DEF Handed, CalcTypeOK, CalculationState, Waiting, LastOK, IsCurrent, Calculation, ended
    <3> QED BY <2>2, <3>3, <3>4, <3>5, HandleType, TypePartsNext
  <2>4. CASE ~IsCurrent(Head(toClient[b]).id)
    <3>1. RestTypeOK' /\ SessionOK'
        BY <1>11, <2>1, <2>4 DEF OnCompleted, bounds, RestTypeOK, SessionOK
    <3> QED BY <1>11, <2>2, <2>4, <3>1, FrameControl
            DEF OnCompleted, calcVars, viewVars, CalcTypeOK
  <2> QED BY <2>3, <2>4
<1>12. ASSUME NEW b \in Backend, OnAborted(b) PROVE ControlInv'
  <2> DEFINE ended == [current EXCEPT !.abortTime = TRUE]
  <2>1. toClient' \in [Backend -> Seq(ControlMsg \cup Answer)]
      BY <1>12, ReceiveType DEF OnAborted
  <2>2. BackendsTypeOK'
      BY <1>12 DEF OnAborted, backendVars, mirrorVars, BackendsTypeOK
  <2>3. CASE IsCurrent(Head(toClient[b]).id)
    <3>1. current \in Calculation
        BY <2>3 DEF IsCurrent, CalcTypeOK
    <3>2. ended \in Calculation /\ current.id \in Nat
        BY <3>1 DEF Calculation
    <3>3. RestTypeOK' /\ SessionOK'
        BY <1>12, <2>1, <2>3, <3>2 DEF OnAborted, bounds, RestTypeOK, SessionOK
    <3>4. Handle("waiting-aborted", ended, requested)
        BY <1>12, <2>3 DEF OnAborted
    <3> HIDE DEF ended
    <3>5. Handed("waiting-aborted", ended, requested)
        BY <2>3, <3>1, <3>2, NoCalcAssumption
           DEF Handed, CalcTypeOK, CalculationState, Waiting, LastOK, IsCurrent, Calculation, ended
    <3> QED BY <2>2, <3>3, <3>4, <3>5, HandleType, TypePartsNext
  <2>4. CASE ~IsCurrent(Head(toClient[b]).id)
    <3>1. RestTypeOK' /\ SessionOK'
        BY <1>12, <2>1, <2>4 DEF OnAborted, bounds, RestTypeOK, SessionOK
    <3> QED BY <1>12, <2>2, <2>4, <3>1, FrameControl
            DEF OnAborted, calcVars, viewVars, CalcTypeOK
  <2> QED BY <2>3, <2>4
<1>13. ASSUME NEW b \in Backend, Accept(b) \/ Refuse(b) \/ Drop(b)
       PROVE  ControlInv'
  <2> DEFINE ToClientOK == toClient' \in [Backend -> Seq(ControlMsg \cup Answer)]
  <2>1. /\ toClient[b] \in Seq(ControlMsg \cup Answer)
        /\ conn \in [Backend -> {"connecting", "open", "closed"}]
        /\ server \in [Backend -> Server] /\ NewSession \in Server
        /\ toServer \in [Backend -> Seq(StartMsg \cup AbortMsg)]
      BY DEF RestTypeOK, CalcTypeOK, NewSession, Server
  <2>2. ASSUME Accept(b)
        PROVE  /\ ToClientOK
               /\ conn' \in [Backend -> {"connecting", "open", "closed"}]
               /\ inputs' \in 0..MaxInputs /\ failures' \in 0..MaxFailures
               /\ server' \in [Backend -> Server] /\ SessionOK'
               /\ toServer' \in [Backend -> Seq(StartMsg \cup AbortMsg)]
    <3> DEFINE m == [op |-> "CONFIG", max_workers |-> Workers[b]]
    <3>1. m \in ControlMsg
        BY BackendsAssumption DEF ControlMsg
    <3>2. toClient' = [toClient EXCEPT ![b] = Append(@, m)]
        BY <2>2 DEF Accept
    <3> HIDE DEF m
    <3>3. Append(toClient[b], m) \in Seq(ControlMsg \cup Answer)
        BY <2>1, <3>1
    <3> QED BY <2>1, <2>2, <3>2, <3>3 DEF Accept, bounds, RestTypeOK, SessionOK
  <2>3. ASSUME Fail(b)
        PROVE  /\ conn' \in [Backend -> {"connecting", "open", "closed"}]
               /\ inputs' \in 0..MaxInputs /\ failures' \in 0..MaxFailures
      BY <2>1, <2>3, BackendsAssumption DEF Fail, RestTypeOK
  <2>4. [op |-> "CLOSE"] \in ControlMsg
      BY DEF ControlMsg
  <2>6. ASSUME Refuse(b)
        PROVE  /\ ToClientOK
               /\ conn' \in [Backend -> {"connecting", "open", "closed"}]
               /\ inputs' \in 0..MaxInputs /\ failures' \in 0..MaxFailures
               /\ server' \in [Backend -> Server] /\ SessionOK'
               /\ toServer' \in [Backend -> Seq(StartMsg \cup AbortMsg)]
    <3>1. Append(toClient[b], [op |-> "CLOSE"]) \in Seq(ControlMsg \cup Answer)
        BY <2>1, <2>4
    <3> QED BY <2>1, <2>3, <2>6, <3>1 DEF Refuse, RestTypeOK, SessionOK
  <2>8. ASSUME Drop(b)
        PROVE  /\ ToClientOK
               /\ conn' \in [Backend -> {"connecting", "open", "closed"}]
               /\ inputs' \in 0..MaxInputs /\ failures' \in 0..MaxFailures
               /\ server' \in [Backend -> Server] /\ SessionOK'
               /\ toServer' \in [Backend -> Seq(StartMsg \cup AbortMsg)]
    <3>1. PICK n \in 0..Len(toClient[b]) :
              toClient' = [toClient EXCEPT ![b] = Append(SubSeq(@, 1, n), [op |-> "CLOSE"])]
        BY <2>8 DEF Drop
    <3>2. Append(SubSeq(toClient[b], 1, n), [op |-> "CLOSE"]) \in Seq(ControlMsg \cup Answer)
        BY <2>1, <2>4
    <3>3. ToClientOK
        BY <3>1, <3>2 DEF RestTypeOK
    <3>4. server' \in [Backend -> Server] /\ SessionOK'
        BY <2>8, DropFresh DEF SessionOK, Fresh
    <3>5. <<>> \in Seq(StartMsg \cup AbortMsg)
        OBVIOUS
    <3>6. toServer' \in [Backend -> Seq(StartMsg \cup AbortMsg)]
        BY <2>1, <2>8, <3>5 DEF Drop
    <3> QED BY <2>3, <2>8, <3>3, <3>4, <3>6 DEF Drop
  <2>5. UNCHANGED clientVars
      BY <1>13 DEF Accept, Refuse, Drop, Fail
  <2>7. BackendsTypeOK' /\ RestTypeOK'
      BY <1>13, <2>2, <2>6, <2>8, <2>5 DEF clientVars, backendVars, mirrorVars, endVars,
                                           BackendsTypeOK, RestTypeOK
  <2> QED BY <1>13, <2>2, <2>6, <2>8, <2>5, <2>7, FrameControl
          DEF clientVars, calcVars, viewVars, CalcTypeOK
<1>14. ASSUME NEW b \in Backend, ServerStep(b) PROVE ControlInv'
  <2>1. SUFFICES ASSUME /\ UNCHANGED <<clientVars, conn, bounds>>
                        /\ server' \in [Backend -> Server] /\ SessionOK'
                        /\ toServer' \in [Backend -> Seq(StartMsg \cup AbortMsg)]
                        /\ toClient' \in [Backend -> Seq(ControlMsg \cup Answer)]
                 PROVE  ControlInv'
    <3>1. server[b] \in Server
        BY DEF RestTypeOK
    <3>2. toServer[b] \in Seq(StartMsg \cup AbortMsg)
        BY DEF CalcTypeOK
    <3>3. ASSUME NEW msg \in Answer, ServerSends(b, msg)
          PROVE  toClient' \in [Backend -> Seq(ControlMsg \cup Answer)]
      <4>1. toClient[b] \in Seq(ControlMsg \cup Answer)
          BY DEF RestTypeOK
      <4>2. Append(toClient[b], msg) \in Seq(ControlMsg \cup Answer)
          BY <4>1
      <4> QED BY <3>3, <4>2 DEF ServerSends, RestTypeOK
    <3>4. ASSUME NEW op, ServerReads(b, op)
          PROVE  /\ toServer' \in [Backend -> Seq(StartMsg \cup AbortMsg)]
                 /\ Head(toServer[b]) \in StartMsg \cup AbortMsg
                 /\ Head(toServer[b]).op = op
      <4>1. toServer[b] # <<>>
          BY <3>1, <3>4 DEF ServerReads, Server
      <4>2. /\ Head(toServer[b]) \in StartMsg \cup AbortMsg
            /\ Tail(toServer[b]) \in Seq(StartMsg \cup AbortMsg)
          BY <3>2, <4>1
      <4> QED BY <3>4, <4>2 DEF ServerReads, CalcTypeOK
    <3>5. CASE ServerStart(b)
      <4>1. ServerReads(b, "START")
          BY <3>5 DEF ServerStart
      <4>2. Head(toServer[b]) \in StartMsg
          BY <3>4, <4>1 DEF AbortMsg
      <4>3. server' \in [Backend -> Server] /\ SessionOK'
        <5>1. PICK k \in LeftOver(b) :
                  server' = [server EXCEPT ![b] =
                                [calc |-> Head(toServer[b]), waiting |-> Blocks, running |-> {},
                                 phase |-> "calculating", kept |-> k, dead |-> FALSE]]
            BY <3>5 DEF ServerStart
        <5>2. k \in Nat
            BY <3>2, LeftOverNat
        <5> QED BY <4>2, <5>1, <5>2, NoCalcAssumption DEF Server, RestTypeOK, SessionOK
      <4> QED BY <3>4, <3>5, <4>1, <4>3, <2>1 DEF ServerStart, ServerReads, RestTypeOK
    <3>6. CASE ServerAbort(b)
      <4> DEFINE id == IF b \notin OwnId THEN Head(toServer[b]).id
                        ELSE IF server[b].calc = NoCalc THEN 0
                        ELSE server[b].calc.id
                 msg == [op |-> "ABORTED", id |-> id]
      <4>1. ServerReads(b, "ABORT") /\ ServerSends(b, msg)
          BY <3>6 DEF ServerAbort
      <4>2. Head(toServer[b]).id \in Nat
          BY <3>4, <4>1 DEF AbortMsg, StartMsg
      <4>3. server[b].calc # NoCalc => server[b].calc.id \in Nat
          BY <3>1 DEF Server, StartMsg
      <4>4. id \in Nat
          BY <4>2, <4>3
      <4>5. msg \in Answer
          BY <4>4 DEF Answer, EndMsg
      <4>6. server' \in [Backend -> Server] /\ SessionOK'
        <5>1. /\ server' \in [Backend -> Server]
              /\ server'[b].calc = server[b].calc
              /\ server'[b].phase # "idle" => server[b].phase # "idle"
              /\ \A c \in Backend \ {b} : server'[c] = server[c]
            BY <3>6, AbortedSession
        <5> QED BY <5>1 DEF SessionOK
      <4> HIDE DEF msg
      <4> QED BY <3>3, <3>4, <4>1, <4>5, <4>6, <2>1 DEF ServerReads
    <3>7. ASSUME NEW blk \in Blocks,
                 ServerBlockStarted(b, blk) \/ ServerBlockCompleted(b, blk)
          PROVE  ControlInv'
      <4>1. PICK op \in {"BLOCK_STARTED", "BLOCK_COMPLETED"} :
                ServerSends(b, [op |-> op, id |-> server[b].calc.id,
                                coords |-> server[b].calc.coords, block |-> blk])
          BY <3>7 DEF ServerBlockStarted, ServerBlockCompleted
      <4> DEFINE msg == [op |-> op, id |-> server[b].calc.id,
                         coords |-> server[b].calc.coords, block |-> blk]
      <4>2. server[b].calc \in StartMsg
          BY <3>1, <3>7 DEF ServerBlockStarted, ServerBlockCompleted, SessionOK, Server
      <4>3. msg \in Answer
          BY <4>2 DEF Answer, BlockMsg, StartMsg
      <4>4. server' \in [Backend -> Server] /\ SessionOK'
        <5>1. CASE ServerBlockStarted(b, blk)
            BY <3>1, <4>2, <5>1, NoCalcAssumption
               DEF ServerBlockStarted, Server, RestTypeOK, SessionOK
        <5>2. CASE ServerBlockCompleted(b, blk)
            BY <3>1, <4>2, <5>2, NoCalcAssumption
               DEF ServerBlockCompleted, Server, RestTypeOK, SessionOK
        <5> QED BY <3>7, <5>1, <5>2
      <4>5. UNCHANGED <<clientVars, conn, toServer, bounds>>
          BY <3>7 DEF ServerBlockStarted, ServerBlockCompleted
      <4>6. ServerSends(b, msg)
          BY <4>1
      <4> HIDE DEF msg
      <4> QED BY <3>3, <4>3, <4>4, <4>5, <4>6, <2>1 DEF CalcTypeOK
    <3>8. CASE ServerCompleted(b)
      <4> DEFINE msg == [op |-> "COMPLETED", id |-> server[b].calc.id]
      <4>1. server[b].calc \in StartMsg
          BY <3>1, <3>8 DEF ServerCompleted, SessionOK, Server
      <4>2. msg \in Answer
          BY <4>1 DEF Answer, EndMsg, StartMsg
      <4>3. server' \in [Backend -> Server] /\ SessionOK'
          BY <3>1, <3>8 DEF ServerCompleted, Server, RestTypeOK, SessionOK
      <4>4. ServerSends(b, msg) /\ UNCHANGED <<clientVars, conn, toServer, bounds>>
          BY <3>8 DEF ServerCompleted
      <4> HIDE DEF msg
      <4> QED BY <3>3, <4>2, <4>3, <4>4, <2>1 DEF CalcTypeOK
    <3> QED BY <1>14, <3>5, <3>6, <3>7, <3>8 DEF ServerStep
  <2>2. BackendsTypeOK' /\ RestTypeOK'
      BY <2>1 DEF clientVars, backendVars, mirrorVars, endVars, bounds,
                  BackendsTypeOK, RestTypeOK
  <2> QED BY <2>1, <2>2, FrameControl DEF clientVars, calcVars, viewVars, CalcTypeOK
<1>15. ASSUME UNCHANGED vars PROVE ControlInv'
    BY <1>15 DEF LastOK, vars, calcVars, endVars, viewVars, backendVars, mirrorVars, bounds, TypeOK,
                 PendingIffAborting, TimesUnset, SessionOK
<1> QED BY <1>1, <1>2, <1>3, <1>4, <1>5, <1>6, <1>7, <1>8, <1>9, <1>10, <1>11,
           <1>12, <1>13, <1>14, <1>15 DEF Next, User, Deliver

THEOREM ControlInvariant == Spec => []ControlInv
<1>1. Init => ControlInv
    BY ControlInit
<1>2. ControlInv /\ [Next]_vars => ControlInv'
    BY ControlStep
<1> QED BY <1>1, <1>2, PTL DEF Spec

\* Every variable keeps its type.
THEOREM TypeCorrect == Spec => []TypeOK
<1>1. ControlInv => TypeOK
    BY DEF ControlInv
<1> QED BY <1>1, ControlInvariant, PTL

\* A request waits exactly while the calculation before it is aborted, so the
\* 200 ms timer never finds one that a handler left behind.
THEOREM PendingRequests == Spec => []PendingIffAborting
<1>1. ControlInv => PendingIffAborting
    BY DEF ControlInv
<1> QED BY <1>1, ControlInvariant, PTL

-----------------------------------------------------------------------------
(* The watch invariant: what the messages under way, and the servers, can  *)
(* be about.  st and calc stand for state and current, because a handler   *)
(* changes both before it calls handleCalculationState.                    *)

Running(st) == st \in {"calculating", "aborting"}

\* An id the client has given; the last one belongs to one backend.
Known(b, id, calc) ==
    /\ id <= lastId
    /\ calc # NoCalc /\ id = calc.id => b = calc.backend

WatchedBy(b, id, st, calc) == Running(st) /\ calc.id = id /\ calc.backend = b

IdsKnown(b, calc) ==
    /\ \A i \in DOMAIN toServer[b] : Known(b, toServer[b][i].id, calc)
    /\ \A i \in DOMAIN toClient[b] :
          toClient[b][i] \in Answer => Known(b, toClient[b][i].id, calc)
    /\ server[b].calc # NoCalc => Known(b, server[b].calc.id, calc)

\* At most one START is under way to a backend; it is watched, it is not what
\* the backend has calculated before, and its ABORT comes after it.
StartsOK(b, st, calc) ==
    \A i \in DOMAIN toServer[b] : toServer[b][i].op = "START" =>
        /\ WatchedBy(b, toServer[b][i].id, st, calc)
        /\ server[b].calc # NoCalc => server[b].calc.id # toServer[b][i].id
        /\ \A j \in DOMAIN toServer[b] :
              /\ toServer[b][j].op = "START" => j = i
              /\ toServer[b][j].op = "ABORT" /\ toServer[b][j].id = toServer[b][i].id
                    => i < j

RunOK(b, st, calc) ==
    server[b].phase = "calculating" => WatchedBy(b, server[b].calc.id, st, calc)

\* What a backend has reported as ended is neither running nor still to start.
EndsOK(b) ==
    \A n \in DOMAIN toClient[b] : toClient[b][n].op \in {"COMPLETED", "ABORTED"} =>
        /\ \A i \in DOMAIN toServer[b] :
              toServer[b][i].op = "START" => toServer[b][i].id # toClient[b][n].id
        /\ server[b].phase = "calculating" => server[b].calc.id # toClient[b][n].id

Watch(st, calc) ==
    /\ LastOK(calc)
    /\ \A b \in Backend : IdsKnown(b, calc) /\ StartsOK(b, st, calc)
                          /\ RunOK(b, st, calc) /\ EndsOK(b)

WatchInv == Watch(state, current)

-----------------------------------------------------------------------------
(* Sequences of messages.                                                  *)

LEMMA AppendAt ==
    ASSUME NEW S, NEW s \in Seq(S), NEW e \in S
    PROVE  /\ Len(s) \in Nat /\ DOMAIN s = 1..Len(s)
           /\ Append(s, e) \in Seq(S)
           /\ \A i \in DOMAIN Append(s, e) :
                 \/ i \in DOMAIN s /\ Append(s, e)[i] = s[i]
                 \/ i = Len(s) + 1 /\ Append(s, e)[i] = e
    OBVIOUS

LEMMA TailAt ==
    ASSUME NEW S, NEW s \in Seq(S), s # <<>>
    PROVE  /\ Len(s) \in Nat \ {0} /\ DOMAIN s = 1..Len(s)
           /\ Head(s) = s[1] /\ Tail(s) \in Seq(S)
           /\ DOMAIN Tail(s) = 1..Len(s) - 1
           /\ \A i \in DOMAIN Tail(s) : i + 1 \in DOMAIN s /\ Tail(s)[i] = s[i + 1]
    OBVIOUS

-----------------------------------------------------------------------------
(* The client's handlers.                                                  *)

\* toClient loses messages at most.
Popped == \A b \in Backend : \A i \in DOMAIN toClient'[b] :
              \E j \in DOMAIN toClient[b] : toClient'[b][i] = toClient[b][j]

LEMMA QuietWatch ==
    ASSUME NEW STATE st, NEW STATE calc, Watch(st, calc), Popped,
           Running(st) => Running(state'), current' = calc,
           UNCHANGED <<lastId, toServer, server>>
    PROVE  WatchInv'
<1>1. LastOK(current)'
    BY DEF Watch, LastOK
<1> SUFFICES ASSUME NEW b \in Backend
             PROVE  (IdsKnown(b, current) /\ StartsOK(b, state, current)
                     /\ RunOK(b, state, current) /\ EndsOK(b))'
    BY <1>1 DEF WatchInv, Watch
<1>2. IdsKnown(b, calc) /\ StartsOK(b, st, calc) /\ RunOK(b, st, calc) /\ EndsOK(b)
    BY DEF Watch
<1>3. \A i \in DOMAIN toClient'[b] :
          \E j \in DOMAIN toClient[b] : toClient'[b][i] = toClient[b][j]
    BY DEF Popped
<1>4. IdsKnown(b, current)'
    BY <1>2, <1>3 DEF IdsKnown, Known
<1>5. StartsOK(b, state, current)' /\ RunOK(b, state, current)'
    BY <1>2 DEF StartsOK, RunOK, WatchedBy
<1>6. EndsOK(b)'
    BY <1>2, <1>3 DEF EndsOK
<1> QED BY <1>4, <1>5, <1>6

LEMMA StartWatch ==
    ASSUME CalcTypeOK, BackendsTypeOK', NEW STATE st, NEW STATE calc, NEW STATE req,
           Watch(st, calc), ~Running(st), req \in Request, Start(req), Popped,
           UNCHANGED repeats,
           toClient \in [Backend -> Seq(ControlMsg \cup Answer)],
           server \in [Backend -> Server], UNCHANGED server
    PROVE  WatchInv'
<1>1. /\ lastId \in Nat /\ NewId = lastId + 1 /\ lastId' = NewId
      /\ current'.id = NewId /\ current'.backend = selected' /\ state' = "calculating"
      /\ current' # NoCalc /\ selected' \in Backend
    BY StartType DEF Start, NewId, CalcTypeOK, BackendsTypeOK
<1>2. LastOK(current)'
    BY <1>1 DEF LastOK
<1> SUFFICES ASSUME NEW b \in Backend
             PROVE  (IdsKnown(b, current) /\ StartsOK(b, state, current)
                     /\ RunOK(b, state, current) /\ EndsOK(b))'
    BY <1>2 DEF WatchInv, Watch
<1>3. IdsKnown(b, calc) /\ StartsOK(b, st, calc) /\ RunOK(b, st, calc) /\ EndsOK(b)
    BY DEF Watch
<1>4. \A i \in DOMAIN toClient'[b] :
          \E j \in DOMAIN toClient[b] : toClient'[b][i] = toClient[b][j]
    BY DEF Popped
<1>5. \A i \in DOMAIN toServer[b] : toServer[b][i].op # "START"
    BY <1>3 DEF StartsOK, WatchedBy
<1>6. server[b].phase # "calculating"
    BY <1>3 DEF RunOK, WatchedBy
<1>7. /\ \A i \in DOMAIN toServer[b] : toServer[b][i].id <= lastId /\ toServer[b][i].id \in Nat
      /\ server[b].calc # NoCalc => server[b].calc.id <= lastId /\ server[b].calc.id \in Nat
      /\ \A i \in DOMAIN toClient[b] : toClient[b][i] \in Answer =>
            toClient[b][i].id <= lastId /\ toClient[b][i].id \in Nat
  <2>1. toServer[b] \in Seq(StartMsg \cup AbortMsg) /\ server[b] \in Server
      BY DEF CalcTypeOK
  <2> QED BY <1>3, <2>1 DEF IdsKnown, Known, StartMsg, AbortMsg, Server, Answer, BlockMsg, EndMsg
<1>8. PICK msg \in StartMsg :
          /\ msg.op = "START" /\ msg.id = NewId
          /\ \/ toServer'[b] = toServer[b]
             \/ b = selected' /\ toServer'[b] = Append(toServer[b], msg)
  <2> DEFINE m == [op |-> "START", id |-> NewId, coords |-> req.coords, workers |-> WorkerCount]
  <2>1. WorkerCount \in Nat \ {0}
      BY BackendsAssumption DEF WorkerCount, BackendsTypeOK
  <2>2. m \in StartMsg
      BY <1>1, <2>1 DEF StartMsg, Request, CalcTypeOK
  <2>3. \/ toServer'[b] = toServer[b]
        \/ b = selected' /\ toServer'[b] = Append(toServer[b], m)
      BY <1>1 DEF Start, Send, CalcTypeOK
  <2> QED BY <2>2, <2>3
<1>9. /\ Len(toServer[b]) \in Nat /\ DOMAIN toServer[b] = 1..Len(toServer[b])
      /\ \A i \in DOMAIN toServer'[b] :
            \/ i \in DOMAIN toServer[b] /\ toServer'[b][i] = toServer[b][i]
            \/ i = Len(toServer[b]) + 1 /\ toServer'[b][i] = msg /\ b = selected'
  <2>1. toServer[b] \in Seq(StartMsg \cup AbortMsg)
      BY DEF CalcTypeOK
  <2>2. CASE toServer'[b] = toServer[b]
      BY <2>1, <2>2
  <2>3. CASE b = selected' /\ toServer'[b] = Append(toServer[b], msg)
    <3>1. msg \in StartMsg \cup AbortMsg
        OBVIOUS
    <3> QED BY <2>1, <2>3, <3>1, AppendAt
  <2> QED BY <1>8, <2>2, <2>3
<1>11. IdsKnown(b, current)'
    BY <1>1, <1>4, <1>7, <1>8, <1>9 DEF IdsKnown, Known
<1>12. RunOK(b, state, current)'
    BY <1>6 DEF RunOK
<1>13. StartsOK(b, state, current)'
  <2>1. ASSUME NEW i \in DOMAIN toServer'[b], toServer'[b][i].op = "START"
        PROVE  /\ i = Len(toServer[b]) + 1 /\ toServer'[b][i] = msg /\ b = selected'
      BY <1>5, <1>9, <2>1
  <2>2. ASSUME NEW j \in DOMAIN toServer'[b], toServer'[b][j].op = "ABORT"
        PROVE  toServer'[b][j].id # msg.id
    <3>1. j \in DOMAIN toServer[b] /\ toServer'[b][j] = toServer[b][j]
        BY <1>8, <1>9, <2>2
    <3> QED BY <1>1, <1>7, <1>8, <3>1
  <2>3. WatchedBy(b, msg.id, state, current)' \/ b # selected'
      BY <1>1, <1>8 DEF WatchedBy, Running
  <2>4. server'[b].calc # NoCalc => server'[b].calc.id # msg.id
      BY <1>1, <1>7, <1>8
  <2> QED BY <1>8, <2>1, <2>2, <2>3, <2>4 DEF StartsOK
<1>14. EndsOK(b)'
  <2>1. ASSUME NEW n \in DOMAIN toClient'[b], toClient'[b][n].op \in {"COMPLETED", "ABORTED"}
        PROVE  toClient'[b][n].id \in Nat /\ toClient'[b][n].id <= lastId
    <3>1. PICK j \in DOMAIN toClient[b] : toClient'[b][n] = toClient[b][j]
        BY <1>4
    <3>2. toClient[b][j] \in ControlMsg \cup Answer
        OBVIOUS
    <3>3. toClient[b][j] \in Answer
        BY <2>1, <3>1, <3>2 DEF ControlMsg
    <3> QED BY <1>7, <3>1, <3>3
  <2> SUFFICES ASSUME NEW n \in DOMAIN toClient'[b],
                      toClient'[b][n].op \in {"COMPLETED", "ABORTED"}
               PROVE  /\ \A i \in DOMAIN toServer'[b] :
                            toServer'[b][i].op = "START"
                                => toServer'[b][i].id # toClient'[b][n].id
                      /\ server'[b].phase = "calculating"
                            => server'[b].calc.id # toClient'[b][n].id
      BY DEF EndsOK
  <2>2. toClient'[b][n].id # NewId
      BY <1>1, <2>1
  <2>3. server'[b].phase # "calculating"
      BY <1>6
  <2>4. ASSUME NEW i \in DOMAIN toServer'[b], toServer'[b][i].op = "START"
        PROVE  toServer'[b][i].id # toClient'[b][n].id
      BY <1>5, <1>8, <1>9, <2>2, <2>4
  <2> QED BY <2>3, <2>4
<1> QED BY <1>11, <1>12, <1>13, <1>14

LEMMA AbortWatch ==
    ASSUME CalcTypeOK, NEW STATE st, NEW STATE calc, NEW STATE req,
           Watch(st, calc), st = "calculating", calc \in Calculation,
           AbortCurrent(calc, req), Popped, UNCHANGED server
    PROVE  WatchInv'
<1>1. /\ calc.id \in Nat /\ calc.backend \in Backend /\ calc # NoCalc
      /\ state' = "aborting" /\ current' = calc /\ lastId' = lastId
    BY NoCalcAssumption DEF Calculation, AbortCurrent
<1>2. LastOK(current)'
    BY <1>1 DEF LastOK, Watch
<1> SUFFICES ASSUME NEW b \in Backend
             PROVE  (IdsKnown(b, current) /\ StartsOK(b, state, current)
                     /\ RunOK(b, state, current) /\ EndsOK(b))'
    BY <1>2 DEF WatchInv, Watch
<1>3. IdsKnown(b, calc) /\ StartsOK(b, st, calc) /\ RunOK(b, st, calc) /\ EndsOK(b)
    BY DEF Watch
<1>4. \A i \in DOMAIN toClient'[b] :
          \E j \in DOMAIN toClient[b] : toClient'[b][i] = toClient[b][j]
    BY DEF Popped
<1>5. PICK msg \in AbortMsg :
          /\ msg.op = "ABORT" /\ msg.id = calc.id
          /\ \/ toServer'[b] = toServer[b]
             \/ b = calc.backend /\ toServer'[b] = Append(toServer[b], msg)
  <2> DEFINE m == [op |-> "ABORT", id |-> calc.id]
  <2>1. m \in AbortMsg
      BY <1>1 DEF AbortMsg
  <2>2. \/ toServer'[b] = toServer[b]
        \/ b = calc.backend /\ toServer'[b] = Append(toServer[b], m)
      BY <1>1 DEF AbortCurrent, Send, CalcTypeOK
  <2> QED BY <2>1, <2>2
<1>6. /\ Len(toServer[b]) \in Nat /\ DOMAIN toServer[b] = 1..Len(toServer[b])
      /\ \A i \in DOMAIN toServer'[b] :
            \/ i \in DOMAIN toServer[b] /\ toServer'[b][i] = toServer[b][i]
            \/ i = Len(toServer[b]) + 1 /\ toServer'[b][i] = msg /\ b = calc.backend
  <2>1. toServer[b] \in Seq(StartMsg \cup AbortMsg)
      BY DEF CalcTypeOK
  <2>2. CASE toServer'[b] = toServer[b]
      BY <2>1, <2>2
  <2>3. CASE b = calc.backend /\ toServer'[b] = Append(toServer[b], msg)
    <3>1. msg \in StartMsg \cup AbortMsg
        OBVIOUS
    <3> QED BY <2>1, <2>3, <3>1, AppendAt
  <2> QED BY <1>5, <2>2, <2>3
<1>7. IdsKnown(b, current)'
  <2>1. Known(b, calc.id, calc) \/ b # calc.backend
      BY <1>1, <1>2 DEF Known, LastOK, CalcTypeOK
  <2> QED BY <1>1, <1>3, <1>4, <1>5, <1>6, <2>1 DEF IdsKnown, Known
<1>8. StartsOK(b, state, current)'
  <2> SUFFICES ASSUME NEW i \in DOMAIN toServer'[b], toServer'[b][i].op = "START"
               PROVE  (/\ WatchedBy(b, toServer[b][i].id, state, current)
                       /\ server[b].calc # NoCalc => server[b].calc.id # toServer[b][i].id
                       /\ \A j \in DOMAIN toServer[b] :
                             /\ toServer[b][j].op = "START" => j = i
                             /\ toServer[b][j].op = "ABORT" /\ toServer[b][j].id = toServer[b][i].id
                                   => i < j)'
      BY DEF StartsOK
  <2>1. i \in DOMAIN toServer[b] /\ toServer'[b][i] = toServer[b][i]
      BY <1>5, <1>6
  <2>2. /\ WatchedBy(b, toServer[b][i].id, st, calc)
        /\ server[b].calc # NoCalc => server[b].calc.id # toServer[b][i].id
      BY <1>3, <2>1 DEF StartsOK
  <2>3. ASSUME NEW j \in DOMAIN toServer'[b]
        PROVE  /\ toServer'[b][j].op = "START" => j = i
               /\ toServer'[b][j].op = "ABORT" /\ toServer'[b][j].id = toServer'[b][i].id
                     => i < j
      BY <1>3, <1>5, <1>6, <2>1 DEF StartsOK
  <2> QED BY <1>1, <2>1, <2>2, <2>3 DEF WatchedBy, Running
<1>9. RunOK(b, state, current)'
    BY <1>1, <1>3 DEF RunOK, WatchedBy, Running
<1>10. EndsOK(b)'
    BY <1>3, <1>4, <1>5, <1>6 DEF EndsOK
<1> QED BY <1>7, <1>8, <1>9, <1>10

\* handleCalculationState keeps the invariant, whatever consistent state and
\* calculation the handler before it leaves.
LEMMA HandleWatch ==
    ASSUME CalcTypeOK, BackendsTypeOK', NEW STATE st, NEW STATE calc, NEW STATE req,
           Watch(st, calc), Handed(st, calc, req), Handle(st, calc, req), Popped,
           UNCHANGED repeats,
           toClient \in [Backend -> Seq(ControlMsg \cup Answer)],
           server \in [Backend -> Server], UNCHANGED server
    PROVE  WatchInv'
<1>1. CASE st \in Waiting /\ req # NoCalc /\ Start(req)
    BY <1>1, StartWatch DEF Handed, Waiting, Running
<1>2. CASE st \in Waiting /\ ForgetRequest(calc, req)
    BY <1>2, QuietWatch DEF ForgetRequest, Waiting, Running
<1>3. CASE st = "calculating" /\ AbortCurrent(calc, req)
    BY <1>3, AbortWatch DEF Handed
<1>4. CASE state' = st /\ current' = calc /\ UNCHANGED <<lastId, repeats, viewVars, toServer>>
    BY <1>4, QuietWatch DEF Running
<1> QED BY <1>1, <1>2, <1>3, <1>4 DEF Handle

\* A calculation that is reported as ended, and is current, runs nowhere.
LEMMA EndedWatch ==
    ASSUME WatchInv, TypeOK, NEW b \in Backend, NEW op \in {"COMPLETED", "ABORTED"},
           Receive(b, op), IsCurrent(Head(toClient[b]).id),
           NEW STATE st, NEW STATE calc, ~Running(st), calc # NoCalc,
           calc.id = current.id, calc.backend = current.backend
    PROVE  Watch(st, calc)
<1>1. /\ toClient[b] \in Seq(ControlMsg \cup Answer) /\ toClient[b] # <<>>
      /\ 1 \in DOMAIN toClient[b] /\ Head(toClient[b]) = toClient[b][1]
      /\ toClient[b][1].op = op /\ toClient[b][1].id = current.id
      /\ current # NoCalc
    BY DEF TypeOK, Receive, IsCurrent
<1>2. toClient[b][1] \in Answer
    BY <1>1 DEF ControlMsg
<1>3. b = current.backend
    BY <1>1, <1>2 DEF WatchInv, Watch, IdsKnown, Known
<1>4. /\ \A i \in DOMAIN toServer[b] :
            toServer[b][i].op = "START" => toServer[b][i].id # current.id
      /\ server[b].phase = "calculating" => server[b].calc.id # current.id
    BY <1>1 DEF WatchInv, Watch, EndsOK
<1> SUFFICES ASSUME NEW c \in Backend
             PROVE  IdsKnown(c, calc) /\ StartsOK(c, st, calc) /\ RunOK(c, st, calc) /\ EndsOK(c)
    BY <1>1 DEF WatchInv, Watch, LastOK
<1>5. IdsKnown(c, current) /\ StartsOK(c, state, current) /\ RunOK(c, state, current) /\ EndsOK(c)
    BY DEF WatchInv, Watch
<1>6. IdsKnown(c, calc)
    BY <1>1, <1>5 DEF IdsKnown, Known
<1>7. StartsOK(c, st, calc) /\ RunOK(c, st, calc)
    BY <1>3, <1>4, <1>5 DEF StartsOK, RunOK, WatchedBy
<1> QED BY <1>5, <1>6, <1>7

LEMMA ReceivePopped ==
    ASSUME TypeOK, NEW b \in Backend, NEW op, Receive(b, op)
    PROVE  Popped
<1>1. toClient \in [Backend -> Seq(ControlMsg \cup Answer)] /\ toClient[b] # <<>>
    BY DEF TypeOK, Receive
<1> SUFFICES ASSUME NEW c \in Backend, NEW i \in DOMAIN toClient'[c]
             PROVE  \E j \in DOMAIN toClient[c] : toClient'[c][i] = toClient[c][j]
    BY DEF Popped
<1>2. CASE c = b
  <2>1. toClient'[b] = Tail(toClient[b])
      BY <1>1 DEF Receive
  <2> QED BY <1>1, <1>2, <2>1, TailAt
<1>3. CASE c # b
    BY <1>1, <1>3 DEF Receive
<1> QED BY <1>2, <1>3

-----------------------------------------------------------------------------
(* The connections and the servers.                                        *)

\* Only one backend and its channels change.
LEMMA BackendWatch ==
    ASSUME WatchInv, NEW b \in Backend, UNCHANGED <<state, current, lastId>>,
           \A c \in Backend \ {b} : UNCHANGED <<toServer[c], toClient[c], server[c]>>,
           IdsKnown(b, current)', StartsOK(b, state, current)', RunOK(b, state, current)',
           EndsOK(b)'
    PROVE  WatchInv'
<1>1. LastOK(current)'
    BY DEF WatchInv, Watch, LastOK
<1> SUFFICES ASSUME NEW c \in Backend \ {b}
             PROVE  (IdsKnown(c, current) /\ StartsOK(c, state, current)
                     /\ RunOK(c, state, current) /\ EndsOK(c))'
    BY <1>1 DEF WatchInv, Watch
<1>2. IdsKnown(c, current) /\ StartsOK(c, state, current) /\ RunOK(c, state, current) /\ EndsOK(c)
    BY DEF WatchInv, Watch
<1>3. toServer'[c] = toServer[c] /\ toClient'[c] = toClient[c] /\ server'[c] = server[c]
    OBVIOUS
<1> QED BY <1>2, <1>3 DEF IdsKnown, Known, StartsOK, WatchedBy, RunOK, EndsOK

LEMMA ServerSendsAt ==
    ASSUME TypeOK, NEW b \in Backend, NEW msg \in ControlMsg \cup Answer, ServerSends(b, msg)
    PROVE  /\ \A n \in DOMAIN toClient'[b] :
                 \/ n \in DOMAIN toClient[b] /\ toClient'[b][n] = toClient[b][n]
                 \/ n = Len(toClient[b]) + 1 /\ toClient'[b][n] = msg
           /\ \A c \in Backend \ {b} : toClient'[c] = toClient[c]
<1>1. toClient \in [Backend -> Seq(ControlMsg \cup Answer)]
    BY DEF TypeOK
<1>2. toClient'[b] = Append(toClient[b], msg)
    BY <1>1 DEF ServerSends
<1>3. toClient[b] \in Seq(ControlMsg \cup Answer)
    BY <1>1
<1>4. \A c \in Backend \ {b} : toClient'[c] = toClient[c]
    BY <1>1 DEF ServerSends
<1> QED BY <1>2, <1>3, <1>4, AppendAt

LEMMA ServerReadsAt ==
    ASSUME TypeOK, NEW b \in Backend, NEW op, ServerReads(b, op)
    PROVE  /\ 1 \in DOMAIN toServer[b] /\ Head(toServer[b]) = toServer[b][1]
           /\ toServer[b][1] \in StartMsg \cup AbortMsg /\ toServer[b][1].op = op
           /\ \A i \in DOMAIN toServer'[b] :
                 /\ i \in Nat /\ i + 1 \in DOMAIN toServer[b] /\ i + 1 > 1
                 /\ toServer'[b][i] = toServer[b][i + 1]
           /\ \A c \in Backend \ {b} : toServer'[c] = toServer[c]
           /\ UNCHANGED <<state, current, lastId>>
<1>0. server[b].kept \in Nat
    BY DEF TypeOK, Server
<1>1. toServer \in [Backend -> Seq(StartMsg \cup AbortMsg)] /\ toServer[b] # <<>>
    BY <1>0 DEF TypeOK, ServerReads
<1>2. toServer'[b] = Tail(toServer[b]) /\ \A c \in Backend \ {b} : toServer'[c] = toServer[c]
    BY <1>1 DEF ServerReads
<1>3. toServer[b] \in Seq(StartMsg \cup AbortMsg)
    BY <1>1
<1>4. /\ 1 \in DOMAIN toServer[b] /\ Head(toServer[b]) = toServer[b][1]
      /\ toServer[b][1] \in StartMsg \cup AbortMsg
      /\ \A i \in DOMAIN Tail(toServer[b]) :
            /\ i \in Nat /\ i + 1 \in DOMAIN toServer[b] /\ i + 1 > 1
            /\ Tail(toServer[b])[i] = toServer[b][i + 1]
    BY <1>1, <1>3, TailAt
<1> QED BY <1>2, <1>4 DEF ServerReads, clientVars, calcVars

LEMMA ServerStartWatch ==
    ASSUME WatchInv, ControlInv, NEW b \in Backend, ServerStart(b)
    PROVE  WatchInv'
<1> DEFINE start == toServer[b][1]
<1>1. TypeOK /\ ServerReads(b, "START")
    BY DEF ControlInv, ServerStart
<1>2. /\ 1 \in DOMAIN toServer[b] /\ Head(toServer[b]) = start
      /\ start \in StartMsg \cup AbortMsg /\ start.op = "START"
      /\ \A i \in DOMAIN toServer'[b] :
            /\ i \in Nat /\ i + 1 \in DOMAIN toServer[b] /\ i + 1 > 1
            /\ toServer'[b][i] = toServer[b][i + 1]
      /\ \A c \in Backend \ {b} : toServer'[c] = toServer[c]
      /\ UNCHANGED <<state, current, lastId>>
    BY <1>1, ServerReadsAt
<1>3. /\ server'[b].calc = start
      /\ \A c \in Backend \ {b} : server'[c] = server[c]
      /\ UNCHANGED toClient
    BY <1>1, <1>2 DEF ServerStart, TypeOK
<1> HIDE DEF start
<1>4. IdsKnown(b, current) /\ StartsOK(b, state, current) /\ EndsOK(b)
    BY DEF WatchInv, Watch
<1>5. start = toServer[b][1]
    BY DEF start
<1>6. /\ WatchedBy(b, start.id, state, current)
      /\ \A j \in DOMAIN toServer[b] : toServer[b][j].op = "START" => j = 1
    BY <1>2, <1>4, <1>5 DEF StartsOK
<1>7. \A i \in DOMAIN toServer'[b] : toServer'[b][i].op # "START"
    BY <1>2, <1>6
<1>8. IdsKnown(b, current)'
    BY <1>2, <1>3, <1>4, <1>5 DEF IdsKnown, Known
<1>9. StartsOK(b, state, current)'
    BY <1>7 DEF StartsOK
<1>10. RunOK(b, state, current)'
    BY <1>2, <1>3, <1>6 DEF RunOK, WatchedBy
<1>11. EndsOK(b)'
    BY <1>2, <1>3, <1>4, <1>5, <1>7 DEF EndsOK
<1> QED BY <1>2, <1>3, <1>8, <1>9, <1>10, <1>11, BackendWatch

LEMMA ServerAbortWatch ==
    ASSUME WatchInv, ControlInv, NEW b \in Backend, ServerAbort(b)
    PROVE  WatchInv'
<1> DEFINE calc == server[b].calc
           read == toServer[b][1]
<1>1. TypeOK /\ ServerReads(b, "ABORT") /\ server[b] \in Server
    BY DEF ControlInv, ServerAbort, TypeOK
<1>2. /\ 1 \in DOMAIN toServer[b] /\ Head(toServer[b]) = read
      /\ read \in StartMsg \cup AbortMsg /\ read.op = "ABORT"
      /\ \A i \in DOMAIN toServer'[b] :
            /\ i \in Nat /\ i + 1 \in DOMAIN toServer[b] /\ i + 1 > 1
            /\ toServer'[b][i] = toServer[b][i + 1]
      /\ \A c \in Backend \ {b} : toServer'[c] = toServer[c]
      /\ UNCHANGED <<state, current, lastId>>
    BY <1>1, ServerReadsAt
<1>3. /\ server'[b].calc = calc /\ server'[b].phase # "calculating"
      /\ \A c \in Backend \ {b} : server'[c] = server[c]
    BY <1>1, AbortedSession
<1>4. PICK id \in Nat :
          /\ ServerSends(b, [op |-> "ABORTED", id |-> id])
          /\ \/ id = read.id
             \/ id = 0
             \/ calc # NoCalc /\ id = calc.id
  <2> DEFINE i == IF b \notin OwnId THEN Head(toServer[b]).id
                   ELSE IF calc = NoCalc THEN 0
                   ELSE calc.id
  <2>1. ServerSends(b, [op |-> "ABORTED", id |-> i])
      BY DEF ServerAbort
  <2>2. i = read.id \/ i = 0 \/ (calc # NoCalc /\ i = calc.id)
      BY <1>2
  <2>3. read.id \in Nat /\ (calc # NoCalc => calc.id \in Nat)
      BY <1>1, <1>2 DEF StartMsg, AbortMsg, Server
  <2> HIDE DEF i
  <2> QED BY <2>1, <2>2, <2>3
<1>5. PICK msg \in Answer : msg.op = "ABORTED" /\ msg.id = id /\ ServerSends(b, msg)
  <2>1. [op |-> "ABORTED", id |-> id] \in Answer
      BY DEF Answer, EndMsg
  <2> QED BY <1>4, <2>1
<1>6. /\ \A n \in DOMAIN toClient'[b] :
            \/ n \in DOMAIN toClient[b] /\ toClient'[b][n] = toClient[b][n]
            \/ n = Len(toClient[b]) + 1 /\ toClient'[b][n] = msg
      /\ \A c \in Backend \ {b} : toClient'[c] = toClient[c]
    BY <1>1, <1>5, ServerSendsAt
<1>7. IdsKnown(b, current) /\ StartsOK(b, state, current) /\ RunOK(b, state, current) /\ EndsOK(b)
    BY DEF WatchInv, Watch
<1>8. /\ read = toServer[b][1] /\ calc = server[b].calc
      /\ lastId \in Nat /\ (current # NoCalc => current.id \in Nat \ {0})
    BY <1>1 DEF TypeOK, Calculation
<1>9. \A i \in DOMAIN toServer[b] :
          toServer[b][i].op = "START" => toServer[b][i].id \in Nat \ {0}
    BY <1>1 DEF TypeOK, StartMsg, AbortMsg
<1> HIDE DEF read, calc
<1>10. Known(b, id, current)
    BY <1>2, <1>4, <1>7, <1>8 DEF IdsKnown, Known
<1>11. \A i \in DOMAIN toServer'[b] : toServer'[b][i].op = "START" => toServer'[b][i].id # id
  <2> SUFFICES ASSUME NEW i \in DOMAIN toServer'[b], toServer'[b][i].op = "START"
               PROVE  toServer'[b][i].id # id
      OBVIOUS
  <2>1. /\ i \in Nat /\ i + 1 \in DOMAIN toServer[b] /\ toServer'[b][i] = toServer[b][i + 1]
      BY <1>2
  <2>2. CASE id = read.id
    <3>1. toServer[b][i + 1].id # read.id \/ i + 1 < 1
        BY <1>2, <1>7, <1>8, <2>1 DEF StartsOK
    <3> QED BY <2>1, <2>2, <3>1
  <2>3. CASE id = 0
      BY <1>9, <2>1, <2>3
  <2>4. CASE calc # NoCalc /\ id = calc.id
      BY <1>7, <1>8, <2>1, <2>4 DEF StartsOK
  <2> QED BY <1>4, <2>2, <2>3, <2>4
<1>12. IdsKnown(b, current)'
    BY <1>2, <1>3, <1>5, <1>6, <1>7, <1>8, <1>10 DEF IdsKnown, Known
<1>13. StartsOK(b, state, current)'
    BY <1>2, <1>3, <1>7, <1>8 DEF StartsOK, WatchedBy
<1>14. RunOK(b, state, current)'
    BY <1>3 DEF RunOK
<1>15. EndsOK(b)'
    BY <1>2, <1>3, <1>5, <1>6, <1>7, <1>11 DEF EndsOK
<1> QED BY <1>2, <1>3, <1>6, <1>12, <1>13, <1>14, <1>15, BackendWatch

\* The reports of a server about what it calculates: BLOCK_STARTED,
\* BLOCK_COMPLETED and COMPLETED.
LEMMA ServerReportWatch ==
    ASSUME WatchInv, ControlInv, NEW b \in Backend, NEW msg \in Answer, ServerSends(b, msg),
           server[b].calc # NoCalc, msg.id = server[b].calc.id,
           UNCHANGED <<state, current, lastId, toServer>>,
           \A c \in Backend \ {b} : server'[c] = server[c],
           server'[b].calc = server[b].calc,
           server'[b].phase \in {server[b].phase, "idle"},
           msg.op \in {"COMPLETED", "ABORTED"} => server'[b].phase = "idle"
    PROVE  WatchInv'
<1>1. TypeOK
    BY DEF ControlInv
<1>2. /\ \A n \in DOMAIN toClient'[b] :
            \/ n \in DOMAIN toClient[b] /\ toClient'[b][n] = toClient[b][n]
            \/ n = Len(toClient[b]) + 1 /\ toClient'[b][n] = msg
      /\ \A c \in Backend \ {b} : toClient'[c] = toClient[c]
    BY <1>1, ServerSendsAt
<1>3. IdsKnown(b, current) /\ StartsOK(b, state, current) /\ RunOK(b, state, current) /\ EndsOK(b)
    BY DEF WatchInv, Watch
<1>4. IdsKnown(b, current)'
    BY <1>2, <1>3 DEF IdsKnown, Known
<1>5. StartsOK(b, state, current)'
    BY <1>3 DEF StartsOK, WatchedBy
<1>6. RunOK(b, state, current)'
    BY <1>3 DEF RunOK, WatchedBy
<1>7. EndsOK(b)'
  <2>1. \A i \in DOMAIN toServer[b] :
            toServer[b][i].op = "START" => toServer[b][i].id # msg.id
      BY <1>3 DEF StartsOK
  <2> QED BY <1>2, <1>3, <2>1 DEF EndsOK
<1> QED BY <1>2, <1>4, <1>5, <1>6, <1>7, BackendWatch

LEMMA ServerStepWatch ==
    ASSUME WatchInv, ControlInv, NEW b \in Backend, ServerStep(b)
    PROVE  WatchInv'
<1>1. server[b] \in Server /\ server \in [Backend -> Server]
    BY DEF ControlInv, TypeOK
<1>2. ASSUME server[b].phase # "idle"
      PROVE  server[b].calc # NoCalc /\ server[b].calc \in StartMsg
    BY <1>1, <1>2 DEF ControlInv, SessionOK, Server
<1>3. ASSUME NEW blk \in Blocks, ServerBlockStarted(b, blk) \/ ServerBlockCompleted(b, blk)
      PROVE  WatchInv'
  <2>1. PICK op \in {"BLOCK_STARTED", "BLOCK_COMPLETED"} :
            ServerSends(b, [op |-> op, id |-> server[b].calc.id,
                            coords |-> server[b].calc.coords, block |-> blk])
      BY <1>3 DEF ServerBlockStarted, ServerBlockCompleted
  <2>2. server[b].calc # NoCalc /\ server[b].calc \in StartMsg
      BY <1>2, <1>3 DEF ServerBlockStarted, ServerBlockCompleted
  <2>3. PICK msg \in Answer : /\ ServerSends(b, msg) /\ msg.id = server[b].calc.id
                              /\ msg.op \notin {"COMPLETED", "ABORTED"}
    <3>1. [op |-> op, id |-> server[b].calc.id, coords |-> server[b].calc.coords,
           block |-> blk] \in Answer
        BY <2>2 DEF Answer, BlockMsg, StartMsg
    <3> QED BY <2>1, <3>1
  <2>4. /\ server'[b].calc = server[b].calc /\ server'[b].phase = server[b].phase
        /\ \A c \in Backend \ {b} : server'[c] = server[c]
    <3>1. CASE ServerBlockStarted(b, blk)
        BY <1>1, <3>1 DEF ServerBlockStarted, Server
    <3>2. CASE ServerBlockCompleted(b, blk)
        BY <1>1, <3>2 DEF ServerBlockCompleted, Server
    <3> QED BY <1>3, <3>1, <3>2
  <2>5. UNCHANGED <<state, current, lastId, toServer>>
      BY <1>3 DEF ServerBlockStarted, ServerBlockCompleted, clientVars, calcVars
  <2> QED BY <2>2, <2>3, <2>4, <2>5, ServerReportWatch
<1>4. ASSUME ServerCompleted(b) PROVE WatchInv'
  <2>1. server[b].calc # NoCalc /\ server[b].calc \in StartMsg
      BY <1>2, <1>4 DEF ServerCompleted
  <2>2. PICK msg \in Answer : ServerSends(b, msg) /\ msg.id = server[b].calc.id
    <3>1. [op |-> "COMPLETED", id |-> server[b].calc.id] \in Answer
        BY <2>1 DEF Answer, EndMsg, StartMsg
    <3> QED BY <1>4, <3>1 DEF ServerCompleted
  <2>3. /\ server'[b].calc = server[b].calc /\ server'[b].phase = "idle"
        /\ \A c \in Backend \ {b} : server'[c] = server[c]
      BY <1>1, <1>4 DEF ServerCompleted, Server
  <2>4. UNCHANGED <<state, current, lastId, toServer>>
      BY <1>4 DEF ServerCompleted, clientVars, calcVars
  <2> QED BY <2>1, <2>2, <2>3, <2>4, ServerReportWatch
<1> QED BY <1>3, <1>4, ServerStartWatch, ServerAbortWatch DEF ServerStep

\* Accept and Refuse add a message that is no answer, Drop resets a session
\* and loses messages; what is left of toClient keeps its place.
LEMMA ConnectionAdds ==
    ASSUME TypeOK, NEW b \in Backend, Accept(b) \/ Refuse(b) \/ Drop(b)
    PROVE  /\ UNCHANGED clientVars
           /\ \A c \in Backend \ {b} : UNCHANGED <<toServer[c], toClient[c], server[c]>>
           /\ \/ toServer'[b] = toServer[b] /\ server'[b] = server[b]
              \/ toServer'[b] = <<>> /\ Fresh(server'[b])
           /\ \A n \in DOMAIN toClient'[b] :
                 \/ n \in DOMAIN toClient[b] /\ toClient'[b][n] = toClient[b][n]
                 \/ /\ \A k \in DOMAIN toClient'[b] : k <= n
                    /\ toClient'[b][n] \in ControlMsg
                    /\ toClient'[b][n].op = "CONFIG" => toClient'[b][n].max_workers = Workers[b]
<1>1. toClient[b] \in Seq(ControlMsg \cup Answer) /\ UNCHANGED clientVars
    BY DEF TypeOK, Accept, Refuse, Drop, Fail
<1>2. /\ \A c \in Backend \ {b} : UNCHANGED <<toServer[c], toClient[c], server[c]>>
      /\ \/ toServer'[b] = toServer[b] /\ server'[b] = server[b]
         \/ toServer'[b] = <<>> /\ Fresh(server'[b])
    BY DropFresh DEF TypeOK, Accept, Refuse, Drop
<1>3. PICK msg \in ControlMsg, old \in Seq(ControlMsg \cup Answer) :
          /\ msg.op = "CONFIG" => msg.max_workers = Workers[b]
          /\ toClient'[b] = Append(old, msg)
          /\ \A k \in DOMAIN old : k \in DOMAIN toClient[b] /\ old[k] = toClient[b][k]
  <2>1. CASE Accept(b)
    <3>1. [op |-> "CONFIG", max_workers |-> Workers[b]] \in ControlMsg
        BY BackendsAssumption DEF ControlMsg
    <3> QED BY <1>1, <2>1, <3>1 DEF Accept, TypeOK
  <2>2. [op |-> "CLOSE"] \in ControlMsg
      BY DEF ControlMsg
  <2>3. CASE Refuse(b)
      BY <1>1, <2>2, <2>3 DEF Refuse, TypeOK
  <2>4. CASE Drop(b)
    <3>1. PICK n \in 0..Len(toClient[b]) :
              toClient'[b] = Append(SubSeq(toClient[b], 1, n), [op |-> "CLOSE"])
        BY <1>1, <2>4 DEF Drop, TypeOK
    <3>2. /\ SubSeq(toClient[b], 1, n) \in Seq(ControlMsg \cup Answer)
          /\ \A k \in DOMAIN SubSeq(toClient[b], 1, n) :
                k \in DOMAIN toClient[b] /\ SubSeq(toClient[b], 1, n)[k] = toClient[b][k]
        BY <1>1
    <3> QED BY <2>2, <3>1, <3>2
  <2> QED BY <2>1, <2>3, <2>4
<1>4. ASSUME NEW n \in DOMAIN toClient'[b]
      PROVE  \/ n \in DOMAIN toClient[b] /\ toClient'[b][n] = toClient[b][n]
             \/ toClient'[b][n] = msg /\ \A k \in DOMAIN toClient'[b] : k <= n
  <2>1. /\ DOMAIN old = 1..Len(old) /\ Len(old) \in Nat
        /\ \A i \in DOMAIN toClient'[b] :
              \/ i \in DOMAIN old /\ toClient'[b][i] = old[i]
              \/ i = Len(old) + 1 /\ toClient'[b][i] = msg
      BY <1>3, AppendAt
  <2> QED BY <1>3, <2>1
<1> QED BY <1>1, <1>2, <1>3, <1>4

LEMMA ConnectionWatch ==
    ASSUME WatchInv, ControlInv, NEW b \in Backend, Accept(b) \/ Refuse(b) \/ Drop(b)
    PROVE  WatchInv'
<1>1. IdsKnown(b, current) /\ StartsOK(b, state, current) /\ RunOK(b, state, current) /\ EndsOK(b)
    BY DEF WatchInv, Watch
<1>2. /\ UNCHANGED <<state, current, lastId>>
      /\ \A c \in Backend \ {b} : UNCHANGED <<toServer[c], toClient[c], server[c]>>
      /\ \/ toServer'[b] = toServer[b] /\ server'[b] = server[b]
         \/ toServer'[b] = <<>> /\ Fresh(server'[b])
      /\ \A n \in DOMAIN toClient'[b] :
            \/ \E m \in DOMAIN toClient[b] : toClient'[b][n] = toClient[b][m]
            \/ toClient'[b][n] \in ControlMsg
    BY ConnectionAdds DEF ControlInv, clientVars, calcVars
<1>3. \A msg \in ControlMsg : msg \notin Answer /\ msg.op \notin {"COMPLETED", "ABORTED"}
    BY DEF ControlMsg, Answer, BlockMsg, EndMsg
<1>4. Fresh(server'[b]) => server'[b].calc = NoCalc /\ server'[b].phase = "idle"
    BY DEF Fresh
<1>5. IdsKnown(b, current)'
    BY <1>1, <1>2, <1>3, <1>4 DEF IdsKnown, Known
<1>6. StartsOK(b, state, current)'
    BY <1>1, <1>2 DEF StartsOK, WatchedBy
<1>7. RunOK(b, state, current)'
    BY <1>1, <1>2, <1>4 DEF RunOK, WatchedBy
<1>8. EndsOK(b)'
    BY <1>1, <1>2, <1>3, <1>4 DEF EndsOK
<1> QED BY <1>2, <1>5, <1>6, <1>7, <1>8, BackendWatch

-----------------------------------------------------------------------------
(* Every step.                                                             *)

\* What a step makes of the calculations: a handler that ends the current one
\* may go on with the request that waits, any other may start a calculation,
\* or nothing is done about them.
Ending(b, op, st, calc) ==
    /\ op \in {"COMPLETED", "ABORTED"} /\ Receive(b, op)
    /\ IsCurrent(Head(toClient[b]).id)
    /\ st = IF op = "COMPLETED" THEN "waiting-completed" ELSE "waiting-aborted"
    /\ calc # NoCalc /\ calc.id = current.id /\ calc.backend = current.backend
    /\ calc.coords = current.coords /\ calc.kind = current.kind
    /\ completed' \cup aborted' = completed \cup aborted \cup {current.id}
    /\ Handed(st, calc, requested) /\ Handle(st, calc, requested)
    /\ UNCHANGED <<startup, backendVars, mirrorVars, server>>

\* What a handler may ask for: what waits already, or something new; "max_n"
\* is asked for the place that is shown.
Asked(req) ==
    \/ req = requested
    \/ req \in Request /\ (req.kind = "max_n" => req.coords = coordinates)

Requesting(req) ==
    /\ Asked(req) /\ Handed(state, current, req) /\ Handle(state, current, req)
    /\ UNCHANGED <<endVars, server>>
    /\ UNCHANGED toClient \/ \E b \in Backend : Receive(b, "CONFIG")

Idling ==
    /\ UNCHANGED <<calcVars, endVars, coordinates, toServer, server>>
    /\ \/ UNCHANGED <<screen, toClient>>
       \/ \E b \in Backend, op \in {"CONFIG", "CLOSE", "COMPLETED", "ABORTED"} :
             Receive(b, op) /\ UNCHANGED screen
       \/ \E b \in Backend : OnBlockStarted(b) \/ OnBlockCompleted(b)

ClientStep ==
    /\ BackendsTypeOK' /\ Popped
    /\ \/ \E b \in Backend, op \in {"COMPLETED", "ABORTED"},
             st \in {"waiting-completed", "waiting-aborted"}, calc \in Calculation :
             Ending(b, op, st, calc)
       \/ \E req \in Request \cup {NoCalc} : Requesting(req)
       \/ Idling

\* Every handler of the client is a step of one of these kinds.
LEMMA ClientSteps ==
    ASSUME ControlInv, ControlInv',
           \/ WindowInit \/ User \/ HandleTimer \/ ReviveBackend
           \/ \E b \in Backend : Deliver(b)
    PROVE  ClientStep
<1>1. TypeOK /\ BackendsTypeOK' /\ CalcTypeOK
    BY TypePartsNext, TypeParts DEF ControlInv
<1>2. UNCHANGED toClient => Popped
    BY DEF Popped
<1>3. ASSUME NEW req, Asked(req), HandleCalculationState(req), UNCHANGED toClient
      PROVE  ClientStep
  <2>1. Handed(state, current, req) /\ ~AbortTimedOut
      BY <1>3, HandedCurrent DEF ControlInv, TypeOK, Handed, TimesUnset,
                                 PendingIffAborting, AbortTimedOut, Asked
  <2>2. Requesting(req) /\ req \in Request \cup {NoCalc}
      BY <1>1, <1>3, <2>1 DEF HandleCalculationState, Requesting, CalcTypeOK, Asked
  <2> QED BY <1>1, <1>2, <1>3, <2>2 DEF ClientStep
<1>4. StartupRequest \in Request /\ Asked(StartupRequest)
    BY BackendsAssumption DEF StartupRequest, Request, Asked
<1>5. ASSUME UNCHANGED <<endVars, server>>, Popped,
             UNCHANGED toClient \/ \E b \in Backend : Receive(b, "CONFIG"),
             \/ Handle(state, current, StartupRequest)
             \/ UNCHANGED <<calcVars, viewVars, toServer>>
      PROVE  ClientStep
  <2>1. CASE Handle(state, current, StartupRequest)
    <3>1. Requesting(StartupRequest)
        BY <1>4, <1>5, <2>1, HandedCurrent DEF Requesting
    <3> QED BY <1>1, <1>4, <1>5, <3>1 DEF ClientStep
  <2>2. CASE UNCHANGED <<calcVars, viewVars, toServer>>
    <3>1. Idling
        BY <1>5, <2>2 DEF Idling, viewVars
    <3> QED BY <1>1, <1>5, <3>1 DEF ClientStep
  <2> QED BY <1>5, <2>1, <2>2
<1>6. CASE WindowInit
    BY <1>2, <1>5, <1>6 DEF WindowInit
<1>7. CASE User
  <2>1. ASSUME NEW c \in Coords, Zoom(c) \/ Back(c) PROVE ClientStep
    <3>1. PICK kind \in {"zoom", "back"} : HandleCalculationState([kind |-> kind, coords |-> c])
        BY <2>1 DEF Zoom, Back
    <3>2. [kind |-> kind, coords |-> c] \in Request /\ Asked([kind |-> kind, coords |-> c])
        BY DEF Request, Asked
    <3>3. UNCHANGED toClient
        BY <1>1, <3>1, <3>2, HandedCurrent DEF HandleCalculationState
    <3> QED BY <1>3, <3>1, <3>2, <3>3
  <2>2. ASSUME NewMaxN PROVE ClientStep
    <3>1. /\ [kind |-> "max_n", coords |-> coordinates] \in Request
          /\ Asked([kind |-> "max_n", coords |-> coordinates])
        BY <1>1 DEF Request, CalcTypeOK, Asked
    <3>2. UNCHANGED toClient
        BY <2>2, <3>1, HandedCurrent DEF NewMaxN, HandleCalculationState
    <3> QED BY <1>3, <2>2, <3>1, <3>2 DEF NewMaxN
  <2>3. ASSUME NEW b \in Backend, SelectBackend(b) PROVE ClientStep
      BY <1>2, <1>5, <2>3 DEF SelectBackend
  <2> QED BY <1>7, <2>1, <2>2, <2>3 DEF User
<1>8. CASE HandleTimer
  <2>1. Handed(state, current, requested) /\ ~AbortTimedOut
      BY DEF ControlInv, TypeOK, Handed, TimesUnset, PendingIffAborting, AbortTimedOut
  <2>2. UNCHANGED toClient
      BY <1>8, <2>1 DEF HandleTimer, HandleCalculationState
  <2> QED BY <1>3, <1>8, <2>2 DEF HandleTimer, Asked
<1>9. CASE ReviveBackend
  <2>1. Idling
      BY <1>9 DEF ReviveBackend, Idling, viewVars
  <2> QED BY <1>1, <1>2, <1>9, <2>1 DEF ReviveBackend, ClientStep
<1>10. ASSUME NEW b \in Backend, Deliver(b) PROVE ClientStep
  <2>1. CASE OnConfig(b)
      BY <1>1, <1>5, <2>1, ReceivePopped DEF OnConfig, NotifyStartup
  <2>2. CASE OnClose(b) \/ OnBlockStarted(b) \/ OnBlockCompleted(b)
    <3>1. Popped
        BY <1>1, <2>2, ReceivePopped DEF OnClose, OnBlockStarted, OnBlockCompleted
    <3>2. UNCHANGED <<calcVars, endVars, coordinates, toServer, server>>
        BY <2>2 DEF OnClose, OnBlockStarted, OnBlockCompleted, viewVars
    <3>3. OnClose(b) => Receive(b, "CLOSE") /\ UNCHANGED screen
        BY DEF OnClose, viewVars
    <3>4. Idling
        BY <2>2, <3>2, <3>3 DEF Idling
    <3> QED BY <1>1, <3>1, <3>4 DEF ClientStep
  <2>3. CASE OnCompleted(b) \/ OnAborted(b)
    <3>1. Popped
        BY <1>1, <2>3, ReceivePopped DEF OnCompleted, OnAborted
    <3>2. CASE ~IsCurrent(Head(toClient[b]).id)
      <4>1. UNCHANGED <<calcVars, endVars, coordinates, toServer, server>>
          BY <2>3, <3>2 DEF OnCompleted, OnAborted, viewVars, endVars
      <4>2. (Receive(b, "COMPLETED") \/ Receive(b, "ABORTED")) /\ UNCHANGED screen
          BY <2>3, <3>2 DEF OnCompleted, OnAborted, viewVars
      <4>3. Idling
          BY <4>1, <4>2 DEF Idling
      <4> QED BY <1>1, <3>1, <4>3 DEF ClientStep
    <3>3. CASE OnCompleted(b) /\ IsCurrent(Head(toClient[b]).id)
      <4>1. PICK calc \in Calculation : calc = [current EXCEPT !.completeTime = TRUE]
          BY <1>1, <3>3 DEF IsCurrent, CalcTypeOK, Calculation
      <4>2. /\ calc # NoCalc /\ calc.id = current.id /\ calc.backend = current.backend
            /\ calc.coords = current.coords /\ calc.kind = current.kind
          BY <1>1, <3>3, <4>1, NoCalcAssumption DEF IsCurrent, CalcTypeOK, Calculation
      <4>3. Handed("waiting-completed", calc, requested)
          BY <1>1, <3>3, <4>2
             DEF Handed, CalcTypeOK, CalculationState, Waiting, ControlInv, LastOK, IsCurrent
      <4>4. Ending(b, "COMPLETED", "waiting-completed", calc)
          BY <3>3, <4>1, <4>2, <4>3 DEF OnCompleted, Ending
      <4> QED BY <1>1, <3>1, <4>4 DEF ClientStep
    <3>4. CASE OnAborted(b) /\ IsCurrent(Head(toClient[b]).id)
      <4>1. PICK calc \in Calculation : calc = [current EXCEPT !.abortTime = TRUE]
          BY <1>1, <3>4 DEF IsCurrent, CalcTypeOK, Calculation
      <4>2. /\ calc # NoCalc /\ calc.id = current.id /\ calc.backend = current.backend
            /\ calc.coords = current.coords /\ calc.kind = current.kind
          BY <1>1, <3>4, <4>1, NoCalcAssumption DEF IsCurrent, CalcTypeOK, Calculation
      <4>3. Handed("waiting-aborted", calc, requested)
          BY <1>1, <3>4, <4>2
             DEF Handed, CalcTypeOK, CalculationState, Waiting, ControlInv, LastOK, IsCurrent
      <4>4. Ending(b, "ABORTED", "waiting-aborted", calc)
          BY <3>4, <4>1, <4>2, <4>3 DEF OnAborted, Ending
      <4> QED BY <1>1, <3>1, <4>4 DEF ClientStep
    <3> QED BY <2>3, <3>2, <3>3, <3>4
  <2> QED BY <1>10, <2>1, <2>2, <2>3 DEF Deliver
<1> QED BY <1>6, <1>7, <1>8, <1>9, <1>10

LEMMA WatchInit == Init => WatchInv
<1> SUFFICES ASSUME Init PROVE WatchInv
    OBVIOUS
<1>1. LastOK(current)
    BY DEF LastOK, Init
<1> SUFFICES ASSUME NEW b \in Backend
             PROVE  IdsKnown(b, current) /\ StartsOK(b, state, current)
                    /\ RunOK(b, state, current) /\ EndsOK(b)
    BY <1>1 DEF WatchInv, Watch
<1>2. toServer[b] = <<>> /\ toClient[b] = <<>> /\ server[b] = NewSession
    BY DEF Init
<1> QED BY <1>2 DEF IdsKnown, StartsOK, RunOK, EndsOK, NewSession

LEMMA WatchStep ==
    WatchInv /\ ControlInv /\ ControlInv' /\ UNCHANGED repeats /\ [Next]_vars => WatchInv'
<1> SUFFICES ASSUME WatchInv, ControlInv, ControlInv', UNCHANGED repeats, [Next]_vars
             PROVE  WatchInv'
    OBVIOUS
<1>1. /\ TypeOK /\ CalcTypeOK
      /\ toClient \in [Backend -> Seq(ControlMsg \cup Answer)] /\ server \in [Backend -> Server]
    BY TypeParts DEF ControlInv, TypeOK
<1>2. CASE ClientStep
  <2>1. ASSUME NEW b \in Backend, NEW op \in {"COMPLETED", "ABORTED"},
               NEW st \in {"waiting-completed", "waiting-aborted"}, NEW calc \in Calculation,
               Ending(b, op, st, calc)
        PROVE  WatchInv'
    <3>1. Watch(st, calc)
        BY <1>1, <2>1, EndedWatch DEF Ending, Running
    <3> QED BY <1>1, <1>2, <2>1, <3>1, HandleWatch DEF Ending, ClientStep
  <2>2. ASSUME NEW req, Requesting(req) PROVE WatchInv'
      BY <1>1, <1>2, <2>2, HandleWatch DEF Requesting, ClientStep, WatchInv
  <2>3. CASE Idling
      BY <1>2, <2>3, QuietWatch DEF Idling, ClientStep, WatchInv, calcVars
  <2> QED BY <1>2, <2>1, <2>2, <2>3 DEF ClientStep
<1>3. CASE UNCHANGED vars
  <2>1. Popped
      BY <1>3 DEF Popped, vars
  <2> QED BY <1>3, <2>1, QuietWatch DEF WatchInv, vars, calcVars
<1>4. ASSUME NEW b \in Backend, Accept(b) \/ Refuse(b) \/ Drop(b) \/ ServerStep(b)
      PROVE  WatchInv'
    BY <1>4, ConnectionWatch, ServerStepWatch
<1> QED BY <1>2, <1>3, <1>4, ClientSteps DEF Next

-----------------------------------------------------------------------------
(* The ends of calculations.                                               *)

\* ended are the ids reported as completed or aborted; what was started before
\* the last one is among them, and what runs is not.
EndsKnown(st, calc, ended, last) ==
    /\ ended \subseteq 1..last
    /\ \A id \in 1..last : id \in ended \/ (id = last /\ Running(st))
    /\ Running(st) => calc.id \notin ended

EndsInv == EndsKnown(state, current, completed \cup aborted, lastId)

LEMMA HandleEnds ==
    ASSUME CalcTypeOK, NEW STATE st, NEW STATE calc, NEW STATE req, NEW ended,
           Handed(st, calc, req), Handle(st, calc, req), UNCHANGED repeats,
           EndsKnown(st, calc, ended, lastId)
    PROVE  EndsKnown(state', current', ended, lastId')
<1>1. lastId \in Nat
    BY DEF CalcTypeOK
<1>2. CASE st \in Waiting /\ Start(req)
    BY <1>1, <1>2 DEF EndsKnown, Start, NewId, Waiting, Running, Handed, LastOK
<1>3. CASE st \in Waiting /\ ForgetRequest(calc, req)
    BY <1>3 DEF EndsKnown, ForgetRequest, Waiting, Running
<1>4. CASE st = "calculating" /\ AbortCurrent(calc, req)
    BY <1>4 DEF EndsKnown, AbortCurrent, Running
<1>5. CASE state' = st /\ current' = calc /\ UNCHANGED lastId
    BY <1>5 DEF EndsKnown
<1> QED BY <1>2, <1>3, <1>4, <1>5 DEF Handle

\* A step leaves the calculations alone, or is a handler that calls
\* handleCalculationState, with or without having ended one.
LEMMA EndsChange ==
    ASSUME ControlInv, ControlInv', [Next]_vars
    PROVE  \/ UNCHANGED <<calcVars, endVars>>
           \/ \E b \in Backend, op \in {"COMPLETED", "ABORTED"},
                 st \in {"waiting-completed", "waiting-aborted"}, calc \in Calculation :
                 Ending(b, op, st, calc)
           \/ \E req \in Request \cup {NoCalc} : Requesting(req)
<1>1. CASE ClientStep
    BY <1>1 DEF ClientStep, Idling
<1>2. ASSUME NEW b \in Backend, Accept(b) \/ Refuse(b) \/ Drop(b) \/ ServerStep(b)
      PROVE  UNCHANGED <<calcVars, endVars>>
  <2>1. UNCHANGED clientVars
      BY <1>2 DEF Accept, Refuse, Drop, Fail, ServerStep, ServerStart, ServerAbort, ServerReads,
                  ServerBlockStarted, ServerBlockCompleted, ServerCompleted
  <2> QED BY <2>1 DEF clientVars
<1>3. CASE UNCHANGED vars
    BY <1>3 DEF vars
<1> QED BY <1>1, <1>2, <1>3, ClientSteps DEF Next

LEMMA EndsStep ==
    EndsInv /\ ControlInv /\ ControlInv' /\ UNCHANGED repeats /\ [Next]_vars => EndsInv'
<1> SUFFICES ASSUME EndsInv, ControlInv, ControlInv', UNCHANGED repeats, [Next]_vars
             PROVE  EndsInv'
    OBVIOUS
<1>1. TypeOK /\ CalcTypeOK /\ LastOK(current) /\ lastId \in Nat
    BY TypeParts DEF ControlInv, TypeOK
<1>2. CASE UNCHANGED <<calcVars, endVars>>
    BY <1>2 DEF EndsInv, EndsKnown, calcVars, endVars
<1>3. ASSUME NEW b \in Backend, NEW op, NEW st \in {"waiting-completed", "waiting-aborted"},
             NEW calc \in Calculation, Ending(b, op, st, calc)
      PROVE  EndsInv'
  <2> DEFINE ended == completed' \cup aborted'
  <2>1. current # NoCalc /\ current.id = lastId /\ current.id \in Nat \ {0}
      BY <1>1, <1>3 DEF Ending, IsCurrent, LastOK, TypeOK, Calculation
  <2>2. ended = completed \cup aborted \cup {lastId} /\ ~Running(st) /\ LastOK(calc)
      BY <1>3, <2>1 DEF Ending, Running, LastOK
  <2>3. EndsKnown(st, calc, ended, lastId)
      BY <1>1, <2>1, <2>2 DEF EndsInv, EndsKnown
  <2>4. EndsKnown(state', current', ended, lastId')
      BY <1>1, <1>3, <2>2, <2>3, HandleEnds DEF Ending
  <2> QED BY <2>4 DEF EndsInv
<1>4. ASSUME NEW req, Requesting(req) PROVE EndsInv'
  <2>1. EndsKnown(state', current', completed \cup aborted, lastId')
      BY <1>1, <1>4, HandleEnds DEF Requesting, EndsInv
  <2> QED BY <1>4, <2>1 DEF Requesting, EndsInv, endVars
<1> QED BY <1>2, <1>3, <1>4, EndsChange

\* As long as no id was given twice, none was before.
LEMMA RepeatsGrow ==
    ASSUME ControlInv, ControlInv', [Next]_vars, repeats' = 0
    PROVE  UNCHANGED repeats
<1>1. repeats \in Nat
    BY BackendsAssumption DEF ControlInv, TypeOK
<1>2. ASSUME NEW st, NEW calc, NEW req, Handle(st, calc, req)
      PROVE  UNCHANGED repeats
    BY <1>1, <1>2 DEF Handle, Start, Repeats, ForgetRequest, AbortCurrent
<1> QED BY <1>2, EndsChange DEF calcVars, Ending, Requesting

\* What holds of the calculations while no id was given twice.
UniqueInv == repeats = 0 => EndsInv /\ WatchInv

LEMMA EndsInvariant == Spec => [](UniqueInv /\ ControlInv)
<1>1. Init => UniqueInv
  <2>1. Init => EndsInv
      BY DEF Init, EndsInv, EndsKnown, Running
  <2> QED BY <2>1, WatchInit DEF UniqueInv
<1>2. UniqueInv /\ ControlInv /\ ControlInv' /\ [Next]_vars => UniqueInv'
    BY RepeatsGrow, WatchStep, EndsStep DEF UniqueInv
<1> QED BY <1>1, <1>2, ControlInvariant, PTL DEF Spec

\* Whatever is still calculating, on any backend, or is about to, is the
\* calculation the client waits for, while no id was given twice: servers need
\* not expect a START while they calculate, whatever was aborted, completed or selected before.
THEOREM NothingUnwatched == Spec => []NothingRunsUnwatched
<1>1. UniqueInv => NothingRunsUnwatched
    BY DEF UniqueInv, WatchInv, Watch, StartsOK, RunOK, WatchedBy, Running, NothingRunsUnwatched
<1> QED BY <1>1, EndsInvariant, PTL

\* Every calculation is reported as completed or aborted before the next one
\* starts or the client goes back to waiting, while no id was given twice.
THEOREM CalculationsReported == Spec => []EveryCalculationEnds
<1>1. UniqueInv => EveryCalculationEnds
    BY DEF UniqueInv, EndsInv, EndsKnown, EveryCalculationEnds, Running
<1> QED BY <1>1, EndsInvariant, PTL

\* While the client shows "calculating" or "aborting" there is a calculation
\* to show, and no callback was told yet of its end.
THEOREM RunningUnfinished == Spec => []RunningIsUnfinished
<1>1. UniqueInv /\ ControlInv => RunningIsUnfinished
    BY DEF UniqueInv, ControlInv, TimesUnset, EndsInv, EndsKnown, Running, RunningIsUnfinished
<1> QED BY <1>1, EndsInvariant, PTL
=============================================================================
