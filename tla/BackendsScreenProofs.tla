------------------------ MODULE BackendsScreenProofs ------------------------
(***************************************************************************)
(* Theorems about what the client knows and shows.  What it knows of its   *)
(* backends when it starts a calculation: store.backend_state and          *)
(* store.max_workers follow the selected backend, and an online backend    *)
(* has announced its workers.  What it shows: the screen shows the place   *)
(* that store.coordinates names, and a picture that is called completed is.*)
(***************************************************************************)
EXTENDS BackendsProofs

-----------------------------------------------------------------------------
(* What the client knows of its backends.                                  *)

MirrorOK ==
    /\ storeBackendState = backendState[selected]
    /\ storeMaxWorkers = maxWorkers[selected]

\* A backend is online only with the number of workers its CONFIG announced.
AnnouncedOK ==
    \A b \in Backend :
        /\ backendState[b] = "online" => maxWorkers[b] = Workers[b]
        /\ \A n \in DOMAIN toClient[b] :
              toClient[b][n].op = "CONFIG" => toClient[b][n].max_workers = Workers[b]

\* As long as window.init has not started the first calculation, nothing is
\* calculated; as long as it waits to, the selected backend is not online.
FirstOK ==
    /\ startup # "done" => lastId = 0 /\ state \in Waiting
    /\ startup = "subscribed" => backendState[selected] # "online"

OnlineInv == MirrorOK /\ AnnouncedOK /\ FirstOK /\ WorkersFitBackend

-----------------------------------------------------------------------------
(* The selected backend and its mirror in the store.                       *)

\* A step of a server: it adds answers to toClient and takes from toServer.
LEMMA ServerAdds ==
    ASSUME ControlInv, NEW b \in Backend, ServerStep(b)
    PROVE  /\ UNCHANGED clientVars
           /\ \A c \in Backend : \A n \in DOMAIN toClient'[c] :
                 \/ n \in DOMAIN toClient[c] /\ toClient'[c][n] = toClient[c][n]
                 \/ toClient'[c][n] \in Answer
           /\ \A c \in Backend : \A i \in DOMAIN toServer'[c] :
                 \E j \in DOMAIN toServer[c] : toServer'[c][i] = toServer[c][j]
<1>1. /\ TypeOK /\ server[b] \in Server
      /\ server[b].phase # "idle" => server[b].calc \in StartMsg
    BY DEF ControlInv, TypeOK, SessionOK, Server
<1>2. ASSUME NEW op, ServerReads(b, op)
      PROVE  /\ UNCHANGED clientVars
             /\ \A c \in Backend : \A i \in DOMAIN toServer'[c] :
                   \E j \in DOMAIN toServer[c] : toServer'[c][i] = toServer[c][j]
  <2>1. /\ \A i \in DOMAIN toServer'[b] :
              i + 1 \in DOMAIN toServer[b] /\ toServer'[b][i] = toServer[b][i + 1]
        /\ \A c \in Backend \ {b} : toServer'[c] = toServer[c]
      BY <1>1, <1>2, ServerReadsAt
  <2> QED BY <1>2, <2>1 DEF ServerReads
<1>3. ASSUME NEW msg \in Answer, ServerSends(b, msg)
      PROVE  \A c \in Backend : \A n \in DOMAIN toClient'[c] :
                 \/ n \in DOMAIN toClient[c] /\ toClient'[c][n] = toClient[c][n]
                 \/ toClient'[c][n] \in Answer
  <2>1. msg \in ControlMsg \cup Answer
      OBVIOUS
  <2>2. /\ \A n \in DOMAIN toClient'[b] :
              \/ n \in DOMAIN toClient[b] /\ toClient'[b][n] = toClient[b][n]
              \/ n = Len(toClient[b]) + 1 /\ toClient'[b][n] = msg
        /\ \A c \in Backend \ {b} : toClient'[c] = toClient[c]
      BY <1>1, <1>3, <2>1, ServerSendsAt
  <2> QED BY <2>2
<1>4. CASE ServerStart(b)
    BY <1>2, <1>4 DEF ServerStart
<1>5. CASE ServerAbort(b)
  <2>1. PICK id : ServerSends(b, [op |-> "ABORTED", id |-> id])
                  /\ id \in {Head(toServer[b]).id, 0} \cup
                            (IF server[b].calc = NoCalc THEN {} ELSE {server[b].calc.id})
      BY <1>5 DEF ServerAbort
  <2>2. Head(toServer[b]).id \in Nat /\ (server[b].calc # NoCalc => server[b].calc.id \in Nat)
      BY <1>1, <1>5, ServerReadsAt DEF ServerAbort, Server, StartMsg, AbortMsg
  <2>3. [op |-> "ABORTED", id |-> id] \in Answer
      BY <2>1, <2>2 DEF Answer, EndMsg
  <2> QED BY <1>2, <1>3, <1>5, <2>1, <2>3 DEF ServerAbort
<1>6. ASSUME NEW blk \in Blocks, ServerBlockStarted(b, blk) \/ ServerBlockCompleted(b, blk)
      PROVE  \E msg \in Answer : ServerSends(b, msg) /\ UNCHANGED <<clientVars, toServer>>
  <2>1. PICK op \in {"BLOCK_STARTED", "BLOCK_COMPLETED"} :
            ServerSends(b, [op |-> op, id |-> server[b].calc.id,
                            coords |-> server[b].calc.coords, block |-> blk])
      BY <1>6 DEF ServerBlockStarted, ServerBlockCompleted
  <2>2. [op |-> op, id |-> server[b].calc.id, coords |-> server[b].calc.coords,
         block |-> blk] \in Answer
      BY <1>1, <1>6 DEF ServerBlockStarted, ServerBlockCompleted, Answer, BlockMsg, StartMsg
  <2> QED BY <1>6, <2>1, <2>2 DEF ServerBlockStarted, ServerBlockCompleted
<1>7. ASSUME ServerCompleted(b)
      PROVE  \E msg \in Answer : ServerSends(b, msg) /\ UNCHANGED <<clientVars, toServer>>
  <2>1. [op |-> "COMPLETED", id |-> server[b].calc.id] \in Answer
      BY <1>1, <1>7 DEF ServerCompleted, Answer, EndMsg, StartMsg
  <2> QED BY <1>7, <2>1 DEF ServerCompleted
<1>8. CASE \E msg \in Answer : ServerSends(b, msg) /\ UNCHANGED <<clientVars, toServer>>
    BY <1>3, <1>8
<1> QED BY <1>4, <1>5, <1>6, <1>7, <1>8 DEF ServerStep

\* What the client does to its backends: nothing, or one of four handlers.
LEMMA BackendHandlers ==
    ASSUME ControlInv, [Next]_vars
    PROVE  \/ UNCHANGED <<backendVars, mirrorVars>>
           \/ \E b \in Backend : SelectBackend(b) \/ OnConfig(b) \/ OnClose(b)
           \/ ReviveBackend
<1>1. TypeOK
    BY DEF ControlInv
<1>2. ASSUME NEW req, req \in Request \/ req = requested, HandleCalculationState(req)
      PROVE  UNCHANGED <<backendVars, mirrorVars>>
  <2>1. ~AbortTimedOut
      BY DEF ControlInv, TimesUnset, AbortTimedOut
  <2> QED BY <1>2, <2>1 DEF HandleCalculationState
<1>3. ASSUME NEW c \in Coords, Zoom(c) \/ Back(c)
      PROVE  UNCHANGED <<backendVars, mirrorVars>>
  <2>1. PICK kind \in {"zoom", "back"} : HandleCalculationState([kind |-> kind, coords |-> c])
      BY <1>3 DEF Zoom, Back
  <2>2. [kind |-> kind, coords |-> c] \in Request
      BY DEF Request
  <2> QED BY <1>2, <2>1, <2>2
<1>4. ASSUME NewMaxN PROVE UNCHANGED <<backendVars, mirrorVars>>
  <2>1. [kind |-> "max_n", coords |-> coordinates] \in Request
      BY <1>1 DEF Request, TypeOK
  <2> QED BY <1>2, <1>4, <2>1 DEF NewMaxN
<1>5. ASSUME HandleTimer PROVE UNCHANGED <<backendVars, mirrorVars>>
    BY <1>2, <1>5 DEF HandleTimer
<1>6. ASSUME NEW b \in Backend, Deliver(b)
      PROVE  UNCHANGED <<backendVars, mirrorVars>> \/ OnConfig(b) \/ OnClose(b)
    BY <1>6 DEF Deliver, OnBlockStarted, OnBlockCompleted, OnCompleted, OnAborted
<1>7. ASSUME NEW b \in Backend, Accept(b) \/ Refuse(b) \/ Drop(b) \/ ServerStep(b)
      PROVE  UNCHANGED <<backendVars, mirrorVars>>
    BY <1>1, <1>7, ConnectionAdds, ServerAdds DEF clientVars
<1>8. ASSUME WindowInit \/ UNCHANGED vars PROVE UNCHANGED <<backendVars, mirrorVars>>
    BY <1>8 DEF WindowInit, vars
<1> QED BY <1>3, <1>4, <1>5, <1>6, <1>7, <1>8 DEF Next, User

LEMMA MirrorStep ==
    ASSUME ControlInv, MirrorOK, [Next]_vars
    PROVE  MirrorOK'
<1>1. CASE UNCHANGED <<backendVars, mirrorVars>>
    BY <1>1 DEF MirrorOK, backendVars, mirrorVars
<1>2. ASSUME NEW b \in Backend, SelectBackend(b) PROVE MirrorOK'
    BY <1>2 DEF SelectBackend, Mirror, MirrorOK, mirrorVars
<1>3. ASSUME NEW b \in Backend, OnConfig(b) \/ OnClose(b) PROVE MirrorOK'
    BY <1>3 DEF OnConfig, OnClose, SetOffline, OnBackendStateChange, Mirror, MirrorOK, mirrorVars,
                ControlInv, TypeOK
<1>4. CASE ReviveBackend
    BY <1>4 DEF ReviveBackend, Mirror, MirrorOK
<1> QED BY <1>1, <1>2, <1>3, <1>4, BackendHandlers

\* No message about workers but the CONFIG a server sends when it accepts.
LEMMA ConfigMessages ==
    ASSUME ControlInv, ControlInv', AnnouncedOK, [Next]_vars,
           NEW b \in Backend, NEW n \in DOMAIN toClient'[b], toClient'[b][n].op = "CONFIG"
    PROVE  toClient'[b][n].max_workers = Workers[b]
<1>1. TypeOK /\ \A msg \in Answer : msg.op # "CONFIG"
    BY DEF ControlInv, Answer, BlockMsg, EndMsg
<1>2. CASE \E j \in DOMAIN toClient[b] : toClient'[b][n] = toClient[b][j]
    BY <1>2 DEF AnnouncedOK
<1>3. CASE ClientStep \/ UNCHANGED vars
    BY <1>2, <1>3 DEF ClientStep, Popped, vars
<1>4. ASSUME NEW c \in Backend, Accept(c) \/ Refuse(c) \/ Drop(c)
      PROVE  toClient'[b][n].max_workers = Workers[b]
    BY <1>1, <1>2, <1>4, ConnectionAdds
<1>5. ASSUME NEW c \in Backend, ServerStep(c)
      PROVE  toClient'[b][n].max_workers = Workers[b]
    BY <1>1, <1>2, <1>5, ServerAdds
<1> QED BY <1>3, <1>4, <1>5, ClientSteps DEF Next

LEMMA AnnouncedStep ==
    ASSUME ControlInv, ControlInv', AnnouncedOK, [Next]_vars
    PROVE  AnnouncedOK'
<1> SUFFICES ASSUME NEW b \in Backend, backendState'[b] = "online"
             PROVE  maxWorkers'[b] = Workers[b]
    BY ConfigMessages DEF AnnouncedOK
<1>1. TypeOK
    BY DEF ControlInv
<1>2. CASE UNCHANGED <<backendState, maxWorkers>>
    BY <1>2 DEF AnnouncedOK
<1>3. ASSUME NEW c \in Backend, OnConfig(c) PROVE maxWorkers'[b] = Workers[b]
  <2>1. /\ toClient[c] # <<>> /\ toClient[c] \in Seq(ControlMsg \cup Answer)
        /\ Head(toClient[c]).op = "CONFIG"
        /\ backendState' = [backendState EXCEPT ![c] = "online"]
        /\ maxWorkers' = [maxWorkers EXCEPT ![c] = Head(toClient[c]).max_workers]
      BY <1>1, <1>3 DEF OnConfig, Receive, TypeOK
  <2>2. 1 \in DOMAIN toClient[c] /\ Head(toClient[c]) = toClient[c][1]
      BY <2>1, TailAt
  <2>3. Head(toClient[c]).max_workers = Workers[c]
      BY <2>1, <2>2 DEF AnnouncedOK
  <2> QED BY <1>1, <2>1, <2>3 DEF AnnouncedOK, TypeOK
<1>4. ASSUME NEW c \in Backend, OnClose(c) \/ SelectBackend(c) \/ ReviveBackend
      PROVE  maxWorkers'[b] = Workers[b]
    BY <1>1, <1>4 DEF OnClose, SetOffline, SelectBackend, ReviveBackend, AnnouncedOK, TypeOK
<1>5. Local \in Backend
    BY DEF Backend
<1> QED BY <1>2, <1>3, <1>4, <1>5, BackendHandlers DEF backendVars

-----------------------------------------------------------------------------
(* What START carries.                                                     *)

Fits(b, msg) ==
    msg.op = "START" =>
        /\ msg.workers <= Workers[b]
        /\ msg.workers < Workers[b] => msg.workers = WorkersValue

\* handleCalculationState starts a calculation on an online backend only, with
\* the number of workers that backend announced.
LEMMA HandleFits ==
    ASSUME CalcTypeOK, BackendsTypeOK', MirrorOK', AnnouncedOK', WorkersFitBackend,
           NEW STATE st, NEW STATE calc, NEW STATE req,
           Handed(st, calc, req), Handle(st, calc, req)
    PROVE  WorkersFitBackend'
<1> SUFFICES ASSUME NEW b \in Backend, NEW i \in DOMAIN toServer'[b]
             PROVE  Fits(b, toServer'[b][i])
    BY DEF WorkersFitBackend, Fits
<1>1. toServer[b] \in Seq(StartMsg \cup AbortMsg) /\ selected' \in Backend
    BY DEF CalcTypeOK, BackendsTypeOK
<1>2. CASE toServer'[b] = toServer[b]
    BY <1>2 DEF WorkersFitBackend, Fits
<1>3. ASSUME NEW msg \in StartMsg \cup AbortMsg, Fits(b, msg),
             toServer'[b] = Append(toServer[b], msg)
      PROVE  Fits(b, toServer'[b][i])
  <2>1. (i \in DOMAIN toServer[b] /\ toServer'[b][i] = toServer[b][i]) \/ toServer'[b][i] = msg
      BY <1>1, <1>3, AppendAt
  <2> QED BY <1>3, <2>1 DEF WorkersFitBackend, Fits
<1>4. CASE req \in Request /\ backendState'[selected'] = "online" /\ Start(req)
  <2>1. storeMaxWorkers' = Workers[selected'] /\ Workers[selected'] \in Nat \ {0}
      BY <1>1, <1>4, BackendsAssumption DEF MirrorOK, AnnouncedOK
  <2>2. /\ WorkerCount \in Nat \ {0} /\ WorkerCount <= Workers[selected']
        /\ WorkerCount < Workers[selected'] => WorkerCount = WorkersValue
      BY <2>1, BackendsAssumption DEF WorkerCount
  <2>3. \/ toServer'[b] = toServer[b]
        \/ /\ b = selected'
           /\ toServer'[b] = Append(toServer[b], [op |-> "START", id |-> NewId,
                                                  coords |-> req.coords, workers |-> WorkerCount])
      BY <1>1, <1>4 DEF Start, Send, CalcTypeOK
  <2>4. [op |-> "START", id |-> NewId, coords |-> req.coords, workers |-> WorkerCount] \in StartMsg
    <3>1. NewId \in Nat \ {0}
        BY <1>4, BackendsAssumption DEF NewId, Start, Repeats, CalcTypeOK
    <3> QED BY <1>4, <2>2, <3>1 DEF StartMsg, Request
  <2>5. PICK msg \in StartMsg :
            /\ msg.workers = WorkerCount
            /\ \/ toServer'[b] = toServer[b]
               \/ b = selected' /\ toServer'[b] = Append(toServer[b], msg)
      BY <2>3, <2>4
  <2>6. b = selected' => Fits(b, msg)
      BY <2>2, <2>5 DEF Fits
  <2> QED BY <1>2, <1>3, <2>5, <2>6
<1>5. CASE st = "calculating" /\ AbortCurrent(calc, req)
  <2>1. [op |-> "ABORT", id |-> calc.id] \in AbortMsg
      BY <1>5 DEF Handed, AbortMsg, Calculation
  <2>2. \/ toServer'[b] = toServer[b]
        \/ toServer'[b] = Append(toServer[b], [op |-> "ABORT", id |-> calc.id])
      BY <1>1, <1>5 DEF AbortCurrent, Send, CalcTypeOK
  <2>3. PICK msg \in AbortMsg : \/ toServer'[b] = toServer[b]
                                \/ toServer'[b] = Append(toServer[b], msg)
      BY <2>1, <2>2
  <2>4. Fits(b, msg)
      BY DEF Fits, AbortMsg
  <2> QED BY <1>2, <1>3, <2>3, <2>4
<1>6. CASE UNCHANGED toServer
    BY <1>2, <1>6
<1> QED BY <1>4, <1>5, <1>6 DEF Handle, Handed, ForgetRequest

LEMMA FitStep ==
    ASSUME ControlInv, ControlInv', MirrorOK', AnnouncedOK', WorkersFitBackend, [Next]_vars
    PROVE  WorkersFitBackend'
<1>1. CalcTypeOK /\ TypeOK
    BY TypeParts DEF ControlInv
<1>2. CASE \A b \in Backend : \A i \in DOMAIN toServer'[b] :
              \E j \in DOMAIN toServer[b] : toServer'[b][i] = toServer[b][j]
    BY <1>2 DEF WorkersFitBackend
<1>3. CASE UNCHANGED toServer
    BY <1>3 DEF WorkersFitBackend
<1>4. CASE ClientStep
  <2>1. ASSUME NEW st, NEW calc, NEW req, Handed(st, calc, req), Handle(st, calc, req)
        PROVE  WorkersFitBackend'
      BY <1>1, <1>4, <2>1, HandleFits DEF ClientStep
  <2> QED BY <1>3, <1>4, <2>1 DEF ClientStep, Ending, Requesting, Idling
<1>5. ASSUME NEW b \in Backend, Accept(b) \/ Refuse(b) \/ Drop(b)
      PROVE  WorkersFitBackend'
  <2>1. \A c \in Backend : toServer'[c] = toServer[c] \/ toServer'[c] = <<>>
      BY <1>1, <1>5, ConnectionAdds
  <2> QED BY <2>1 DEF WorkersFitBackend
<1>6. ASSUME NEW b \in Backend, ServerStep(b) PROVE WorkersFitBackend'
    BY <1>2, <1>6, ServerAdds
<1>7. CASE UNCHANGED vars
    BY <1>3, <1>7 DEF vars
<1> QED BY <1>4, <1>5, <1>6, <1>7, ClientSteps DEF Next

-----------------------------------------------------------------------------
(* The first calculation of the page.                                      *)

\* Until a calculation has been started there is none that could end.
LEMMA FirstStep ==
    ASSUME ControlInv, ControlInv', MirrorOK, FirstOK, [Next]_vars
    PROVE  FirstOK'
<1>1. TypeOK /\ LastOK(current)
    BY DEF ControlInv
<1>2. ASSUME startup # "done"
      PROVE  current = NoCalc /\ requested = NoCalc /\ state \in Waiting /\ lastId = 0
    BY <1>1, <1>2 DEF FirstOK, LastOK, TypeOK, Calculation, ControlInv, PendingIffAborting, Waiting
<1>3. CASE startup' = "done"
    BY <1>3 DEF FirstOK
<1>4. CASE /\ startup' = startup /\ lastId' = lastId
           /\ state' \in {state, "waiting-offline"}
           /\ selected' = selected /\ backendState'[selected] \in {backendState[selected], "offline"}
    BY <1>4 DEF FirstOK, Waiting
<1>5. ASSUME NEW req, HandleCalculationState(req), UNCHANGED startup,
             startup = "done" \/ startup = "subscribed" \/ req = NoCalc
      PROVE  FirstOK'
  <2>1. CASE startup = "done"
      BY <1>3, <1>5, <2>1
  <2>2. CASE startup # "done"
    <3>1. ~AbortTimedOut /\ Handle(state, current, req) /\ UNCHANGED backendVars
        BY <1>2, <1>5, <2>2 DEF HandleCalculationState, AbortTimedOut, Waiting
    <3>2. state' \in {state, "waiting-offline"} /\ lastId' = lastId
        BY <1>2, <1>5, <2>2, <3>1 DEF Handle, ForgetRequest, FirstOK, Waiting, backendVars
    <3> QED BY <1>4, <1>5, <3>1, <3>2 DEF backendVars
  <2> QED BY <2>1, <2>2
<1>6. CASE WindowInit
  <2>1. UNCHANGED backendVars
      BY <1>6 DEF WindowInit
  <2>2. CASE storeBackendState # "online"
      BY <1>2, <1>6, <2>1, <2>2 DEF WindowInit, FirstOK, MirrorOK, calcVars, backendVars
  <2> QED BY <1>3, <1>6, <2>2 DEF WindowInit
<1>7. ASSUME NEW c \in Coords, Zoom(c) \/ Back(c) PROVE FirstOK'
    BY <1>1, <1>5, <1>7 DEF Zoom, Back, UserInput, TypeOK
<1>8. CASE NewMaxN
    BY <1>1, <1>5, <1>8 DEF NewMaxN, UserInput, TypeOK
<1>9. CASE HandleTimer
    BY <1>1, <1>2, <1>3, <1>5, <1>9 DEF HandleTimer, TypeOK
<1>10. ASSUME NEW b \in Backend, SelectBackend(b) PROVE FirstOK'
    BY <1>3, <1>10 DEF SelectBackend
<1>11. CASE ReviveBackend
    BY <1>1, <1>11 DEF ReviveBackend, FirstOK, calcVars, TypeOK
<1>12. ASSUME NEW b \in Backend, OnConfig(b) PROVE FirstOK'
  <2>1. CASE startup = "subscribed" /\ b = selected
      BY <1>3, <1>12, <2>1 DEF OnConfig, NotifyStartup
  <2>2. CASE ~(startup = "subscribed" /\ b = selected)
      BY <1>1, <1>12, <2>2 DEF OnConfig, NotifyStartup, FirstOK, calcVars, TypeOK
  <2> QED BY <2>1, <2>2
<1>13. ASSUME NEW b \in Backend, OnClose(b) PROVE FirstOK'
    BY <1>1, <1>4, <1>13 DEF OnClose, SetOffline, calcVars, TypeOK
<1>14. ASSUME NEW b \in Backend,
              OnBlockStarted(b) \/ OnBlockCompleted(b) \/ OnCompleted(b) \/ OnAborted(b)
       PROVE  FirstOK'
  <2>1. UNCHANGED <<startup, backendVars>>
      BY <1>14 DEF OnBlockStarted, OnBlockCompleted, OnCompleted, OnAborted
  <2>2. startup # "done" => UNCHANGED calcVars
      BY <1>2, <1>14 DEF OnBlockStarted, OnBlockCompleted, OnCompleted, OnAborted, IsCurrent
  <2> QED BY <2>1, <2>2 DEF FirstOK, calcVars, backendVars
<1>15. ASSUME NEW b \in Backend, Accept(b) \/ Refuse(b) \/ Drop(b) \/ ServerStep(b)
       PROVE  FirstOK'
  <2>1. UNCHANGED clientVars
      BY <1>1, <1>15, ConnectionAdds, ServerAdds
  <2> QED BY <2>1 DEF clientVars, calcVars, backendVars, FirstOK
<1>16. CASE UNCHANGED vars
    BY <1>16 DEF vars, calcVars, backendVars, FirstOK
<1> QED BY <1>6, <1>7, <1>8, <1>9, <1>10, <1>11, <1>12, <1>13, <1>14, <1>15, <1>16
        DEF Next, User, Deliver

LEMMA OnlineInit == Init => OnlineInv
<1> SUFFICES ASSUME Init PROVE OnlineInv
    OBVIOUS
<1>1. MirrorOK /\ FirstOK
    BY DEF Init, MirrorOK, FirstOK, Waiting
<1>2. AnnouncedOK /\ WorkersFitBackend
    BY DEF Init, AnnouncedOK, WorkersFitBackend, InitialMaxWorkers
<1> QED BY <1>1, <1>2 DEF OnlineInv

LEMMA OnlineInvariant == Spec => []OnlineInv
<1>1. ASSUME OnlineInv, ControlInv, ControlInv', [Next]_vars
      PROVE  OnlineInv'
    BY <1>1, MirrorStep, AnnouncedStep, FitStep, FirstStep DEF OnlineInv
<1> QED BY <1>1, OnlineInit, ControlInvariant, PTL DEF Spec

\* START never asks a backend for more workers than it has announced, and for
\* fewer only if the user does.
THEOREM WorkersFit == Spec => []WorkersFitBackend
<1>1. OnlineInv => WorkersFitBackend
    BY DEF OnlineInv
<1> QED BY <1>1, OnlineInvariant, PTL

\* window.init never interrupts a calculation of the user: it starts one only
\* if there never was any.
THEOREM StartupFirst == Spec => []StartupIsFirst
<1>1. OnlineInv => StartupIsFirst
    BY DEF OnlineInv, FirstOK, StartupIsFirst
<1> QED BY <1>1, OnlineInvariant, PTL

-----------------------------------------------------------------------------
(* The screen invariant, about the current calculation calc and the        *)
(* messages msgs under way from its backend to the client.                 *)

Started(calc, blk, msg) ==
    msg.op = "BLOCK_STARTED" /\ msg.id = calc.id /\ msg.block = blk

Finished(calc, blk, msg) ==
    msg.op = "BLOCK_COMPLETED" /\ msg.id = calc.id /\ msg.block = blk

IsBlock(calc, msg) ==
    msg.op \in {"BLOCK_STARTED", "BLOCK_COMPLETED"} /\ msg.id = calc.id

Painted(calc, blk, scr) == scr[blk] = Calculated(calc.id, calc.coords)

\* When the messages before n have been handled, blk shows what calc computed.
Settled(calc, blk, scr, msgs, n) ==
    \/ \E j \in DOMAIN msgs :
          /\ j < n /\ Finished(calc, blk, msgs[j])
          /\ \A k \in DOMAIN msgs : k < n /\ Started(calc, blk, msgs[k]) => k < j
    \/ /\ Painted(calc, blk, scr)
       /\ \A k \in DOMAIN msgs : k < n => ~Started(calc, blk, msgs[k])

Active(calc, session) == session.phase # "idle" /\ session.calc.id = calc.id

\* What a backend has sent about a block agrees with where the block is: not
\* yet started, being calculated, or done.
ProgressOK(calc, scr, session, msgs) ==
    /\ session.calc.coords = calc.coords
    /\ session.waiting \cap session.running = {}
    /\ \A blk \in Blocks :
          /\ blk \in session.waiting => \A n \in DOMAIN msgs : ~Started(calc, blk, msgs[n])
          /\ blk \in session.waiting \cup session.running
                => \A n \in DOMAIN msgs : ~Finished(calc, blk, msgs[n])
          /\ blk \notin session.waiting \cup session.running
                => Settled(calc, blk, scr, msgs, Len(msgs) + 1)

\* COMPLETED comes after all that is said about the blocks.
CompletionOK(calc, scr, session, msgs) ==
    \A n \in DOMAIN msgs : msgs[n].op = "COMPLETED" /\ msgs[n].id = calc.id =>
        /\ ~Active(calc, session)
        /\ \A blk \in Blocks : Settled(calc, blk, scr, msgs, n)
        /\ \A k \in DOMAIN msgs : k > n => ~IsBlock(calc, msgs[k])

\* Nothing is painted any more once the client says "completed".
DoneOK(calc, st, scr, session, msgs) ==
    st = "waiting-completed" =>
        /\ ~Active(calc, session)
        /\ \A blk \in Blocks : Painted(calc, blk, scr)
        /\ \A n \in DOMAIN msgs : ~IsBlock(calc, msgs[n])

ReportsOK(calc, st, scr, session, msgs) ==
    /\ \A n \in DOMAIN msgs : IsBlock(calc, msgs[n]) => msgs[n].coords = calc.coords
    /\ Active(calc, session) => ProgressOK(calc, scr, session, msgs)
    /\ CompletionOK(calc, scr, session, msgs)
    /\ DoneOK(calc, st, scr, session, msgs)

\* A backend says nothing about a calculation before it reads its START.
OrdersOK(calc, starts, msgs) ==
    \A i \in DOMAIN starts : starts[i].op = "START" /\ starts[i].id = calc.id =>
        /\ starts[i].coords = calc.coords
        /\ \A n \in DOMAIN msgs : ~IsBlock(calc, msgs[n])

\* "max_n" keeps the pixels, so it is only ever asked for where they belong.
RequestOK(req) == req # NoCalc /\ req.kind = "max_n" => req.coords = coordinates

\* st, calc, scr and msgs stand for state, current, screen and toClient.
Shown(st, calc, scr, msgs) ==
    /\ st = "waiting-completed" => calc # NoCalc
    /\ calc # NoCalc =>
          LET b == calc.backend IN
          /\ coordinates = calc.coords
          /\ ReportsOK(calc, st, scr, server[b], msgs[b])
          /\ OrdersOK(calc, toServer[b], msgs[b])

ScreenInv ==
    /\ Shown(state, current, screen, toClient)
    /\ RequestOK(requested)
    /\ ScreenShowsCoordinates

-----------------------------------------------------------------------------
(* Messages and the screen, apart from the rest of the state.              *)

Msg == ControlMsg \cup Answer

\* What a handler makes of the screen.
After(calc, scr, msg) ==
    IF ~IsBlock(calc, msg) THEN scr
    ELSE [scr EXCEPT ![msg.block] = IF msg.op = "BLOCK_STARTED" THEN Calculating
                                    ELSE Calculated(msg.id, msg.coords)]

LEMMA AfterAt ==
    ASSUME NEW calc, NEW scr \in [Blocks -> Pixels], NEW blk \in Blocks, NEW msg \in Msg,
           IsBlock(calc, msg) => msg.coords = calc.coords
    PROVE  /\ Finished(calc, blk, msg) => Painted(calc, blk, After(calc, scr, msg))
           /\ ~Started(calc, blk, msg) /\ Painted(calc, blk, scr)
                 => Painted(calc, blk, After(calc, scr, msg))
<1>1. CASE ~IsBlock(calc, msg)
    BY <1>1 DEF After, IsBlock, Finished
<1>2. CASE IsBlock(calc, msg)
  <2>1. msg \in BlockMsg
      BY <1>2 DEF IsBlock, Msg, ControlMsg, Answer, EndMsg
  <2> QED BY <1>2, <2>1 DEF After, IsBlock, Finished, Started, Painted, BlockMsg
<1> QED BY <1>1, <1>2

\* Handling a message that comes before n.
LEMMA SettledTail ==
    ASSUME NEW calc, NEW scr \in [Blocks -> Pixels], NEW blk \in Blocks,
           NEW msgs \in Seq(Msg), msgs # <<>>, NEW n \in Nat, n > 1,
           IsBlock(calc, Head(msgs)) => Head(msgs).coords = calc.coords,
           Settled(calc, blk, scr, msgs, n)
    PROVE  Settled(calc, blk, After(calc, scr, Head(msgs)), Tail(msgs), n - 1)
<1> DEFINE rest == Tail(msgs)
           first == Head(msgs)
           new == After(calc, scr, first)
<1>1. /\ Len(msgs) \in Nat \ {0} /\ DOMAIN msgs = 1..Len(msgs)
      /\ first = msgs[1] /\ DOMAIN rest = 1..Len(msgs) - 1
      /\ \A i \in DOMAIN rest : i + 1 \in DOMAIN msgs /\ rest[i] = msgs[i + 1]
    BY TailAt
<1>2. /\ Finished(calc, blk, first) => Painted(calc, blk, new)
      /\ ~Started(calc, blk, first) /\ Painted(calc, blk, scr) => Painted(calc, blk, new)
  <2>1. first \in Msg
      BY <1>1
  <2> QED BY <2>1, AfterAt
<1> SUFFICES Settled(calc, blk, new, rest, n - 1)
    OBVIOUS
<1> HIDE DEF rest, first, new
<1>3. ASSUME NEW j \in DOMAIN msgs, j < n, Finished(calc, blk, msgs[j]),
             \A k \in DOMAIN msgs : k < n /\ Started(calc, blk, msgs[k]) => k < j
      PROVE  Settled(calc, blk, new, rest, n - 1)
  <2>1. CASE j = 1
    <3>1. Painted(calc, blk, new)
        BY <1>1, <1>2, <1>3, <2>1
    <3>2. \A k \in DOMAIN rest : k < n - 1 => ~Started(calc, blk, rest[k])
        BY <1>1, <1>3, <2>1
    <3> QED BY <3>1, <3>2 DEF Settled
  <2>2. CASE j # 1
    <3>1. /\ j - 1 \in DOMAIN rest /\ j - 1 < n - 1 /\ rest[j - 1] = msgs[j]
          /\ \A k \in DOMAIN rest : k < n - 1 /\ Started(calc, blk, rest[k]) => k < j - 1
        BY <1>1, <1>3, <2>2
    <3> QED BY <1>3, <3>1 DEF Settled
  <2> QED BY <2>1, <2>2
<1>4. CASE /\ Painted(calc, blk, scr)
           /\ \A k \in DOMAIN msgs : k < n => ~Started(calc, blk, msgs[k])
  <2>1. Painted(calc, blk, new)
      BY <1>1, <1>2, <1>4
  <2>2. \A k \in DOMAIN rest : k < n - 1 => ~Started(calc, blk, rest[k])
      BY <1>1, <1>4
  <2> QED BY <2>1, <2>2 DEF Settled
<1> QED BY <1>3, <1>4 DEF Settled

\* The client handles the first message.
LEMMA ReportsTail ==
    ASSUME NEW calc, NEW st, NEW scr \in [Blocks -> Pixels], NEW session,
           NEW msgs \in Seq(Msg), msgs # <<>>, ReportsOK(calc, st, scr, session, msgs)
    PROVE  ReportsOK(calc, st, After(calc, scr, Head(msgs)), session, Tail(msgs))
<1> DEFINE rest == Tail(msgs)
           first == Head(msgs)
           new == After(calc, scr, first)
<1>1. /\ Len(msgs) \in Nat \ {0} /\ DOMAIN msgs = 1..Len(msgs)
      /\ first = msgs[1] /\ DOMAIN rest = 1..Len(msgs) - 1 /\ Len(rest) = Len(msgs) - 1
      /\ \A i \in DOMAIN rest : i + 1 \in DOMAIN msgs /\ rest[i] = msgs[i + 1]
    BY TailAt
<1>2. \A n \in DOMAIN msgs : IsBlock(calc, msgs[n]) => msgs[n].coords = calc.coords
    BY DEF ReportsOK
<1>3. ASSUME NEW blk \in Blocks, NEW n \in Nat, n > 1, Settled(calc, blk, scr, msgs, n)
      PROVE  Settled(calc, blk, new, rest, n - 1)
    BY <1>1, <1>2, <1>3, SettledTail
<1> HIDE DEF rest, first, new
<1>4. \A n \in DOMAIN rest : IsBlock(calc, rest[n]) => rest[n].coords = calc.coords
    BY <1>1, <1>2
<1>5. ASSUME Active(calc, session) PROVE ProgressOK(calc, new, session, rest)
  <2>1. ProgressOK(calc, scr, session, msgs)
      BY <1>5 DEF ReportsOK
  <2>2. ASSUME NEW blk \in Blocks, blk \notin session.waiting \cup session.running
        PROVE  Settled(calc, blk, new, rest, Len(rest) + 1)
    <3>1. Settled(calc, blk, new, rest, Len(msgs) + 1 - 1)
        BY <1>1, <1>3, <2>1, <2>2 DEF ProgressOK
    <3> QED BY <1>1, <3>1
  <2> QED BY <1>1, <2>1, <2>2 DEF ProgressOK
<1>6. CompletionOK(calc, new, session, rest)
  <2> SUFFICES ASSUME NEW n \in DOMAIN rest, rest[n].op = "COMPLETED", rest[n].id = calc.id
               PROVE  /\ ~Active(calc, session)
                      /\ \A blk \in Blocks : Settled(calc, blk, new, rest, n)
                      /\ \A k \in DOMAIN rest : k > n => ~IsBlock(calc, rest[k])
      BY DEF CompletionOK
  <2>1. /\ ~Active(calc, session)
        /\ \A blk \in Blocks : Settled(calc, blk, scr, msgs, n + 1)
        /\ \A k \in DOMAIN msgs : k > n + 1 => ~IsBlock(calc, msgs[k])
      BY <1>1 DEF ReportsOK, CompletionOK
  <2>2. \A blk \in Blocks : Settled(calc, blk, new, rest, n + 1 - 1)
      BY <1>1, <1>3, <2>1
  <2> QED BY <1>1, <2>1, <2>2
<1>7. DoneOK(calc, st, new, session, rest)
  <2>1. ~IsBlock(calc, first) => new = scr
      BY DEF new, After
  <2> QED BY <1>1, <2>1 DEF ReportsOK, DoneOK
<1> QED BY <1>4, <1>5, <1>6, <1>7 DEF ReportsOK, rest, first, new

LEMMA AppendMsg ==
    ASSUME NEW msgs \in Seq(Msg), NEW msg \in Msg
    PROVE  /\ Len(msgs) \in Nat /\ DOMAIN msgs = 1..Len(msgs)
           /\ Len(Append(msgs, msg)) = Len(msgs) + 1
           /\ DOMAIN Append(msgs, msg) = 1..Len(msgs) + 1
           /\ \A i \in DOMAIN msgs : Append(msgs, msg)[i] = msgs[i]
           /\ Append(msgs, msg)[Len(msgs) + 1] = msg
    OBVIOUS

\* A message more after n.
LEMMA SettledBefore ==
    ASSUME NEW calc, NEW scr, NEW blk, NEW msgs \in Seq(Msg), NEW msg \in Msg,
           NEW n \in 1..Len(msgs) + 1, Settled(calc, blk, scr, msgs, n)
    PROVE  Settled(calc, blk, scr, Append(msgs, msg), n)
<1> DEFINE more == Append(msgs, msg)
<1>1. /\ Len(msgs) \in Nat /\ DOMAIN msgs = 1..Len(msgs)
      /\ DOMAIN more = 1..Len(msgs) + 1
      /\ \A i \in DOMAIN msgs : more[i] = msgs[i]
    BY AppendMsg
<1> SUFFICES Settled(calc, blk, scr, more, n)
    OBVIOUS
<1> HIDE DEF more
<1>2. \A k \in DOMAIN more : k < n => k \in DOMAIN msgs /\ more[k] = msgs[k]
    BY <1>1
<1>3. ASSUME NEW j \in DOMAIN msgs, j < n, Finished(calc, blk, msgs[j]),
             \A k \in DOMAIN msgs : k < n /\ Started(calc, blk, msgs[k]) => k < j
      PROVE  Settled(calc, blk, scr, more, n)
  <2>1. j \in DOMAIN more /\ more[j] = msgs[j]
      BY <1>1
  <2>2. \A k \in DOMAIN more : k < n /\ Started(calc, blk, more[k]) => k < j
      BY <1>2, <1>3
  <2> QED BY <1>3, <2>1, <2>2 DEF Settled
<1>4. CASE /\ Painted(calc, blk, scr)
           /\ \A k \in DOMAIN msgs : k < n => ~Started(calc, blk, msgs[k])
    BY <1>2, <1>4 DEF Settled
<1> QED BY <1>3, <1>4 DEF Settled

\* A message more, before n.
LEMMA SettledAfter ==
    ASSUME NEW calc, NEW scr, NEW blk, NEW msgs \in Seq(Msg), NEW msg \in Msg,
           \/ Settled(calc, blk, scr, msgs, Len(msgs) + 1) /\ ~Started(calc, blk, msg)
           \/ Finished(calc, blk, msg)
    PROVE  Settled(calc, blk, scr, Append(msgs, msg), Len(Append(msgs, msg)) + 1)
<1> DEFINE more == Append(msgs, msg)
           end == Len(msgs) + 2
<1>1. /\ Len(msgs) \in Nat /\ DOMAIN msgs = 1..Len(msgs)
      /\ Len(more) + 1 = end /\ DOMAIN more = 1..Len(msgs) + 1
      /\ \A i \in DOMAIN msgs : more[i] = msgs[i]
      /\ more[Len(msgs) + 1] = msg
    BY AppendMsg
<1> SUFFICES Settled(calc, blk, scr, more, end)
    BY <1>1
<1> HIDE DEF more
<1>2. \A k \in DOMAIN more : \/ k \in DOMAIN msgs /\ more[k] = msgs[k] /\ k < Len(msgs) + 1
                             \/ k = Len(msgs) + 1 /\ more[k] = msg
    BY <1>1
<1>3. CASE Finished(calc, blk, msg)
  <2>1. /\ Len(msgs) + 1 \in DOMAIN more /\ Len(msgs) + 1 < end
        /\ Finished(calc, blk, more[Len(msgs) + 1]) /\ ~Started(calc, blk, msg)
      BY <1>1, <1>3 DEF Finished, Started
  <2>2. \A k \in DOMAIN more : k < end /\ Started(calc, blk, more[k]) => k < Len(msgs) + 1
      BY <1>2, <2>1
  <2> QED BY <2>1, <2>2 DEF Settled
<1>4. ASSUME ~Started(calc, blk, msg), NEW j \in DOMAIN msgs, Finished(calc, blk, msgs[j]),
             \A k \in DOMAIN msgs : k < Len(msgs) + 1 /\ Started(calc, blk, msgs[k]) => k < j
      PROVE  Settled(calc, blk, scr, more, end)
  <2>1. j \in DOMAIN more /\ j < end /\ more[j] = msgs[j]
      BY <1>1
  <2>2. \A k \in DOMAIN more : k < end /\ Started(calc, blk, more[k]) => k < j
      BY <1>2, <1>4
  <2> QED BY <1>4, <2>1, <2>2 DEF Settled
<1>5. CASE /\ ~Started(calc, blk, msg) /\ Painted(calc, blk, scr)
           /\ \A k \in DOMAIN msgs : k < Len(msgs) + 1 => ~Started(calc, blk, msgs[k])
    BY <1>2, <1>5 DEF Settled
<1> QED BY <1>3, <1>4, <1>5 DEF Settled

\* A message more that says nothing about the blocks of calc or its end.
LEMMA ReportsAppend ==
    ASSUME NEW calc, NEW st, NEW scr, NEW session, NEW next,
           NEW msgs \in Seq(Msg), NEW msg \in Msg, ReportsOK(calc, st, scr, session, msgs),
           ~IsBlock(calc, msg), ~(msg.op = "COMPLETED" /\ msg.id = calc.id),
           Active(calc, next) =>
               /\ Active(calc, session) /\ next.calc = session.calc
               /\ next.waiting = session.waiting /\ next.running = session.running
    PROVE  ReportsOK(calc, st, scr, next, Append(msgs, msg))
<1> DEFINE more == Append(msgs, msg)
<1>1. /\ Len(msgs) \in Nat /\ DOMAIN msgs = 1..Len(msgs)
      /\ DOMAIN more = 1..Len(msgs) + 1
      /\ \A i \in DOMAIN msgs : more[i] = msgs[i]
      /\ more[Len(msgs) + 1] = msg
    BY AppendMsg
<1>2. /\ \A blk : ~Started(calc, blk, msg) /\ ~Finished(calc, blk, msg)
      /\ \A k \in DOMAIN more : (k \in DOMAIN msgs /\ more[k] = msgs[k]) \/ more[k] = msg
    BY <1>1 DEF IsBlock, Started, Finished
<1>3. \A blk \in Blocks, n \in DOMAIN msgs : Settled(calc, blk, scr, msgs, n)
          => Settled(calc, blk, scr, more, n)
    BY <1>1, SettledBefore
<1>4. \A blk \in Blocks : Settled(calc, blk, scr, msgs, Len(msgs) + 1)
          => Settled(calc, blk, scr, more, Len(more) + 1)
    BY <1>2, SettledAfter
<1> SUFFICES ReportsOK(calc, st, scr, next, more)
    OBVIOUS
<1> HIDE DEF more
<1>5. Active(calc, next) => ProgressOK(calc, scr, next, more)
    BY <1>2, <1>4 DEF ReportsOK, ProgressOK
<1>6. CompletionOK(calc, scr, next, more)
    BY <1>2, <1>3 DEF ReportsOK, CompletionOK
<1>7. DoneOK(calc, st, scr, next, more)
    BY <1>2 DEF ReportsOK, DoneOK
<1>8. \A n \in DOMAIN more : IsBlock(calc, more[n]) => more[n].coords = calc.coords
    BY <1>2 DEF ReportsOK
<1> QED BY <1>5, <1>6, <1>7, <1>8 DEF ReportsOK

\* The backend reports a block of calc.
LEMMA ReportsBlock ==
    ASSUME NEW calc, NEW st, NEW scr, NEW session, NEW next, NEW blk \in Blocks,
           NEW msgs \in Seq(Msg), NEW msg \in Msg, ReportsOK(calc, st, scr, session, msgs),
           Active(calc, session), next.calc = session.calc, next.phase = session.phase,
           msg.coords = session.calc.coords,
           \/ /\ Started(calc, blk, msg) /\ blk \in session.waiting
              /\ next.waiting = session.waiting \ {blk}
              /\ next.running = session.running \cup {blk}
           \/ /\ Finished(calc, blk, msg) /\ blk \in session.running
              /\ next.waiting = session.waiting /\ next.running = session.running \ {blk}
    PROVE  ReportsOK(calc, st, scr, next, Append(msgs, msg))
<1> DEFINE more == Append(msgs, msg)
<1>1. /\ Len(msgs) \in Nat /\ DOMAIN msgs = 1..Len(msgs)
      /\ DOMAIN more = 1..Len(msgs) + 1
      /\ \A i \in DOMAIN msgs : more[i] = msgs[i]
      /\ more[Len(msgs) + 1] = msg
    BY AppendMsg
<1>2. \A k \in DOMAIN more : (k \in DOMAIN msgs /\ more[k] = msgs[k]) \/ more[k] = msg
    BY <1>1
<1>3. /\ ProgressOK(calc, scr, session, msgs) /\ st # "waiting-completed"
      /\ \A n \in DOMAIN msgs : ~(msgs[n].op = "COMPLETED" /\ msgs[n].id = calc.id)
    BY DEF ReportsOK, CompletionOK, DoneOK
<1>4. msg.op # "COMPLETED"
    BY DEF Started, Finished
<1>5. ASSUME NEW other \in Blocks, other \notin next.waiting \cup next.running
      PROVE  Settled(calc, other, scr, more, Len(more) + 1)
  <2>1. CASE Finished(calc, other, msg)
      BY <2>1, SettledAfter
  <2>2. CASE ~Finished(calc, other, msg)
    <3>1. other \notin session.waiting \cup session.running /\ ~Started(calc, other, msg)
        BY <1>5, <2>2 DEF Started, Finished
    <3>2. Settled(calc, other, scr, msgs, Len(msgs) + 1)
        BY <1>3, <3>1 DEF ProgressOK
    <3> QED BY <3>1, <3>2, SettledAfter
  <2> QED BY <2>1, <2>2
<1> SUFFICES ReportsOK(calc, st, scr, next, more)
    OBVIOUS
<1> HIDE DEF more
<1>6. ProgressOK(calc, scr, next, more)
  <2>1. next.calc.coords = calc.coords /\ next.waiting \cap next.running = {}
      BY <1>3 DEF ProgressOK
  <2>2. ASSUME NEW other \in Blocks, NEW n \in DOMAIN more
        PROVE  /\ other \in next.waiting => ~Started(calc, other, more[n])
               /\ other \in next.waiting \cup next.running => ~Finished(calc, other, more[n])
    <3>1. CASE n \in DOMAIN msgs /\ more[n] = msgs[n]
        BY <1>3, <3>1 DEF ProgressOK
    <3>2. CASE more[n] = msg
        BY <1>3, <3>2 DEF ProgressOK, Started, Finished
    <3> QED BY <1>2, <3>1, <3>2
  <2> QED BY <1>5, <2>1, <2>2 DEF ProgressOK
<1>7. CompletionOK(calc, scr, next, more)
    BY <1>2, <1>3, <1>4 DEF CompletionOK
<1>8. \A n \in DOMAIN more : IsBlock(calc, more[n]) => more[n].coords = calc.coords
    BY <1>2, <1>3 DEF ReportsOK, ProgressOK
<1> QED BY <1>3, <1>6, <1>7, <1>8 DEF ReportsOK, DoneOK

\* The backend reports the end of calc.
LEMMA ReportsEnd ==
    ASSUME NEW calc, NEW st, NEW scr, NEW session, NEW next,
           NEW msgs \in Seq(Msg), NEW msg \in Msg, ReportsOK(calc, st, scr, session, msgs),
           Active(calc, session), session.waiting = {}, session.running = {},
           msg.op = "COMPLETED", next.phase = "idle"
    PROVE  ReportsOK(calc, st, scr, next, Append(msgs, msg))
<1> DEFINE more == Append(msgs, msg)
           end == Len(msgs) + 1
<1>1. /\ Len(msgs) \in Nat /\ DOMAIN msgs = 1..Len(msgs)
      /\ DOMAIN more = 1..end
      /\ \A i \in DOMAIN msgs : more[i] = msgs[i]
      /\ more[end] = msg
    BY AppendMsg
<1>3. /\ ProgressOK(calc, scr, session, msgs) /\ st # "waiting-completed"
      /\ \A n \in DOMAIN msgs : ~(msgs[n].op = "COMPLETED" /\ msgs[n].id = calc.id)
    BY DEF ReportsOK, CompletionOK, DoneOK
<1>4. ~IsBlock(calc, msg) /\ ~Active(calc, next)
    BY DEF IsBlock, Active
<1>5. \A blk \in Blocks : Settled(calc, blk, scr, more, end)
  <2> SUFFICES ASSUME NEW blk \in Blocks PROVE Settled(calc, blk, scr, more, end)
      OBVIOUS
  <2>1. Settled(calc, blk, scr, msgs, end)
      BY <1>3 DEF ProgressOK
  <2> QED BY <1>1, <2>1, SettledBefore
<1> SUFFICES ReportsOK(calc, st, scr, next, more)
    OBVIOUS
<1> HIDE DEF more
<1>2. \A k \in DOMAIN more : \/ k \in DOMAIN msgs /\ more[k] = msgs[k]
                             \/ k = end /\ more[k] = msg
    BY <1>1
<1>6. CompletionOK(calc, scr, next, more)
    BY <1>1, <1>2, <1>3, <1>4, <1>5 DEF CompletionOK
<1>7. \A n \in DOMAIN more : IsBlock(calc, more[n]) => more[n].coords = calc.coords
    BY <1>2, <1>4 DEF ReportsOK
<1> QED BY <1>3, <1>4, <1>6, <1>7 DEF ReportsOK, DoneOK

\* The connection is lost, and some of the messages.
LEMMA ReportsLost ==
    ASSUME NEW calc, NEW st, NEW scr, NEW session, NEW next,
           NEW msgs \in Seq(Msg), NEW left \in Seq(Msg), ReportsOK(calc, st, scr, session, msgs),
           ~Active(calc, next),
           \A n \in DOMAIN left :
               \/ n \in DOMAIN msgs /\ left[n] = msgs[n]
               \/ left[n] \in ControlMsg /\ \A k \in DOMAIN left : k <= n
    PROVE  ReportsOK(calc, st, scr, next, left)
<1>1. /\ Len(left) \in Nat /\ DOMAIN left = 1..Len(left)
      /\ Len(msgs) \in Nat /\ DOMAIN msgs = 1..Len(msgs)
    OBVIOUS
<1>2. \A msg \in ControlMsg : ~IsBlock(calc, msg) /\ msg.op # "COMPLETED"
    BY DEF ControlMsg, IsBlock
<1>3. ASSUME NEW n \in DOMAIN left, left[n] = msgs[n], n \in DOMAIN msgs,
             left[n].op = "COMPLETED", NEW blk \in Blocks, Settled(calc, blk, scr, msgs, n)
      PROVE  Settled(calc, blk, scr, left, n)
  <2>1. \A k \in DOMAIN msgs : k < n => k \in DOMAIN left
      BY <1>1
  <2>2. \A k \in DOMAIN left : k < n => left[k] = msgs[k] /\ k \in DOMAIN msgs
      BY <1>1
  <2>3. ASSUME NEW j \in DOMAIN msgs, j < n, Finished(calc, blk, msgs[j]),
               \A k \in DOMAIN msgs : k < n /\ Started(calc, blk, msgs[k]) => k < j
        PROVE  Settled(calc, blk, scr, left, n)
    <3>1. j \in DOMAIN left /\ left[j] = msgs[j]
        BY <2>1, <2>2, <2>3
    <3>2. \A k \in DOMAIN left : k < n /\ Started(calc, blk, left[k]) => k < j
        BY <2>2, <2>3
    <3> QED BY <2>3, <3>1, <3>2 DEF Settled
  <2>4. CASE /\ Painted(calc, blk, scr)
             /\ \A k \in DOMAIN msgs : k < n => ~Started(calc, blk, msgs[k])
      BY <2>2, <2>4 DEF Settled
  <2> QED BY <1>3, <2>3, <2>4 DEF Settled
<1>4. CompletionOK(calc, scr, next, left)
  <2> SUFFICES ASSUME NEW n \in DOMAIN left, left[n].op = "COMPLETED", left[n].id = calc.id
               PROVE  /\ \A blk \in Blocks : Settled(calc, blk, scr, left, n)
                      /\ \A k \in DOMAIN left : k > n => ~IsBlock(calc, left[k])
      BY DEF CompletionOK
  <2>1. n \in DOMAIN msgs /\ left[n] = msgs[n]
      BY <1>2
  <2>2. /\ \A blk \in Blocks : Settled(calc, blk, scr, msgs, n)
        /\ \A k \in DOMAIN msgs : k > n => ~IsBlock(calc, msgs[k])
      BY <2>1 DEF ReportsOK, CompletionOK
  <2> QED BY <1>2, <1>3, <2>1, <2>2
<1>5. DoneOK(calc, st, scr, next, left)
    BY <1>2 DEF ReportsOK, DoneOK
<1>6. \A n \in DOMAIN left : IsBlock(calc, left[n]) => left[n].coords = calc.coords
    BY <1>2 DEF ReportsOK
<1> QED BY <1>4, <1>5, <1>6 DEF ReportsOK

-----------------------------------------------------------------------------
(* The client's handlers.                                                  *)

Taken(b) == [toClient EXCEPT ![b] = Tail(@)]

\* A handler takes a message, and paints what a block message of the current
\* calculation says.
LEMMA TakeShown ==
    ASSUME TypeOK, NEW st, NEW calc \in Calculation \cup {NoCalc}, NEW b \in Backend,
           toClient[b] # <<>>, Shown(st, calc, screen, toClient), NEW scr,
           scr = IF calc # NoCalc /\ b = calc.backend THEN After(calc, screen, Head(toClient[b]))
                                                      ELSE screen
    PROVE  Shown(st, calc, scr, Taken(b))
<1>1. toClient \in [Backend -> Seq(Msg)] /\ screen \in [Blocks -> Pixels]
    BY DEF TypeOK, Msg
<1> SUFFICES ASSUME calc # NoCalc
             PROVE  /\ ReportsOK(calc, st, scr, server[calc.backend], Taken(b)[calc.backend])
                    /\ OrdersOK(calc, toServer[calc.backend], Taken(b)[calc.backend])
    BY DEF Shown
<1>2. /\ ReportsOK(calc, st, screen, server[calc.backend], toClient[calc.backend])
      /\ OrdersOK(calc, toServer[calc.backend], toClient[calc.backend])
    BY DEF Shown
<1>3. CASE b # calc.backend
  <2>1. Taken(b)[calc.backend] = toClient[calc.backend]
      BY <1>1, <1>3 DEF Taken, Calculation
  <2> QED BY <1>2, <1>3, <2>1
<1>4. CASE b = calc.backend
  <2>1. Taken(b)[b] = Tail(toClient[b]) /\ toClient[b] \in Seq(Msg)
      BY <1>1 DEF Taken
  <2>2. ReportsOK(calc, st, scr, server[b], Tail(toClient[b]))
      BY <1>1, <1>2, <1>4, <2>1, ReportsTail
  <2>3. OrdersOK(calc, toServer[b], Tail(toClient[b]))
      BY <1>2, <1>4, <2>1, TailAt DEF OrdersOK
  <2> QED BY <1>4, <2>1, <2>2, <2>3
<1> QED BY <1>3, <1>4

\* A message that is none about a block leaves the screen as it is.
LEMMA QuietShown ==
    ASSUME TypeOK, NEW st, NEW calc \in Calculation \cup {NoCalc}, NEW b \in Backend,
           NEW op \in {"CONFIG", "CLOSE", "COMPLETED", "ABORTED"}, Receive(b, op),
           Shown(st, calc, screen, toClient)
    PROVE  Shown(st, calc, screen, toClient')
<1>1. toClient[b] # <<>> /\ Head(toClient[b]).op = op /\ toClient' = Taken(b)
    BY DEF Receive, Taken
<1>2. After(calc, screen, Head(toClient[b])) = screen
    BY <1>1 DEF After, IsBlock
<1> QED BY <1>1, <1>2, TakeShown

\* Only the id and the place of a calculation matter here.
LEMMA SameReports ==
    ASSUME NEW calc, NEW same, same.id = calc.id, same.coords = calc.coords,
           NEW st, NEW scr, NEW session, NEW msgs, ReportsOK(calc, st, scr, session, msgs)
    PROVE  ReportsOK(same, st, scr, session, msgs)
<1>1. \A msg, blk : /\ Started(same, blk, msg) <=> Started(calc, blk, msg)
                    /\ Finished(same, blk, msg) <=> Finished(calc, blk, msg)
                    /\ IsBlock(same, msg) <=> IsBlock(calc, msg)
    BY DEF Started, Finished, IsBlock
<1>2. /\ \A blk : Painted(same, blk, scr) <=> Painted(calc, blk, scr)
      /\ Active(same, session) <=> Active(calc, session)
    BY DEF Painted, Active
<1>3. \A blk, n : Settled(same, blk, scr, msgs, n) <=> Settled(calc, blk, scr, msgs, n)
    BY <1>1, <1>2 DEF Settled
<1>4. ProgressOK(same, scr, session, msgs) <=> ProgressOK(calc, scr, session, msgs)
    BY <1>1, <1>3 DEF ProgressOK
<1>5. CompletionOK(same, scr, session, msgs) <=> CompletionOK(calc, scr, session, msgs)
    BY <1>1, <1>2, <1>3 DEF CompletionOK
<1>6. DoneOK(same, st, scr, session, msgs) <=> DoneOK(calc, st, scr, session, msgs)
    BY <1>1, <1>2 DEF DoneOK
<1> QED BY <1>1, <1>2, <1>4, <1>5, <1>6 DEF ReportsOK

\* The current calculation is reported as ended.
LEMMA EndedShown ==
    ASSUME TypeOK, WatchInv, Shown(state, current, screen, toClient),
           NEW b \in Backend, NEW op \in {"COMPLETED", "ABORTED"}, Receive(b, op),
           IsCurrent(Head(toClient[b]).id), NEW calc \in Calculation, calc # NoCalc,
           calc.id = current.id, calc.coords = current.coords, calc.backend = current.backend,
           NEW st, st = IF op = "COMPLETED" THEN "waiting-completed" ELSE "waiting-aborted"
    PROVE  Shown(st, calc, screen, toClient')
<1>1. /\ toClient[b] \in Seq(ControlMsg \cup Answer) /\ toClient[b] # <<>>
      /\ toClient[b][1] \in Answer /\ 1 \in DOMAIN toClient[b]
      /\ toClient[b][1].op = op /\ toClient[b][1].id = current.id /\ current # NoCalc
  <2>1. toClient[b] \in Seq(ControlMsg \cup Answer) /\ toClient[b] # <<>>
      BY DEF TypeOK, Receive
  <2>2. 1 \in DOMAIN toClient[b] /\ Head(toClient[b]) = toClient[b][1]
      BY <2>1
  <2>3. toClient[b][1].op = op /\ toClient[b][1] \in ControlMsg \cup Answer
      BY <2>1, <2>2 DEF Receive
  <2> QED BY <2>1, <2>2, <2>3 DEF IsCurrent, ControlMsg
<1>2. b = current.backend /\ current \in Calculation
    BY <1>1 DEF WatchInv, Watch, IdsKnown, Known, TypeOK
<1>3. Shown("calculating", calc, screen, toClient)
  <2>1. ReportsOK(current, state, screen, server[b], toClient[b])
      BY <1>1, <1>2 DEF Shown
  <2>2. ReportsOK(calc, state, screen, server[b], toClient[b])
      BY <2>1, SameReports
  <2>3. ReportsOK(calc, "calculating", screen, server[b], toClient[b])
      BY <2>2 DEF ReportsOK, DoneOK
  <2>4. OrdersOK(calc, toServer[b], toClient[b]) /\ coordinates = calc.coords
      BY <1>1, <1>2 DEF Shown, OrdersOK, IsBlock
  <2> QED BY <1>2, <2>3, <2>4 DEF Shown
<1>4. Shown("calculating", calc, screen, toClient')
    BY <1>3, QuietShown
<1>5. toClient'[b] = Tail(toClient[b])
    BY DEF Receive, TypeOK
<1>6. ASSUME op = "COMPLETED"
      PROVE  DoneOK(calc, st, screen, server[b], toClient'[b])
  <2>1. CompletionOK(calc, screen, server[b], toClient[b])
      BY <1>2, <1>3 DEF Shown, ReportsOK
  <2>2. /\ ~Active(calc, server[b])
        /\ \A blk \in Blocks : Settled(calc, blk, screen, toClient[b], 1)
        /\ \A k \in DOMAIN toClient[b] : k > 1 => ~IsBlock(calc, toClient[b][k])
      BY <1>1, <1>6, <2>1 DEF CompletionOK
  <2>3. \A blk \in Blocks : Painted(calc, blk, screen)
      BY <1>1, <2>2 DEF Settled
  <2>4. \A n \in DOMAIN toClient'[b] : ~IsBlock(calc, toClient'[b][n])
      BY <1>1, <1>5, <2>2, TailAt
  <2> QED BY <2>2, <2>3, <2>4 DEF DoneOK
<1>7. op # "COMPLETED" => DoneOK(calc, st, screen, server[b], toClient'[b])
    BY DEF DoneOK
<1> QED BY <1>2, <1>4, <1>6, <1>7 DEF Shown, ReportsOK

\* start(): no answer under way is about the new calculation, and the pixels
\* that are kept belong where it is.
LEMMA StartShown ==
    ASSUME CalcTypeOK, BackendsTypeOK', SessionOK, NEW STATE st, NEW STATE calc, NEW STATE req,
           Watch(st, calc), Popped, UNCHANGED server, server \in [Backend -> Server],
           toClient' \in [Backend -> Seq(Msg)], toClient \in [Backend -> Seq(Msg)],
           req \in Request, RequestOK(req), ScreenShowsCoordinates, Start(req), UNCHANGED repeats
    PROVE  ScreenInv'
<1> DEFINE b == selected'
<1>1. /\ lastId \in Nat /\ NewId = lastId + 1 /\ b \in Backend /\ server[b] \in Server
      /\ state' = "calculating" /\ requested' = NoCalc /\ current' # NoCalc
      /\ current'.id = NewId /\ current'.backend = b /\ current'.coords = req.coords
      /\ coordinates' = req.coords
    BY StartType DEF Start, NewId, CalcTypeOK, BackendsTypeOK
<1>2. IdsKnown(b, calc)
    BY <1>1 DEF Watch
<1>3. \A n \in DOMAIN toClient'[b] : toClient'[b][n] \in Answer => toClient'[b][n].id # NewId
  <2> SUFFICES ASSUME NEW n \in DOMAIN toClient'[b], toClient'[b][n] \in Answer
               PROVE  toClient'[b][n].id # NewId
      OBVIOUS
  <2>1. PICK j \in DOMAIN toClient[b] : toClient'[b][n] = toClient[b][j]
      BY <1>1 DEF Popped
  <2>2. toClient[b][j].id <= lastId /\ toClient[b][j].id \in Nat
      BY <1>2, <2>1 DEF IdsKnown, Known, Answer, BlockMsg, EndMsg
  <2> QED BY <1>1, <2>1, <2>2
<1>4. \A n \in DOMAIN toClient'[b] :
          /\ ~IsBlock(current', toClient'[b][n])
          /\ ~(toClient'[b][n].op = "COMPLETED" /\ toClient'[b][n].id = current'.id)
  <2> SUFFICES ASSUME NEW n \in DOMAIN toClient'[b],
                      toClient'[b][n].op \in {"BLOCK_STARTED", "BLOCK_COMPLETED", "COMPLETED"}
               PROVE  toClient'[b][n].id # current'.id
      BY DEF IsBlock
  <2>1. toClient'[b][n] \in Msg
      BY <1>1
  <2>2. toClient'[b][n] \in Answer
      BY <2>1 DEF Msg, ControlMsg
  <2> QED BY <1>1, <1>3, <2>2
<1>5. ~Active(current', server[b])
  <2>1. server[b].phase # "idle" => server[b].calc # NoCalc /\ server[b].calc \in StartMsg
      BY <1>1 DEF SessionOK, Server
  <2>2. server[b].phase # "idle" => server[b].calc.id <= lastId /\ server[b].calc.id \in Nat
      BY <1>2, <2>1 DEF IdsKnown, Known, StartMsg
  <2> QED BY <1>1, <2>2 DEF Active
<1>6. ReportsOK(current', state', screen', server'[b], toClient'[b])
    BY <1>1, <1>4, <1>5 DEF ReportsOK, CompletionOK, DoneOK
<1>7. OrdersOK(current', toServer'[b], toClient'[b])
  <2> SUFFICES ASSUME NEW i \in DOMAIN toServer'[b], toServer'[b][i].op = "START",
                      toServer'[b][i].id = current'.id
               PROVE  toServer'[b][i].coords = current'.coords
      BY <1>4 DEF OrdersOK
  <2>1. toServer[b] \in Seq(StartMsg \cup AbortMsg)
      BY <1>1 DEF CalcTypeOK
  <2>2. WorkerCount \in Nat \ {0}
      BY BackendsAssumption DEF WorkerCount, BackendsTypeOK
  <2>3. PICK msg \in StartMsg : /\ msg.coords = req.coords
                                /\ toServer'[b] \in {toServer[b], Append(toServer[b], msg)}
    <3>1. [op |-> "START", id |-> NewId, coords |-> req.coords, workers |-> WorkerCount]
              \in StartMsg
        BY <1>1, <2>2 DEF StartMsg, Request
    <3>2. \/ toServer'[b] = toServer[b]
          \/ toServer'[b] = Append(toServer[b], [op |-> "START", id |-> NewId,
                                       coords |-> req.coords, workers |-> WorkerCount])
        BY <1>1 DEF Start, Send, CalcTypeOK
    <3> QED BY <3>1, <3>2
  <2>4. msg \in StartMsg \cup AbortMsg
      OBVIOUS
  <2>5. (i \in DOMAIN toServer[b] /\ toServer'[b][i] = toServer[b][i]) \/ toServer'[b][i] = msg
    <3>1. CASE toServer'[b] = Append(toServer[b], msg)
        BY <2>1, <2>4, <3>1, AppendAt
    <3> QED BY <2>3, <3>1
  <2>6. i \in DOMAIN toServer[b] => toServer[b][i].id <= lastId /\ toServer[b][i].id \in Nat
      BY <1>2, <2>1 DEF IdsKnown, Known, StartMsg, AbortMsg
  <2> QED BY <1>1, <2>3, <2>5, <2>6
<1>8. ScreenShowsCoordinates'
  <2>1. ASSUME NEW blk \in Blocks, screen'[blk].value = "calculated"
        PROVE  req.kind = "max_n" /\ screen'[blk] = screen[blk]
      BY <2>1 DEF Start, ScreenBeforeStart, NotCalculated
  <2>2. req.kind = "max_n" => coordinates = coordinates'
      BY <1>1, NoCalcAssumption DEF RequestOK
  <2> QED BY <2>1, <2>2 DEF ScreenShowsCoordinates
<1> QED BY <1>1, <1>6, <1>7, <1>8 DEF ScreenInv, Shown, RequestOK

LEMMA HandleShown ==
    ASSUME CalcTypeOK, BackendsTypeOK', SessionOK, NEW STATE st, NEW STATE calc, NEW STATE req,
           Watch(st, calc), Popped, UNCHANGED server, server \in [Backend -> Server],
           toClient' \in [Backend -> Seq(Msg)], toClient \in [Backend -> Seq(Msg)],
           Handed(st, calc, req), Handle(st, calc, req), RequestOK(req),
           ScreenShowsCoordinates, Shown(st, calc, screen, toClient'),
           UNCHANGED repeats
    PROVE  ScreenInv'
<1>1. CASE req # NoCalc /\ Start(req)
    BY <1>1, StartShown DEF Handed
<1>2. ASSUME UNCHANGED <<viewVars, toServer>>, current' = calc, requested' \in {req, NoCalc},
             state' \in {st, "waiting-offline"}
      PROVE  ScreenInv'
  <2>1. Shown(state, current, screen, toClient)'
      BY <1>2 DEF Shown, ReportsOK, DoneOK, viewVars
  <2> QED BY <1>2, <2>1 DEF ScreenInv, RequestOK, ScreenShowsCoordinates, viewVars
<1>3. CASE st = "calculating" /\ AbortCurrent(calc, req)
  <2>1. /\ UNCHANGED viewVars /\ current' = calc /\ requested' = req /\ state' = "aborting"
        /\ calc \in Calculation /\ calc # NoCalc
      BY <1>3 DEF AbortCurrent, Handed
  <2> DEFINE b == calc.backend
  <2>2. toServer[b] \in Seq(StartMsg \cup AbortMsg) /\ b \in Backend
      BY <2>1 DEF CalcTypeOK, Calculation
  <2>3. PICK msg \in AbortMsg : toServer'[b] \in {toServer[b], Append(toServer[b], msg)}
    <3>1. [op |-> "ABORT", id |-> calc.id] \in AbortMsg
        BY <2>1 DEF AbortMsg, Calculation
    <3>2. toServer'[b] \in {toServer[b], Append(toServer[b], [op |-> "ABORT", id |-> calc.id])}
        BY <1>3, <2>2 DEF AbortCurrent, Send, CalcTypeOK
    <3> QED BY <3>1, <3>2
  <2>4. msg.op # "START" /\ msg \in StartMsg \cup AbortMsg
      BY DEF AbortMsg
  <2>5. \A i \in DOMAIN toServer'[b] : toServer'[b][i].op = "START" =>
            i \in DOMAIN toServer[b] /\ toServer'[b][i] = toServer[b][i]
    <3>1. CASE toServer'[b] = Append(toServer[b], msg)
        BY <2>2, <2>4, <3>1, AppendAt
    <3> QED BY <2>3, <3>1
  <2>6. OrdersOK(calc, toServer'[b], toClient'[b])
      BY <2>1, <2>5 DEF Shown, OrdersOK
  <2>7. ReportsOK(calc, "aborting", screen, server[b], toClient'[b])
      BY <2>1 DEF Shown, ReportsOK, DoneOK
  <2>8. Shown(state, current, screen, toClient)'
      BY <2>1, <2>6, <2>7 DEF Shown, viewVars
  <2> QED BY <2>1, <2>8 DEF ScreenInv, RequestOK, ScreenShowsCoordinates, viewVars
<1> QED BY <1>1, <1>2, <1>3 DEF Handle, ForgetRequest

\* A block message of the current calculation is painted, any other is not.
LEMMA BlockShown ==
    ASSUME ControlInv, WatchInv, ScreenInv, NEW b \in Backend,
           OnBlockStarted(b) \/ OnBlockCompleted(b)
    PROVE  ScreenInv'
<1> DEFINE msg == Head(toClient[b])
           paints == current # NoCalc /\ b = current.backend
<1>1. /\ toClient[b] # <<>> /\ toClient' = Taken(b) /\ msg \in BlockMsg /\ TypeOK
      /\ 1 \in DOMAIN toClient[b] /\ msg = toClient[b][1]
      /\ msg.op \in {"BLOCK_STARTED", "BLOCK_COMPLETED"}
      /\ UNCHANGED <<calcVars, coordinates, toServer, server>>
  <2>1. toClient[b] # <<>> /\ toClient[b] \in Seq(ControlMsg \cup Answer)
        /\ toClient' = Taken(b) /\ msg.op \in {"BLOCK_STARTED", "BLOCK_COMPLETED"}
        /\ UNCHANGED <<calcVars, coordinates, toServer, server>>
      BY DEF OnBlockStarted, OnBlockCompleted, Receive, Taken, ControlInv, TypeOK
  <2>2. 1 \in DOMAIN toClient[b] /\ msg = toClient[b][1] /\ msg \in ControlMsg \cup Answer
      BY <2>1
  <2> QED BY <2>1, <2>2 DEF ControlMsg, Answer, EndMsg, ControlInv
<1>2. IsCurrent(msg.id) => paints
    BY <1>1 DEF WatchInv, Watch, IdsKnown, Known, IsCurrent, Answer
<1>3. screen' = IF paints THEN After(current, screen, msg) ELSE screen
  <2>1. screen' = IF IsCurrent(msg.id)
                  THEN [screen EXCEPT ![msg.block] = IF msg.op = "BLOCK_STARTED" THEN Calculating
                                                     ELSE Calculated(msg.id, msg.coords)]
                  ELSE screen
      BY DEF OnBlockStarted, OnBlockCompleted, Receive
  <2>2. current # NoCalc => (IsBlock(current, msg) <=> IsCurrent(msg.id))
      BY <1>1 DEF IsBlock, IsCurrent
  <2> QED BY <1>2, <2>1, <2>2 DEF After
<1>4. Shown(state, current, screen', toClient')
    BY <1>1, <1>3, TakeShown DEF ScreenInv, TypeOK
<1>5. Shown(state, current, screen, toClient)'
    BY <1>1, <1>4 DEF Shown, calcVars
<1>6. ScreenShowsCoordinates'
  <2>1. CASE screen' = screen
      BY <1>1, <2>1 DEF ScreenInv, ScreenShowsCoordinates
  <2>2. CASE screen' # screen
    <3>1. paints /\ IsBlock(current, msg)
        BY <1>3, <2>2 DEF After
    <3>2. msg.coords = current.coords /\ coordinates = current.coords
        BY <1>1, <3>1 DEF ScreenInv, Shown, ReportsOK
    <3>3. screen' = [screen EXCEPT ![msg.block] = IF msg.op = "BLOCK_STARTED" THEN Calculating
                                                  ELSE Calculated(msg.id, msg.coords)]
        BY <1>3, <3>1 DEF After
    <3>4. ScreenShowsCoordinates /\ screen \in [Blocks -> Pixels] /\ coordinates' = coordinates
        BY <1>1 DEF ScreenInv, TypeOK
    <3> HIDE DEF msg, paints
    <3> QED BY <3>2, <3>3, <3>4 DEF ScreenShowsCoordinates, Calculating, Calculated
  <2> QED BY <2>1, <2>2
<1> QED BY <1>1, <1>5, <1>6 DEF ScreenInv, RequestOK, calcVars

-----------------------------------------------------------------------------
(* The servers and the connections.                                        *)

\* Only one backend, its channels and its session change.
LEMMA BackendShown ==
    ASSUME ScreenInv, NEW b \in Backend, UNCHANGED clientVars, TypeOK,
           \A c \in Backend \ {b} : UNCHANGED <<toServer[c], toClient[c], server[c]>>,
           current # NoCalc /\ b = current.backend =>
               /\ ReportsOK(current, state, screen, server'[b], toClient'[b])
               /\ OrdersOK(current, toServer'[b], toClient'[b])
    PROVE  ScreenInv'
<1>1. UNCHANGED <<state, current, requested, screen, coordinates>>
    BY DEF clientVars, calcVars, viewVars
<1>2. current # NoCalc => current.backend \in Backend
    BY DEF TypeOK, Calculation
<1>3. current # NoCalc =>
          /\ ReportsOK(current, state, screen, server'[current.backend], toClient'[current.backend])
          /\ OrdersOK(current, toServer'[current.backend], toClient'[current.backend])
    BY <1>2 DEF ScreenInv, Shown
<1> QED BY <1>1, <1>3 DEF ScreenInv, Shown, RequestOK, ScreenShowsCoordinates

\* A server reads START or ABORT: it says nothing about blocks.
LEMMA ReadShown ==
    ASSUME ScreenInv, WatchInv, ControlInv, NEW b \in Backend, ServerStart(b) \/ ServerAbort(b)
    PROVE  ScreenInv'
<1>1. /\ TypeOK /\ server[b] \in Server /\ UNCHANGED clientVars
      /\ toClient[b] \in Seq(Msg) /\ toClient \in [Backend -> Seq(Msg)]
    BY DEF ControlInv, TypeOK, ServerStart, ServerAbort, ServerReads, Msg
<1>2. PICK op \in {"START", "ABORT"} : /\ ServerReads(b, op)
                                       /\ op = "START" => ServerStart(b)
                                       /\ op = "ABORT" => ServerAbort(b)
    BY DEF ServerStart, ServerAbort
<1>3. /\ 1 \in DOMAIN toServer[b] /\ Head(toServer[b]) = toServer[b][1]
      /\ toServer[b][1] \in StartMsg \cup AbortMsg /\ toServer[b][1].op = op
      /\ \A i \in DOMAIN toServer'[b] :
            i + 1 \in DOMAIN toServer[b] /\ toServer'[b][i] = toServer[b][i + 1]
      /\ \A c \in Backend \ {b} : toServer'[c] = toServer[c]
    BY <1>1, <1>2, ServerReadsAt
<1>4. CASE op = "START"
  <2>1. /\ server'[b].calc = toServer[b][1] /\ server'[b].waiting = Blocks
        /\ server'[b].running = {} /\ UNCHANGED toClient
        /\ \A c \in Backend \ {b} : server'[c] = server[c]
      BY <1>1, <1>2, <1>3, <1>4 DEF ServerStart, TypeOK
  <2>2. ASSUME current # NoCalc, b = current.backend
        PROVE  /\ ReportsOK(current, state, screen, server'[b], toClient[b])
               /\ OrdersOK(current, toServer'[b], toClient[b])
    <3>1. /\ ReportsOK(current, state, screen, server[b], toClient[b])
          /\ OrdersOK(current, toServer[b], toClient[b])
        BY <2>2 DEF ScreenInv, Shown
    <3>2. OrdersOK(current, toServer'[b], toClient[b])
        BY <1>3, <3>1 DEF OrdersOK
    <3>3. CASE toServer[b][1].id # current.id
      <4>1. ~Active(current, server'[b])
          BY <2>1, <3>3 DEF Active
      <4> QED BY <3>1, <3>2, <4>1 DEF ReportsOK, CompletionOK, DoneOK
    <3>4. CASE toServer[b][1].id = current.id
      <4>1. /\ toServer[b][1].coords = current.coords
            /\ \A n \in DOMAIN toClient[b] : ~IsBlock(current, toClient[b][n])
          BY <1>3, <1>4, <3>1, <3>4 DEF OrdersOK
      <4>2. state # "waiting-completed"
          BY <1>3, <1>4 DEF WatchInv, Watch, StartsOK, WatchedBy, Running
      <4>3. \A n \in DOMAIN toClient[b] :
                ~(toClient[b][n].op = "COMPLETED" /\ toClient[b][n].id = current.id)
          BY <1>3, <1>4, <3>4 DEF WatchInv, Watch, EndsOK
      <4>4. ProgressOK(current, screen, server'[b], toClient[b])
          BY <2>1, <4>1 DEF ProgressOK, IsBlock, Started, Finished
      <4> QED BY <3>2, <4>1, <4>2, <4>3, <4>4 DEF ReportsOK, CompletionOK, DoneOK
    <3> QED BY <3>3, <3>4
  <2> QED BY <1>1, <1>3, <2>1, <2>2, BackendShown
<1>5. CASE op = "ABORT"
  <2>1. PICK id : ServerSends(b, [op |-> "ABORTED", id |-> id])
                  /\ (id = toServer[b][1].id \/ id = 0
                      \/ (server[b].calc # NoCalc /\ id = server[b].calc.id))
      BY <1>2, <1>3, <1>5 DEF ServerAbort
  <2>2. id \in Nat
      BY <1>1, <1>3, <2>1 DEF Server, StartMsg, AbortMsg
  <2>3. PICK msg \in Msg : msg.op = "ABORTED" /\ ServerSends(b, msg)
    <3>1. [op |-> "ABORTED", id |-> id] \in Msg
        BY <2>2 DEF Msg, Answer, EndMsg
    <3> QED BY <2>1, <3>1
  <2>4. /\ toClient'[b] = Append(toClient[b], msg)
        /\ \A c \in Backend \ {b} : toClient'[c] = toClient[c]
      BY <1>1, <2>3 DEF ServerSends
  <2>6. /\ server'[b].calc = server[b].calc /\ server'[b].waiting = server[b].waiting
        /\ server'[b].running = server[b].running
        /\ server'[b].phase # "idle" => server[b].phase # "idle"
        /\ \A c \in Backend \ {b} : server'[c] = server[c]
      BY <1>1, <1>2, <1>5, AbortedSession
  <2>7. ASSUME current # NoCalc, b = current.backend
        PROVE  /\ ReportsOK(current, state, screen, server'[b], toClient'[b])
               /\ OrdersOK(current, toServer'[b], toClient'[b])
    <3>1. /\ ReportsOK(current, state, screen, server[b], toClient[b])
          /\ OrdersOK(current, toServer[b], toClient[b])
        BY <2>7 DEF ScreenInv, Shown
    <3>2. ~IsBlock(current, msg) /\ msg.op # "COMPLETED"
        BY <2>3 DEF IsBlock
    <3>3. Active(current, server'[b]) => Active(current, server[b])
        BY <2>6 DEF Active
    <3>4. ReportsOK(current, state, screen, server'[b], toClient'[b])
        BY <1>1, <2>4, <2>6, <3>1, <3>2, <3>3, ReportsAppend
    <3>5. \A n \in DOMAIN toClient'[b] :
              (n \in DOMAIN toClient[b] /\ toClient'[b][n] = toClient[b][n]) \/ toClient'[b][n] = msg
        BY <1>1, <2>4, AppendAt
    <3>6. OrdersOK(current, toServer'[b], toClient'[b])
        BY <1>3, <3>1, <3>2, <3>5 DEF OrdersOK
    <3> QED BY <3>4, <3>6
  <2> QED BY <1>1, <1>3, <2>4, <2>6, <2>7, BackendShown
<1> QED BY <1>4, <1>5

\* A server reports a block or the end of what it calculates.
LEMMA ReportShown ==
    ASSUME ScreenInv, WatchInv, ControlInv, NEW b \in Backend,
           NEW msg \in Msg, ServerSends(b, msg), UNCHANGED <<clientVars, toServer>>,
           server[b].phase # "idle", msg.id = server[b].calc.id,
           \A c \in Backend \ {b} : server'[c] = server[c],
           server'[b].calc = server[b].calc,
           \/ \E blk \in Blocks :
                 /\ msg.block = blk /\ msg.coords = server[b].calc.coords
                 /\ server'[b].phase = server[b].phase
                 /\ \/ /\ msg.op = "BLOCK_STARTED" /\ blk \in server[b].waiting
                       /\ server'[b].waiting = server[b].waiting \ {blk}
                       /\ server'[b].running = server[b].running \cup {blk}
                    \/ /\ msg.op = "BLOCK_COMPLETED" /\ blk \in server[b].running
                       /\ server'[b].waiting = server[b].waiting
                       /\ server'[b].running = server[b].running \ {blk}
           \/ /\ msg.op = "COMPLETED" /\ server'[b].phase = "idle"
              /\ server[b].waiting = {} /\ server[b].running = {}
    PROVE  ScreenInv'
<1>1. TypeOK /\ toClient[b] \in Seq(Msg) /\ toClient \in [Backend -> Seq(Msg)]
    BY DEF ControlInv, TypeOK, Msg
<1>2. /\ toClient'[b] = Append(toClient[b], msg)
      /\ \A c \in Backend \ {b} : toClient'[c] = toClient[c]
    BY <1>1 DEF ServerSends
<1>3. ASSUME current # NoCalc, b = current.backend
      PROVE  /\ ReportsOK(current, state, screen, server'[b], toClient'[b])
             /\ OrdersOK(current, toServer[b], toClient'[b])
  <2>1. /\ ReportsOK(current, state, screen, server[b], toClient[b])
        /\ OrdersOK(current, toServer[b], toClient[b])
      BY <1>3 DEF ScreenInv, Shown
  <2>2. OrdersOK(current, toServer[b], toClient'[b])
    <3> SUFFICES ASSUME NEW i \in DOMAIN toServer[b], toServer[b][i].op = "START",
                        toServer[b][i].id = current.id, NEW n \in DOMAIN toClient'[b]
                 PROVE  ~IsBlock(current, toClient'[b][n])
        BY <2>1 DEF OrdersOK
    <3>1. msg.id # current.id
        BY DEF WatchInv, Watch, StartsOK, ControlInv, SessionOK
    <3>2. (n \in DOMAIN toClient[b] /\ toClient'[b][n] = toClient[b][n]) \/ toClient'[b][n] = msg
        BY <1>1, <1>2, AppendAt
    <3> QED BY <2>1, <3>1, <3>2 DEF OrdersOK, IsBlock
  <2>3. CASE msg.id # current.id
    <3>1. /\ ~IsBlock(current, msg) /\ ~(msg.op = "COMPLETED" /\ msg.id = current.id)
          /\ ~Active(current, server'[b])
        BY <2>3 DEF IsBlock, Active
    <3> QED BY <1>1, <1>2, <2>1, <2>2, <3>1, ReportsAppend
  <2>4. CASE msg.id = current.id
    <3>1. Active(current, server[b])
        BY <2>4 DEF Active
    <3>2. CASE msg.op = "COMPLETED"
        BY <1>1, <1>2, <2>1, <2>2, <3>1, <3>2, ReportsEnd
    <3>3. CASE msg.op # "COMPLETED"
      <4>1. PICK blk \in Blocks :
                /\ msg.block = blk /\ msg.coords = server[b].calc.coords
                /\ server'[b].phase = server[b].phase
                /\ \/ /\ msg.op = "BLOCK_STARTED" /\ blk \in server[b].waiting
                      /\ server'[b].waiting = server[b].waiting \ {blk}
                      /\ server'[b].running = server[b].running \cup {blk}
                   \/ /\ msg.op = "BLOCK_COMPLETED" /\ blk \in server[b].running
                      /\ server'[b].waiting = server[b].waiting
                      /\ server'[b].running = server[b].running \ {blk}
          BY <3>3, Zenon
      <4>2. /\ msg.op = "BLOCK_STARTED" => Started(current, blk, msg)
            /\ msg.op = "BLOCK_COMPLETED" => Finished(current, blk, msg)
          BY <2>4, <4>1 DEF Started, Finished
      <4>3. CASE msg.op = "BLOCK_STARTED"
        <5>1. ReportsOK(current, state, screen, server'[b], Append(toClient[b], msg))
            BY <1>1, <2>1, <3>1, <4>1, <4>2, <4>3, ReportsBlock
        <5> QED BY <1>2, <2>2, <5>1
      <4>4. CASE msg.op = "BLOCK_COMPLETED"
        <5>1. ReportsOK(current, state, screen, server'[b], Append(toClient[b], msg))
            BY <1>1, <2>1, <3>1, <4>1, <4>2, <4>4, ReportsBlock
        <5> QED BY <1>2, <2>2, <5>1
      <4> QED BY <4>1, <4>3, <4>4
    <3> QED BY <3>2, <3>3
  <2> QED BY <2>3, <2>4
<1> QED BY <1>1, <1>2, <1>3, BackendShown

LEMMA ServerShown ==
    ASSUME ScreenInv, WatchInv, ControlInv, NEW b \in Backend, ServerStep(b)
    PROVE  ScreenInv'
<1>1. /\ server[b] \in Server /\ server \in [Backend -> Server]
      /\ server[b].phase # "idle" => server[b].calc \in StartMsg
    BY DEF ControlInv, TypeOK, SessionOK, Server
<1>2. ASSUME NEW blk \in Blocks, NEW op, server[b].phase # "idle",
             ServerSends(b, [op |-> op, id |-> server[b].calc.id,
                             coords |-> server[b].calc.coords, block |-> blk]),
             UNCHANGED <<clientVars, toServer>>,
             \/ /\ op = "BLOCK_STARTED" /\ blk \in server[b].waiting
                /\ server' = [server EXCEPT ![b].waiting = @ \ {blk}, ![b].running = @ \cup {blk}]
             \/ /\ op = "BLOCK_COMPLETED" /\ blk \in server[b].running
                /\ server' = [server EXCEPT ![b].running = @ \ {blk}]
      PROVE  ScreenInv'
  <2> DEFINE m == [op |-> op, id |-> server[b].calc.id,
                   coords |-> server[b].calc.coords, block |-> blk]
  <2>1. /\ m \in Msg /\ m.op = op /\ m.id = server[b].calc.id /\ m.block = blk
        /\ m.coords = server[b].calc.coords /\ ServerSends(b, m)
      BY <1>1, <1>2 DEF Msg, Answer, BlockMsg, StartMsg
  <2>2. /\ \A c \in Backend \ {b} : server'[c] = server[c]
        /\ server'[b].calc = server[b].calc /\ server'[b].phase = server[b].phase
      BY <1>1, <1>2 DEF Server
  <2>3. \/ /\ op = "BLOCK_STARTED" /\ blk \in server[b].waiting
           /\ server'[b].waiting = server[b].waiting \ {blk}
           /\ server'[b].running = server[b].running \cup {blk}
        \/ /\ op = "BLOCK_COMPLETED" /\ blk \in server[b].running
           /\ server'[b].waiting = server[b].waiting
           /\ server'[b].running = server[b].running \ {blk}
      BY <1>1, <1>2 DEF Server
  <2> HIDE DEF m
  <2> QED BY <1>2, <2>1, <2>2, <2>3, ReportShown
<1>3. ASSUME NEW blk \in Blocks, ServerBlockStarted(b, blk) PROVE ScreenInv'
    BY <1>2, <1>3 DEF ServerBlockStarted
<1>4. ASSUME NEW blk \in Blocks, ServerBlockCompleted(b, blk) PROVE ScreenInv'
    BY <1>2, <1>4 DEF ServerBlockCompleted
<1>5. ASSUME ServerCompleted(b) PROVE ScreenInv'
  <2>1. PICK msg \in Msg : ServerSends(b, msg) /\ msg.op = "COMPLETED"
                           /\ msg.id = server[b].calc.id
    <3>1. [op |-> "COMPLETED", id |-> server[b].calc.id] \in Msg
        BY <1>1, <1>5 DEF ServerCompleted, Msg, Answer, EndMsg, StartMsg
    <3> QED BY <1>5, <3>1 DEF ServerCompleted
  <2>2. /\ \A c \in Backend \ {b} : server'[c] = server[c]
        /\ server'[b].calc = server[b].calc /\ server'[b].phase = "idle"
        /\ server[b].waiting = {} /\ server[b].running = {} /\ server[b].phase # "idle"
        /\ UNCHANGED <<clientVars, toServer>>
      BY <1>1, <1>5 DEF ServerCompleted, Server
  <2> QED BY <2>1, <2>2, ReportShown
<1> QED BY <1>3, <1>4, <1>5, ReadShown DEF ServerStep

LEMMA ConnectionShown ==
    ASSUME ScreenInv, ControlInv, ControlInv', NEW b \in Backend, Accept(b) \/ Refuse(b) \/ Drop(b)
    PROVE  ScreenInv'
<1>1. /\ TypeOK /\ toClient[b] \in Seq(Msg) /\ toClient'[b] \in Seq(Msg)
      /\ toClient \in [Backend -> Seq(ControlMsg \cup Answer)]
    BY DEF ControlInv, TypeOK, Msg
<1>2. /\ UNCHANGED clientVars
      /\ \A c \in Backend \ {b} : UNCHANGED <<toServer[c], toClient[c], server[c]>>
      /\ \/ toServer'[b] = toServer[b] /\ server'[b] = server[b]
         \/ toServer'[b] = <<>> /\ Fresh(server'[b])
      /\ \A n \in DOMAIN toClient'[b] :
            \/ n \in DOMAIN toClient[b] /\ toClient'[b][n] = toClient[b][n]
            \/ /\ \A k \in DOMAIN toClient'[b] : k <= n
               /\ toClient'[b][n] \in ControlMsg
    BY <1>1, ConnectionAdds
<1>3. ASSUME current # NoCalc, b = current.backend
      PROVE  /\ ReportsOK(current, state, screen, server'[b], toClient'[b])
             /\ OrdersOK(current, toServer'[b], toClient'[b])
  <2>1. /\ ReportsOK(current, state, screen, server[b], toClient[b])
        /\ OrdersOK(current, toServer[b], toClient[b])
      BY <1>3 DEF ScreenInv, Shown
  <2>2. \A msg \in ControlMsg : ~IsBlock(current, msg) /\ msg.op # "COMPLETED"
      BY DEF ControlMsg, IsBlock
  <2>3. OrdersOK(current, toServer'[b], toClient'[b])
      BY <1>2, <2>1, <2>2 DEF OrdersOK
  <2>4. CASE Accept(b) \/ Refuse(b)
    <3>1. PICK msg \in ControlMsg : toClient'[b] = Append(toClient[b], msg)
      <4>1. CASE Accept(b)
        <5>1. [op |-> "CONFIG", max_workers |-> Workers[b]] \in ControlMsg
            BY BackendsAssumption DEF ControlMsg
        <5> QED BY <1>1, <4>1, <5>1 DEF Accept
      <4>2. CASE Refuse(b)
        <5>1. [op |-> "CLOSE"] \in ControlMsg
            BY DEF ControlMsg
        <5> QED BY <1>1, <4>2, <5>1 DEF Refuse
      <4> QED BY <2>4, <4>1, <4>2
    <3>2. server'[b] = server[b] /\ msg \in Msg
        BY <2>4 DEF Accept, Refuse, Msg
    <3> QED BY <1>1, <2>1, <2>2, <2>3, <3>1, <3>2, ReportsAppend
  <2>5. CASE Drop(b)
    <3>1. ~Active(current, server'[b])
        BY <1>1, <2>5, DropFresh DEF Fresh, Active
    <3> QED BY <1>1, <1>2, <2>1, <2>3, <3>1, ReportsLost
  <2> QED BY <2>4, <2>5
<1> QED BY <1>1, <1>2, <1>3, BackendShown

-----------------------------------------------------------------------------
(* Every step.                                                             *)

LEMMA ClientShown ==
    ASSUME ScreenInv, WatchInv, ControlInv, ControlInv', ClientStep, UNCHANGED repeats
    PROVE  ScreenInv'
<1>1. /\ TypeOK /\ CalcTypeOK /\ SessionOK /\ BackendsTypeOK' /\ Popped
      /\ toClient \in [Backend -> Seq(Msg)] /\ toClient' \in [Backend -> Seq(Msg)]
      /\ server \in [Backend -> Server]
    BY TypeParts DEF ControlInv, TypeOK, Msg, ClientStep
<1>2. /\ Shown(state, current, screen, toClient) /\ RequestOK(requested)
      /\ ScreenShowsCoordinates /\ current \in Calculation \cup {NoCalc}
    BY <1>1 DEF ScreenInv, TypeOK
<1>3. ASSUME \/ UNCHANGED toClient
             \/ \E b \in Backend, op \in {"CONFIG", "CLOSE", "COMPLETED", "ABORTED"} :
                    Receive(b, op)
      PROVE  Shown(state, current, screen, toClient')
  <2>1. CASE UNCHANGED toClient
      BY <1>2, <2>1
  <2>2. ASSUME NEW b \in Backend, NEW op \in {"CONFIG", "CLOSE", "COMPLETED", "ABORTED"},
               Receive(b, op)
        PROVE  Shown(state, current, screen, toClient')
      BY <1>1, <1>2, <2>2, QuietShown
  <2> QED BY <1>3, <2>1, <2>2
<1>4. ASSUME NEW b \in Backend, NEW op \in {"COMPLETED", "ABORTED"},
             NEW st \in {"waiting-completed", "waiting-aborted"}, NEW calc \in Calculation,
             Ending(b, op, st, calc)
      PROVE  ScreenInv'
  <2>1. Shown(st, calc, screen, toClient')
      BY <1>1, <1>2, <1>4, EndedShown DEF Ending
  <2>2. Watch(st, calc)
      BY <1>1, <1>4, EndedWatch DEF Ending, Running
  <2>3. Handed(st, calc, requested) /\ Handle(st, calc, requested) /\ UNCHANGED server
      BY <1>4 DEF Ending
  <2> QED BY <1>1, <1>2, <2>1, <2>2, <2>3, HandleShown
<1>5. ASSUME NEW req \in Request \cup {NoCalc}, Requesting(req) PROVE ScreenInv'
  <2>1. RequestOK(req)
      BY <1>2, <1>5 DEF Requesting, Asked, RequestOK
  <2>2. Shown(state, current, screen, toClient')
      BY <1>3, <1>5 DEF Requesting
  <2>3. Handed(state, current, req) /\ Handle(state, current, req) /\ UNCHANGED server
      BY <1>5 DEF Requesting
  <2> QED BY <1>1, <1>2, <2>1, <2>2, <2>3, HandleShown DEF WatchInv
<1>6. CASE Idling
  <2>1. CASE UNCHANGED screen /\ Shown(state, current, screen, toClient')
    <3>1. UNCHANGED <<state, requested, current, coordinates, toServer, server>>
        BY <1>6 DEF Idling, calcVars
    <3>2. Shown(state, current, screen, toClient)'
        BY <2>1, <3>1 DEF Shown
    <3> QED BY <1>2, <2>1, <3>1, <3>2 DEF ScreenInv, RequestOK, ScreenShowsCoordinates
  <2>2. ASSUME NEW b \in Backend, OnBlockStarted(b) \/ OnBlockCompleted(b) PROVE ScreenInv'
      BY <2>2, BlockShown
  <2> QED BY <1>3, <1>6, <2>1, <2>2 DEF Idling
<1> QED BY <1>4, <1>5, <1>6 DEF ClientStep

LEMMA ScreenStep ==
    ASSUME ScreenInv, WatchInv, ControlInv, ControlInv', [Next]_vars, UNCHANGED repeats
    PROVE  ScreenInv'
<1>1. ASSUME NEW b \in Backend, Accept(b) \/ Refuse(b) \/ Drop(b) PROVE ScreenInv'
    BY <1>1, ConnectionShown
<1>2. ASSUME NEW b \in Backend, ServerStep(b) PROVE ScreenInv'
    BY <1>2, ServerShown
<1>3. CASE UNCHANGED vars
  <2>1. UNCHANGED <<state, requested, current, coordinates, screen, toServer, toClient, server>>
      BY <1>3 DEF vars, calcVars, viewVars
  <2>2. Shown(state, current, screen, toClient)'
      BY <2>1 DEF ScreenInv, Shown
  <2> QED BY <2>1, <2>2 DEF ScreenInv, RequestOK, ScreenShowsCoordinates
<1> QED BY <1>1, <1>2, <1>3, ClientSteps, ClientShown DEF Next

LEMMA ScreenInit == Init => ScreenInv
<1> SUFFICES ASSUME Init PROVE ScreenInv
    OBVIOUS
<1>1. Shown(state, current, screen, toClient) /\ RequestOK(requested)
    BY DEF Init, Shown, RequestOK
<1>2. ScreenShowsCoordinates
    BY DEF Init, ScreenShowsCoordinates, NotCalculated
<1> QED BY <1>1, <1>2 DEF ScreenInv

\* What the user looks at: never a mixture of places, and no picture called
\* completed that is not, however late the blocks of aborted calculations come
\* and whatever connections are lost, while no id was given twice.
THEOREM ScreenTrue == Spec => []ScreenIsTrue
<1> DEFINE Inv == repeats = 0 => ScreenInv
<1>1. Init => Inv
    BY ScreenInit
<1>2. Inv => ScreenIsTrue
    BY DEF ScreenInv, Shown, ReportsOK, DoneOK, Painted, ScreenIsTrue, CompletedScreenIsFull
<1>3. Inv /\ UniqueInv /\ ControlInv /\ ControlInv' /\ [Next]_vars => Inv'
    BY RepeatsGrow, ScreenStep DEF UniqueInv
<1> QED BY <1>1, <1>2, <1>3, EndsInvariant, PTL DEF Spec
=============================================================================
