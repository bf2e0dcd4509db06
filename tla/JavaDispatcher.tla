--------------------------- MODULE JavaDispatcher ---------------------------
(***************************************************************************)
(* The Java server (src/java-server/src/main/java/se/ygram/frak:           *)
(* Dispatcher.java, WorkerExecutorService.java and Worker.java).           *)
(*                                                                         *)
(* Every session has its own Dispatcher, and the container calls its       *)
(* handlers one at a time; handlers of different sessions, and the threads *)
(* of the executors, run concurrently.  The sessions share two static      *)
(* fields: the current session and the executor started last.  Not all     *)
(* uses of the second are under the lock, so a handler is cut where it     *)
(* reads it again.                                                         *)
(***************************************************************************)
EXTENDS Integers, Sequences, FiniteSets

CONSTANTS
    NumBlocks,      \* blocks of a calculation
    WorkerCounts,   \* worker counts a START may ask for
    MaxCalc,        \* bound on the number of calculations
    MaxSessions     \* bound on the number of sessions

ASSUME JavaDispatcherAssumption ==
    /\ NumBlocks \in Nat \ {0}
    /\ WorkerCounts \subseteq Nat \ {0}
    /\ MaxCalc \in Nat
    /\ MaxSessions \in Nat

Blocks == 1..NumBlocks
Ids == 1..MaxCalc
Sessions == 1..MaxSessions

\* null, of both static fields.
Null == 0

VARIABLES
    client,         \* client[s]: "waiting", "calculating", "aborting", "gone"
    calc,           \* calc[s]: the calculation the client of s last asked for
    lastId,         \* id of the last calculation of any client
    toServer,       \* toServer[s]: messages not yet handled
    toClient,       \* toClient[s]: ends of calculations not yet delivered
    session,        \* session[s]: "new", "open", "closing" or "closed"
    currentSession, \* Dispatcher.currentSession
    threads,        \* currentSessionThreads: the id it was started for
    handler,        \* handler[s]: what the handler of session s does next
    executors,      \* executors[id]: the executor started for calculation id
    posted          \* history: all that was sent to any client

clientVars == <<client, calc, lastId>>
statics == <<currentSession, threads>>
vars == <<clientVars, toServer, toClient, session, statics, handler, executors, posted>>

Task == [id : Ids, block : Blocks]
ClientMsg == [op : {"START"}, id : Ids, workers : WorkerCounts]
             \cup [op : {"ABORT"}, id : Ids]
BlockMsg(op, task) == [op |-> op, id |-> task.id, block |-> task.block]
EndMsg(op, id) == [op |-> op, id |-> id]

Idle == [at |-> "idle"]

\* counting: the threads that sent a block and have not counted it yet.
NoExecutor == [state |-> "none"]
\* Mutant of NewExecutor: one block too many is counted.
NewExecutorOneMore(s, count) ==
    [state |-> "running", session |-> s, workers |-> count, left |-> NumBlocks + 1,
     queue |-> <<>>, tasks |-> {}, counting |-> 0]

NewExecutor(s, count) ==
    [state |-> "running", session |-> s, workers |-> count, left |-> NumBlocks,
     queue |-> <<>>, tasks |-> {}, counting |-> 0]

\* isTerminated()
Terminated(id) ==
    /\ executors[id].state \in {"shutdown", "stop"}
    /\ executors[id].queue = <<>> /\ executors[id].tasks = {} /\ executors[id].counting = 0

-----------------------------------------------------------------------------
(* Sessions.                                                               *)

\* onOpen, after which the session has its CONFIG.  A client that lost an
\* earlier session may still believe in the calculation it asked for there.
OnOpen(s) ==
    /\ session[s] = "new"
    /\ \A earlier \in 1..s - 1 : session[earlier] # "new"
    /\ session' = [t \in Sessions |->
                      IF t = s THEN "open"
                      ELSE IF t = currentSession /\ session[t] = "open" THEN "closing"
                      ELSE session[t]]
    /\ currentSession' = s
    /\ \E st \in IF lastId = 0 THEN {"waiting"} ELSE {"waiting", "calculating"} :
          client' = [client EXCEPT ![s] = st]
    /\ calc' = [calc EXCEPT ![s] = lastId]
    /\ UNCHANGED <<lastId, toServer, toClient, threads, handler, executors, posted>>

\* onClose, once the handler that runs has returned.  It drops the executor
\* if it is terminated; one that is not goes on.
OnClose(s) ==
    /\ session[s] = "closing" /\ handler[s] = Idle
    /\ session' = [session EXCEPT ![s] = "closed"]
    /\ currentSession' = IF s = currentSession THEN Null ELSE currentSession
    /\ threads' = IF threads # Null /\ Terminated(threads) THEN Null ELSE threads
    /\ UNCHANGED <<clientVars, toServer, toClient, handler, executors, posted>>

-----------------------------------------------------------------------------
(* onMessage.  An exception ends the handler, and nothing is answered.     *)

Handles(s, op) ==
    /\ session[s] = "open" /\ handler[s] = Idle
    /\ toServer[s] # <<>> /\ Head(toServer[s]).op = op
    /\ toServer' = [toServer EXCEPT ![s] = Tail(@)]

OnStart(s) ==
    /\ Handles(s, "START")
    /\ LET msg == Head(toServer[s]) IN
       /\ executors' = [executors EXCEPT ![msg.id] = NewExecutor(s, msg.workers)]
       /\ threads' = msg.id
       /\ handler' = [handler EXCEPT ![s] = [at |-> "start", id |-> msg.id, block |-> 1]]
    /\ UNCHANGED <<clientVars, toClient, session, currentSession, posted>>

\* calculateBlock, on the executor that is current by then: there may be
\* none, or one that accepts no tasks.
CalculateBlock(s) ==
    LET task == [id |-> handler[s].id, block |-> handler[s].block] IN
    /\ handler[s].at = "start"
    /\ IF threads # Null /\ executors[threads].state = "running"
       THEN /\ executors' = [executors EXCEPT ![threads].queue = Append(@, task)]
            /\ handler' = [handler EXCEPT ![s] = IF task.block = NumBlocks THEN Idle
                                                 ELSE [handler[s] EXCEPT !.block = task.block + 1]]
       ELSE /\ handler' = [handler EXCEPT ![s] = Idle]
            /\ UNCHANGED executors
    /\ UNCHANGED <<clientVars, toServer, toClient, session, statics, posted>>

\* shutdownNow()
OnAbort(s) ==
    /\ Handles(s, "ABORT")
    /\ IF threads = Null
       THEN UNCHANGED <<executors, handler>>
       ELSE /\ executors' = [executors EXCEPT ![threads].state = "stop",
                                              ![threads].queue = <<>>]
            /\ handler' = [handler EXCEPT ![s] = [at |-> "stopped",
                                                  id |-> Head(toServer[s]).id]]
    /\ UNCHANGED <<clientVars, toClient, session, statics, posted>>

\* awaitTermination is called on the executor that is current by then.
AwaitTermination(s) ==
    /\ handler[s].at = "stopped"
    /\ handler' = [handler EXCEPT ![s] =
                      IF threads = Null THEN Idle
                      ELSE [at |-> "await", id |-> @.id, executor |-> threads]]
    /\ UNCHANGED <<clientVars, toServer, toClient, session, statics, executors, posted>>

\* Mutant of Awaited: the answer does not wait.
NotAwaited(id) == TRUE

Awaited(id) == Terminated(id)

\* The two minutes awaitTermination waits at most are taken to be enough.
Aborted(s) ==
    /\ handler[s].at = "await" /\ Awaited(handler[s].executor)
    /\ handler' = [handler EXCEPT ![s] = Idle]
    /\ LET msg == EndMsg("ABORTED", handler[s].id) IN
       IF session[s] = "open"
       THEN /\ posted' = posted \cup {msg}
            /\ toClient' = [toClient EXCEPT ![s] = Append(@, msg)]
       ELSE UNCHANGED <<posted, toClient>>
    /\ UNCHANGED <<clientVars, toServer, session, statics, executors>>

Handler(s) ==
    \/ OnClose(s)
    \/ OnStart(s)
    \/ CalculateBlock(s)
    \/ OnAbort(s)
    \/ AwaitTermination(s)
    \/ Aborted(s)

-----------------------------------------------------------------------------
(* The threads of the executor started for calculation id.                 *)

Sends(executor) == session[executor.session] = "open"

\* A thread takes the next task, if it is not shut down by shutdownNow, and
\* sends block-started to the executor's session.  This throws if the session
\* is not open.
TaskBegins(id) ==
    LET executor == executors[id]
        task == Head(executor.queue) IN
    /\ executor.state \in {"running", "shutdown"}
    /\ executor.queue # <<>>
    /\ Cardinality(executor.tasks) + executor.counting < executor.workers
    /\ IF Sends(executor)
       THEN /\ executors' = [executors EXCEPT ![id].queue = Tail(@),
                                              ![id].tasks = @ \cup {task}]
            /\ posted' = posted \cup {BlockMsg("BLOCK_STARTED", task)}
       ELSE /\ executors' = [executors EXCEPT ![id].queue = Tail(@)]
            /\ UNCHANGED posted
    /\ UNCHANGED <<clientVars, toServer, toClient, session, statics, handler>>

\* The thread was interrupted, or sending the block throws.
TaskFails(id, task) ==
    /\ task \in executors[id].tasks
    /\ executors[id].state = "stop" \/ ~Sends(executors[id])
    /\ executors' = [executors EXCEPT ![id].tasks = @ \ {task}]
    /\ UNCHANGED <<clientVars, toServer, toClient, session, statics, handler, posted>>

\* The block is sent.  (The thread may have been interrupted after it looked
\* for the last time.)
TaskCompletes(id, task) ==
    /\ task \in executors[id].tasks
    /\ Sends(executors[id])
    /\ executors' = [executors EXCEPT ![id].tasks = @ \ {task}, ![id].counting = @ + 1]
    /\ posted' = posted \cup {BlockMsg("BLOCK_COMPLETED", task)}
    /\ UNCHANGED <<clientVars, toServer, toClient, session, statics, handler>>

\* Mutants of IsLast: off by one to either side.
IsLastButOne(left) == left = 1

IsBeyondLast(left) == left > NumBlocks

\* blocks.addAndGet(-1) == 0
IsLast(left) == left = 0

\* afterExecute.  After the last block COMPLETED is sent and the executor is
\* shut down, unless sending throws.
AfterExecute(id) ==
    LET executor == executors[id]
        completes == IsLast(executor.left - 1) /\ Sends(executor)
        msg == EndMsg("COMPLETED", id) IN
    /\ executor.counting > 0
    /\ executors' = [executors EXCEPT
                        ![id].counting = @ - 1,
                        ![id].left = @ - 1,
                        ![id].state = IF completes /\ @ = "running" THEN "shutdown" ELSE @]
    /\ IF completes
       THEN /\ posted' = posted \cup {msg}
            /\ toClient' = [toClient EXCEPT ![executor.session] = Append(@, msg)]
       ELSE UNCHANGED <<posted, toClient>>
    /\ UNCHANGED <<clientVars, toServer, session, statics, handler>>

Executor(id) ==
    /\ executors[id] # NoExecutor
    /\ \/ TaskBegins(id)
       \/ \E task \in Task : TaskFails(id, task) \/ TaskCompletes(id, task)
       \/ AfterExecute(id)

-----------------------------------------------------------------------------
(* The clients, as far as the protocol goes.                               *)

serverVars == <<statics, handler, executors, posted>>

ClientStart(s, count) ==
    /\ session[s] = "open"
    /\ client[s] = "waiting" /\ lastId < MaxCalc
    /\ client' = [client EXCEPT ![s] = "calculating"]
    /\ lastId' = lastId + 1
    /\ calc' = [calc EXCEPT ![s] = lastId']
    /\ toServer' = [toServer EXCEPT
                       ![s] = Append(@, [op |-> "START", id |-> lastId', workers |-> count])]
    /\ UNCHANGED <<toClient, session, serverVars>>

ClientAbort(s) ==
    /\ session[s] = "open"
    /\ client[s] = "calculating"
    /\ client' = [client EXCEPT ![s] = "aborting"]
    /\ toServer' = [toServer EXCEPT ![s] = Append(@, [op |-> "ABORT", id |-> calc[s]])]
    /\ UNCHANGED <<calc, lastId, toClient, session, serverVars>>

ClientReceive(s) ==
    /\ client[s] # "gone" /\ toClient[s] # <<>>
    /\ toClient' = [toClient EXCEPT ![s] = Tail(@)]
    /\ client' = [client EXCEPT ![s] = IF Head(toClient[s]).id = calc[s] THEN "waiting"
                                                                         ELSE @]
    /\ UNCHANGED <<calc, lastId, toServer, session, serverVars>>

ClientLeaves(s) ==
    /\ session[s] = "open"
    /\ session' = [session EXCEPT ![s] = "closing"]
    /\ client' = [client EXCEPT ![s] = "gone"]
    /\ UNCHANGED <<calc, lastId, toServer, toClient, serverVars>>

Client(s) ==
    \/ \E count \in WorkerCounts : ClientStart(s, count)
    \/ ClientAbort(s)
    \/ ClientReceive(s)
    \/ ClientLeaves(s)

-----------------------------------------------------------------------------
Init ==
    /\ client = [s \in Sessions |-> "waiting"]
    /\ calc = [s \in Sessions |-> 0]
    /\ lastId = 0
    /\ toServer = [s \in Sessions |-> <<>>]
    /\ toClient = [s \in Sessions |-> <<>>]
    /\ session = [s \in Sessions |-> "new"]
    /\ currentSession = Null /\ threads = Null
    /\ handler = [s \in Sessions |-> Idle]
    /\ executors = [id \in Ids |-> NoExecutor]
    /\ posted = {}

Next ==
    \/ \E s \in Sessions : OnOpen(s) \/ Handler(s) \/ Client(s)
    \/ \E id \in Ids : Executor(id)

Spec == Init /\ [][Next]_vars

\* The container calls the handlers, every thread runs and what was sent is
\* delivered.
Fairness ==
    /\ \A s \in Sessions : WF_vars(Handler(s)) /\ WF_vars(ClientReceive(s))
    /\ \A id \in Ids : WF_vars(Executor(id))

FairSpec == Spec /\ Fairness

-----------------------------------------------------------------------------
(* Properties.                                                             *)

Answer == [op : {"BLOCK_STARTED", "BLOCK_COMPLETED"}, id : Ids, block : Blocks]
          \cup [op : {"COMPLETED", "ABORTED"}, id : Ids]

HandlerState ==
    {Idle} \cup [at : {"start"}, id : Ids, block : Blocks]
           \cup [at : {"stopped"}, id : Ids]
           \cup [at : {"await"}, id : Ids, executor : Ids]

ExecutorState ==
    [state : {"running", "shutdown", "stop"}, session : Sessions, workers : WorkerCounts,
     left : Int, queue : Seq(Task), tasks : SUBSET Task, counting : Nat]

\* No more blocks are counted than there are, and no more threads run than the
\* executor has.
WithinBounds(executor) ==
    /\ executor.left <= NumBlocks
    /\ Cardinality(executor.tasks) + executor.counting <= executor.workers

TypeOK ==
    /\ client \in [Sessions -> {"waiting", "calculating", "aborting", "gone"}]
    /\ calc \in [Sessions -> 0..MaxCalc]
    /\ lastId \in 0..MaxCalc
    /\ toServer \in [Sessions -> Seq(ClientMsg)]
    /\ toClient \in [Sessions -> Seq(Answer)]
    /\ session \in [Sessions -> {"new", "open", "closing", "closed"}]
    /\ currentSession \in {Null} \cup Sessions
    /\ threads \in {Null} \cup Ids
    /\ handler \in [Sessions -> HandlerState]
    /\ executors \in [Ids -> {NoExecutor} \cup ExecutorState]
    /\ \A id \in Ids : executors[id] # NoExecutor => WithinBounds(executors[id])
    /\ posted \subseteq Answer

\* Only one session so far: nobody else uses the static fields.
OneSession == Cardinality({s \in Sessions : session[s] # "new"}) <= 1

\* When COMPLETED is sent every block was sent as started and as completed,
\* whichever thread counts the last.  (It does not hold of two sessions: a handler
\* of the first that is still adding blocks adds them to the executor of the
\* second, where they are counted.)
CompletedIsComplete ==
    OneSession => \A id \in Ids : EndMsg("COMPLETED", id) \in posted =>
        \A blk \in Blocks, op \in {"BLOCK_STARTED", "BLOCK_COMPLETED"} :
            BlockMsg(op, [id |-> id, block |-> blk]) \in posted

\* In one session, after ABORTED nothing of the calculation is sent, not even COMPLETED.
NothingAfterAborted ==
    [][OneSession => \A id \in Ids : EndMsg("ABORTED", id) \in posted =>
          \A msg \in posted' \ posted : msg.id # id]_vars

\* When a START is about to be handled, no executor has a task left: start()
\* replaces the executor without shutting it down.  (It does not hold of two
\* sessions either: what the handler of the first added is left when the count
\* of the second is zero.)
StartFindsNoTasks ==
    OneSession => \A s \in Sessions :
        session[s] = "open" /\ handler[s] = Idle /\ toServer[s] # <<>> =>
            (Head(toServer[s]).op = "START" =>
                \A id \in Ids : executors[id] # NoExecutor =>
                    executors[id].queue = <<>> /\ executors[id].tasks = {}
                    /\ executors[id].counting = 0)

\* An executor is replaced when its work is done, and COMPLETED is sent when it
\* is, whichever of the threads is the last.
AnswersAreSound == CompletedIsComplete /\ StartFindsNoTasks

\* Every calculation of the only session ends, aborted or not, for a client
\* that stays.
CalculationsEnd ==
    \A s \in Sessions :
        client[s] \in {"calculating", "aborting"}
            ~> client[s] \in {"waiting", "gone"} \/ session[s] # "open" \/ ~OneSession
=============================================================================
