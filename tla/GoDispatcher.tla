---------------------------- MODULE GoDispatcher ----------------------------
(***************************************************************************)
(* One Dispatcher of the Go server (src/go-server/dispatcher.go, worker.go *)
(* and main.go): the goroutines that read and write the connection, the    *)
(* workers, one goroutine per calculation that waits for its end, and      *)
(* main, which closes the Dispatcher when another client connects.         *)
(*                                                                         *)
(* They share a channel of limited capacity, a WaitGroup and a flag.  A    *)
(* channel operation that would block is not enabled.  The client obeys    *)
(* the protocol of Backends and may leave at any time.                     *)
(***************************************************************************)
EXTENDS Naturals, Sequences

CONSTANTS
    NumBlocks,      \* NumBlocks[id]: blocks of calculation id
    WorkerCounts,   \* worker counts a START may ask for
    Capacity,       \* capacity of the outgoing channel
    MaxCalc         \* bound on the number of calculations

ASSUME GoDispatcherAssumption ==
    /\ NumBlocks \in [1..MaxCalc -> Nat \ {0}]
    /\ WorkerCounts \subseteq Nat \ {0}
    /\ Capacity \in Nat \ {0}
    /\ MaxCalc \in Nat

Ids == 1..MaxCalc
Blocks(id) == 1..NumBlocks[id]

\* The goroutines that call Abort, two of them only through Close.
Closer == {"reader", "writer", "main"}

VARIABLES
    client,         \* "waiting", "calculating", "aborting" or "gone"
    lastId,         \* id of the last calculation the client started
    toServer,       \* what the reader has not yet read
    toClient,       \* ends of calculations written and not yet delivered
    conn,           \* the connection: open, broken, or closed by the server
    outgoing,       \* d.outgoing
    posted,         \* history: the set of all that was ever put on it
    aborting,       \* d.aborting
    pc,             \* what each Closer does next
    abortId,        \* id of the ABORT the reader handles, 0 for Close
    workers,        \* workers[id]: the worker goroutines of calculation id
    blocks,         \* blocks[id]: its channel of blocks
    completed,      \* completed[id]: the counter of calculation id
    completion,     \* completion[id]: the goroutine that waits for its end
    panicked        \* has a goroutine panicked?

clientVars == <<client, lastId>>
channelVars == <<outgoing, posted>>
callVars == <<aborting, pc, abortId>>
workVars == <<workers, blocks, completed, completion>>
vars == <<clientVars, toServer, toClient, conn, channelVars, callVars, workVars, panicked>>

ClientMsg == [op : {"START"}, id : Ids, workers : WorkerCounts]
             \cup [op : {"ABORT"}, id : Ids]
BlockMsg(op, id, blk) == [op |-> op, id |-> id, block |-> blk]
EndMsg(op, id) == [op |-> op, id |-> id]

\* A worker is about to take a block, to report it as started, to calculate
\* it, to report it as completed, or has returned.
Taking == [at |-> "take"]
At(step, blk) == [at |-> step, block |-> blk]
Returned == [at |-> "returned"]

-----------------------------------------------------------------------------
(* d.outgoing and d.working.                                               *)

\* Mutant of Room: the channel is hardly buffered.
RoomForOne == outgoing = <<>>

Room == Len(outgoing) < Capacity

\* A send on the outgoing channel waits while it is full.
Post(msg) ==
    /\ Room
    /\ outgoing' = Append(outgoing, msg)
    /\ posted' = posted \cup {msg}

\* Is the counter of the WaitGroup zero?
AllReturned(ws) == \A id \in Ids : \A i \in DOMAIN ws[id] : ws[id][i] = Returned

\* Mutant of AfterWait: Abort does not wait.
NoWait == "go"

\* Wait() returns at once if the counter is zero.
AfterWait == IF AllReturned(workers) THEN "go" ELSE "wait"

\* Done(): the last one releases all that wait.
Release(waiting, last) ==
    [g \in DOMAIN waiting |-> IF last /\ waiting[g] = "wait" THEN "released"
                                                             ELSE waiting[g]]

Done(id, i) ==
    LET ws == [workers EXCEPT ![id][i] = Returned] IN
    /\ workers' = ws
    /\ pc' = Release(pc, AllReturned(ws))
    /\ completion' = Release(completion, AllReturned(ws))

-----------------------------------------------------------------------------
(* Abort and Close, which any Closer may be in at the same time.           *)

BeginAbort(g, id) ==
    /\ aborting' = TRUE
    /\ pc' = [pc EXCEPT ![g] = AfterWait]
    /\ abortId' = IF g = "reader" THEN id ELSE abortId

\* A released Wait() panics if the WaitGroup is in use again by then.
WakeAbort(g) ==
    /\ ~panicked /\ pc[g] = "released"
    /\ IF AllReturned(workers)
       THEN pc' = [pc EXCEPT ![g] = "go"] /\ UNCHANGED panicked
       ELSE panicked' = TRUE /\ UNCHANGED pc
    /\ UNCHANGED <<clientVars, toServer, toClient, conn, channelVars, aborting, abortId,
                   workVars>>

\* The reader answers an ABORT.
EndAbort ==
    /\ ~panicked /\ pc["reader"] = "go" /\ abortId # 0
    /\ Post(EndMsg("ABORTED", abortId))
    /\ aborting' = FALSE
    /\ pc' = [pc EXCEPT !["reader"] = "run"]
    /\ UNCHANGED <<clientVars, toServer, toClient, conn, abortId, workVars, panicked>>

\* Close, between its Abort and the closing of the connection, and after it.
EndCloseAbort(g) ==
    /\ ~panicked /\ pc[g] = "go"
    /\ g = "reader" => abortId = 0
    /\ aborting' = FALSE
    /\ pc' = [pc EXCEPT ![g] = "close"]
    /\ UNCHANGED <<clientVars, toServer, toClient, conn, channelVars, abortId, workVars, panicked>>

CloseConn(g) ==
    /\ ~panicked /\ pc[g] = "close"
    /\ conn' = "closed"
    /\ pc' = [pc EXCEPT ![g] = "exited"]
    /\ UNCHANGED <<clientVars, toServer, toClient, channelVars, aborting, abortId, workVars, panicked>>

Closing(g) == WakeAbort(g) \/ EndCloseAbort(g) \/ CloseConn(g)

-----------------------------------------------------------------------------
(* The reader, the writer and main.                                        *)

Reads(op) ==
    /\ ~panicked /\ pc["reader"] = "run"
    /\ conn # "closed"
    /\ toServer # <<>> /\ Head(toServer).op = op
    /\ toServer' = Tail(toServer)

OnAbort ==
    /\ Reads("ABORT")
    /\ BeginAbort("reader", Head(toServer).id)
    /\ UNCHANGED <<clientVars, toClient, conn, channelVars, workVars, panicked>>

\* Mutant of AllBlocks: the loops run once too often.
OneBlockMore(id) == [n \in 1..NumBlocks[id] + 1 |-> n]

AllBlocks(id) == [n \in Blocks(id) |-> n]

OnStart ==
    /\ Reads("START")
    /\ LET msg == Head(toServer) IN
       /\ blocks' = [blocks EXCEPT ![msg.id] = AllBlocks(msg.id)]
       /\ completed' = [completed EXCEPT ![msg.id] = 0]
       /\ workers' = [workers EXCEPT ![msg.id] = [i \in 1..msg.workers |-> Taking]]
       /\ completion' = [completion EXCEPT ![msg.id] = "new"]
    /\ UNCHANGED <<clientVars, toClient, conn, channelVars, callVars, panicked>>

ReadFails ==
    /\ ~panicked /\ pc["reader"] = "run"
    /\ conn # "open"
    /\ BeginAbort("reader", 0)
    /\ UNCHANGED <<clientVars, toServer, toClient, conn, channelVars, workVars, panicked>>

WriterTakes ==
    /\ ~panicked /\ pc["writer"] = "run"
    /\ outgoing # <<>>
    /\ outgoing' = Tail(outgoing)
    /\ UNCHANGED <<clientVars, toServer, conn, posted, workVars, panicked>>

IsEnd(msg) == msg.op \in {"COMPLETED", "ABORTED"}

\* What is written to a broken connection may still seem to succeed.
Writes ==
    /\ WriterTakes
    /\ conn # "closed"
    /\ toClient' = IF conn = "open" /\ IsEnd(Head(outgoing))
                   THEN Append(toClient, Head(outgoing)) ELSE toClient
    /\ UNCHANGED callVars

WriteFails ==
    /\ WriterTakes
    /\ conn # "open"
    /\ BeginAbort("writer", 0)
    /\ UNCHANGED toClient

\* Another client connects.
MainCloses ==
    /\ ~panicked /\ pc["main"] = "run"
    /\ BeginAbort("main", 0)
    /\ UNCHANGED <<clientVars, toServer, toClient, conn, channelVars, workVars, panicked>>

Reader == OnAbort \/ OnStart \/ ReadFails \/ EndAbort \/ Closing("reader")

Writer == Writes \/ WriteFails \/ Closing("writer")

-----------------------------------------------------------------------------
(* The workers.                                                            *)

WorkerAt(id, i, step) == ~panicked /\ workers[id][i].at = step

\* The loop over the closed channel of blocks ends when it is empty.
WorkerTakes(id, i) ==
    /\ WorkerAt(id, i, "take")
    /\ IF blocks[id] = <<>>
       THEN Done(id, i) /\ UNCHANGED blocks
       ELSE /\ workers' = [workers EXCEPT ![id][i] = At("started", Head(blocks[id]))]
            /\ blocks' = [blocks EXCEPT ![id] = Tail(@)]
            /\ UNCHANGED <<pc, completion>>
    /\ UNCHANGED <<clientVars, toServer, toClient, conn, channelVars, aborting, abortId,
                   completed, panicked>>

WorkerPostsStarted(id, i) ==
    /\ WorkerAt(id, i, "started")
    /\ Post(BlockMsg("BLOCK_STARTED", id, workers[id][i].block))
    /\ workers' = [workers EXCEPT ![id][i] = At("calculate", workers[id][i].block)]
    /\ UNCHANGED <<clientVars, toServer, toClient, conn, callVars, blocks, completed,
                   completion, panicked>>

WorkerAborts(id, i) ==
    /\ WorkerAt(id, i, "calculate")
    /\ aborting
    /\ Done(id, i)
    /\ UNCHANGED <<clientVars, toServer, toClient, conn, channelVars, aborting, abortId,
                   blocks, completed, panicked>>

\* The flag may be set after it was looked at for the last pixel.
WorkerCalculates(id, i) ==
    /\ WorkerAt(id, i, "calculate")
    /\ workers' = [workers EXCEPT ![id][i] = At("completed", workers[id][i].block)]
    /\ UNCHANGED <<clientVars, toServer, toClient, conn, channelVars, callVars, blocks,
                   completed, completion, panicked>>

WorkerPostsCompleted(id, i) ==
    /\ WorkerAt(id, i, "completed")
    /\ Post(BlockMsg("BLOCK_COMPLETED", id, workers[id][i].block))
    /\ completed' = [completed EXCEPT ![id] = @ + 1]
    /\ workers' = [workers EXCEPT ![id][i] = Taking]
    /\ UNCHANGED <<clientVars, toServer, toClient, conn, callVars, blocks, completion, panicked>>

Worker(id, i) ==
    \/ WorkerTakes(id, i)
    \/ WorkerPostsStarted(id, i)
    \/ WorkerAborts(id, i)
    \/ WorkerCalculates(id, i)
    \/ WorkerPostsCompleted(id, i)

-----------------------------------------------------------------------------
(* The goroutine that waits for the end of calculation id.                 *)

CompletionAt(id, step) == ~panicked /\ completion[id] = step

CompletionWaits(id) ==
    /\ CompletionAt(id, "new")
    /\ completion' = [completion EXCEPT ![id] = AfterWait]
    /\ UNCHANGED <<clientVars, toServer, toClient, conn, channelVars, callVars, workers,
                   blocks, completed, panicked>>

CompletionWakes(id) ==
    /\ CompletionAt(id, "released")
    /\ IF AllReturned(workers)
       THEN completion' = [completion EXCEPT ![id] = "go"] /\ UNCHANGED panicked
       ELSE panicked' = TRUE /\ UNCHANGED completion
    /\ UNCHANGED <<clientVars, toServer, toClient, conn, channelVars, callVars, workers,
                   blocks, completed>>

\* Mutants of AllCompleted: no look at the counter, and a wrong one.
AlwaysCompleted(id) == TRUE

OneMissing(id) == completed[id] + 1 = NumBlocks[id]

AllCompleted(id) == completed[id] = NumBlocks[id]

CompletionEnds(id) ==
    /\ CompletionAt(id, "go")
    /\ completion' = [completion EXCEPT ![id] = "done"]
    /\ IF AllCompleted(id)
       THEN Post(EndMsg("COMPLETED", id))
       ELSE UNCHANGED channelVars
    /\ UNCHANGED <<clientVars, toServer, toClient, conn, callVars, workers, blocks,
                   completed, panicked>>

Completion(id) == CompletionWaits(id) \/ CompletionWakes(id) \/ CompletionEnds(id)

-----------------------------------------------------------------------------
(* The client, as far as the protocol goes.                                *)

serverVars == <<toClient, conn, channelVars, callVars, workVars, panicked>>

ClientStart(count) ==
    /\ client = "waiting" /\ lastId < MaxCalc
    /\ client' = "calculating"
    /\ lastId' = lastId + 1
    /\ toServer' = Append(toServer, [op |-> "START", id |-> lastId', workers |-> count])
    /\ UNCHANGED serverVars

ClientAbort ==
    /\ client = "calculating"
    /\ client' = "aborting"
    /\ toServer' = Append(toServer, [op |-> "ABORT", id |-> lastId])
    /\ UNCHANGED <<lastId, serverVars>>

\* The next end of a calculation is delivered; the blocks before it do not
\* change what the client does next.
ClientReceive ==
    /\ client # "gone" /\ toClient # <<>>
    /\ toClient' = Tail(toClient)
    /\ client' = IF Head(toClient).id = lastId THEN "waiting" ELSE client
    /\ UNCHANGED <<lastId, toServer, conn, channelVars, callVars, workVars, panicked>>

\* The client leaves or is lost; main may have closed the connection before.
ClientLeaves ==
    /\ client # "gone"
    /\ client' = "gone"
    /\ conn' = IF conn = "open" THEN "broken" ELSE conn
    /\ UNCHANGED <<lastId, toServer, toClient, channelVars, callVars, workVars, panicked>>

-----------------------------------------------------------------------------
Init ==
    /\ client = "waiting" /\ lastId = 0
    /\ toServer = <<>> /\ toClient = <<>> /\ conn = "open"
    /\ outgoing = <<>> /\ posted = {}
    /\ aborting = FALSE /\ pc = [g \in Closer |-> "run"] /\ abortId = 0
    /\ workers = [id \in Ids |-> <<>>] /\ blocks = [id \in Ids |-> <<>>]
    /\ completed = [id \in Ids |-> 0]
    /\ completion = [id \in Ids |-> "none"]
    /\ panicked = FALSE

Client ==
    \/ \E count \in WorkerCounts : ClientStart(count)
    \/ ClientAbort
    \/ ClientReceive
    \/ ClientLeaves

Next ==
    \/ Client
    \/ Reader
    \/ Writer
    \/ MainCloses
    \/ Closing("main")
    \/ \E id \in Ids : (\E i \in DOMAIN workers[id] : Worker(id, i)) \/ Completion(id)

Spec == Init /\ [][Next]_vars

\* The scheduler runs every goroutine that can run, and the connection
\* delivers what is written to it.
Fairness ==
    /\ WF_vars(Reader)
    /\ WF_vars(Writer)
    /\ WF_vars(Closing("main"))
    /\ \A id \in Ids :
          /\ \A i \in UNION {1..count : count \in WorkerCounts} :
                WF_vars(i \in DOMAIN workers[id] /\ Worker(id, i))
          /\ WF_vars(Completion(id))
    /\ WF_vars(ClientReceive)

FairSpec == Spec /\ Fairness

-----------------------------------------------------------------------------
(* Properties.                                                             *)

Msg == (UNION {[op : {"BLOCK_STARTED", "BLOCK_COMPLETED"}, id : {id}, block : Blocks(id)] : id \in Ids})
       \cup [op : {"COMPLETED", "ABORTED"}, id : Ids]

WaitStep == {"wait", "released", "go"}

WorkerState(id) ==
    {Taking, Returned}
    \cup {At(step, blk) : step \in {"started", "calculate", "completed"}, blk \in Blocks(id)}

TypeOK ==
    /\ client \in {"waiting", "calculating", "aborting", "gone"}
    /\ lastId \in 0..MaxCalc
    /\ toServer \in Seq(ClientMsg)
    /\ toClient \in Seq(Msg)
    /\ conn \in {"open", "broken", "closed"}
    /\ outgoing \in Seq(Msg) /\ Len(outgoing) <= Capacity
    /\ posted \subseteq Msg
    /\ aborting \in BOOLEAN
    /\ pc \in [Closer -> {"run", "close", "exited"} \cup WaitStep]
    /\ abortId \in {0} \cup Ids
    /\ DOMAIN workers = Ids /\ DOMAIN blocks = Ids
    /\ \A id \in Ids : workers[id] \in Seq(WorkerState(id)) /\ blocks[id] \in Seq(Blocks(id))
    /\ completed \in [Ids -> Nat]
    /\ \A id \in Ids : completed[id] <= NumBlocks[id]
    /\ completion \in [Ids -> {"none", "new", "done"} \cup WaitStep]
    /\ panicked \in BOOLEAN

\* When COMPLETED is posted every block was posted as started and as
\* completed, although the goroutine that posts it may wake up late, when the
\* workers of the next calculation are running.
CompletedIsComplete ==
    \A id \in Ids : EndMsg("COMPLETED", id) \in posted =>
        \A blk \in Blocks(id), op \in {"BLOCK_STARTED", "BLOCK_COMPLETED"} :
            BlockMsg(op, id, blk) \in posted

\* Nothing is posted twice, and after ABORTED no block of the calculation is,
\* however many workers were waiting for room in the channel.  (COMPLETED may
\* still be posted after ABORTED.)
PostedInOrder ==
    [][\A msg \in Msg :
          outgoing' = Append(outgoing, msg) =>
              /\ msg \notin posted
              /\ EndMsg("ABORTED", msg.id) \in posted => IsEnd(msg)]_vars

\* When the reader is about to handle a START no worker of an earlier
\* calculation is left: Start relies on it, it does not abort.
StartFindsNoWorkers ==
    pc["reader"] = "run" /\ toServer # <<>> /\ Head(toServer).op = "START"
        => AllReturned(workers)

\* The goroutine that posts COMPLETED, the workers and the reader agree on which
\* calculation is which without ever looking at an id.
AnswersAreSound == CompletedIsComplete /\ StartFindsNoWorkers

\* Every calculation ends, aborted or not, while the connection lasts, unless a
\* goroutine panics: Wait does when the WaitGroup is used again before all that
\* waited for it have woken up (WakeAbort, CompletionWakes), and the process
\* ends with it.
CalculationsEnd ==
    (client \in {"calculating", "aborting"})
        ~> (client \in {"waiting", "gone"} \/ conn # "open" \/ panicked)

\* "Make sure connection gets closed and all workers aborted."
\* (dispatcher.go:70): main gets the old session closed and can serve the
\* next client.
CloseReturns == (pc["main"] # "run") ~> (pc["main"] = "exited" \/ panicked)
=============================================================================
