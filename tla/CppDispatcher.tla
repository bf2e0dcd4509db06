---------------------------- MODULE CppDispatcher ----------------------------
(***************************************************************************)
(* The threads of the C++ server (src/cpp-server/src/dispatcher.hpp,       *)
(* worker.hpp, main.cpp and the queues between them).                      *)
(*                                                                         *)
(* The main thread serves one session at a time: it puts what the client   *)
(* sends on the message queue and, when the session ends, destroys the     *)
(* Dispatcher.  The dispatcher thread handles the message queue; it starts *)
(* and joins the workers, which put what they have done on the same queue. *)
(* A step reads or writes shared state once, up to steps that commute.     *)
(*                                                                         *)
(* The client obeys the protocol of Backends; it may close the connection, *)
(* vanish or lose it at any time.  WebSocketSession models what is between. *)
(***************************************************************************)
EXTENDS Naturals, Sequences, FiniteSets

CONSTANTS
    NumBlocks,      \* NumBlocks[id]: blocks of calculation id
    WorkerCounts,   \* worker counts a START may ask for
    CountWidth,     \* bits of _block_count (uint32_t)
    MaxCalc,        \* bound on the number of calculations
    MaxSessions     \* bound on the number of sessions

ASSUME CppDispatcherAssumption ==
    /\ NumBlocks \in [1..MaxCalc -> Nat \ {0}]
    /\ WorkerCounts \subseteq Nat \ {0}
    /\ CountWidth \in Nat
    /\ \A i \in 1..MaxCalc : NumBlocks[i] < 2^CountWidth
    /\ MaxCalc \in Nat
    /\ MaxSessions \in Nat

Ids == 1..MaxCalc
Blocks(i) == 1..NumBlocks[i]

VARIABLES
    client,         \* "waiting", "calculating" or "aborting"; "gone" with a
                    \* CLOSE or an error, "vanished" without either
    lastId,         \* id of the last calculation a client started
    known,          \* was it started in this session?
    received,       \* how many of the answers the client has handled
    toServer,       \* what receive() has not yet returned
    kept,           \* how much of it recv has returned (_incoming_data)
    answers,        \* all that was sent to the client of this session
    sessions,       \* number of sessions so far
    main,           \* what the main thread does next
    socket,         \* WebSocketSession._socket: open, closed, or none (-1)
    thread,         \* what _dispatcher_thread does next
    handling,       \* the message it is handling
    queue,          \* _message_queue
    id,             \* _id, 0 if empty
    blockCount,     \* _block_count
    abort,          \* _abort
    destroy,        \* _destroy
    blocks,         \* _block_queue
    workers,        \* _worker_threads
    crashed         \* why the process has terminated, if it has

clientVars == <<client, lastId, known, received, sessions>>
wireVars == <<toServer, kept>>
sessionVars == <<wireVars, answers, socket>>
threadVars == <<thread, handling>>
dispatcherVars == <<id, blockCount, abort, destroy, blocks, workers>>
vars == <<clientVars, sessionVars, main, threadVars, queue, dispatcherVars, crashed>>

Block == UNION {[id : {i}, block : Blocks(i)] : i \in Ids}
ClientMsg == [op : {"START"}, id : Ids, workers : WorkerCounts]
             \cup [op : {"ABORT"}, id : Ids]
BlockMsg(op, blk) == [op |-> op, id |-> blk.id, block |-> blk.block]
EndMsg(op, i) == [op |-> op, id |-> i]

\* The empty message ~Dispatcher puts to wake the dispatcher thread up.
NoMessage == [op |-> "NONE"]

\* A worker has taken a block, or is about to take one, or has returned.
NewWorker == [at |-> "pop"]
Calculating(blk) == [at |-> "calculating", block |-> blk]
Returned == [at |-> "returned"]

-----------------------------------------------------------------------------
(* WebSocketSession.send, as the dispatcher thread sees it.                *)

\* The connection is lost, or the client has ended it, and main does not know.
Broken == \E n \in DOMAIN toServer : toServer[n].op \in {"ERROR", "END"}

\* ::send fails and _socket is not -1: OsError in a thread without a handler.
SendThrows == socket = "closed" \/ (socket = "open" /\ Broken)

Send(msgs) ==
    \/ /\ socket = "open" /\ ~Broken
       /\ answers' = answers \o msgs
       /\ UNCHANGED crashed
    \/ /\ socket = "none" \/ (socket = "open" /\ Broken)
       /\ UNCHANGED <<answers, crashed>>
    \/ /\ SendThrows
       /\ crashed' = IF socket = "closed" THEN "closed" ELSE "lost"
       /\ UNCHANGED answers

-----------------------------------------------------------------------------
(* The dispatcher thread.                                                  *)

ThreadAt(step) == crashed = "no" /\ thread = step

LoopAgain == IF destroy THEN "exited" ELSE "pop"

Pop(ops) ==
    /\ ThreadAt("pop")
    /\ queue # <<>>
    /\ Head(queue).op \in ops
    /\ queue' = Tail(queue)

OnNoMessage ==
    /\ Pop({"NONE"})
    /\ thread' = LoopAgain
    /\ UNCHANGED <<clientVars, sessionVars, main, handling, dispatcherVars, crashed>>

OnBlockStarted ==
    /\ Pop({"BLOCK_STARTED"})
    /\ Send(<<Head(queue)>>)
    /\ thread' = LoopAgain
    /\ UNCHANGED <<clientVars, wireVars, socket, main, handling, dispatcherVars>>

\* Mutants of IsLast: off by one to either side.
IsLastButOne == blockCount \in {1, 2}

IsBeyondLast == blockCount = 0

\* _block_count-- == 1
IsLast == blockCount = 1

OnBlockCompleted ==
    /\ Pop({"BLOCK_COMPLETED"})
    /\ Send(IF IsLast THEN <<Head(queue), EndMsg("COMPLETED", id)>>
                      ELSE <<Head(queue)>>)
    /\ blockCount' = (blockCount + 2^CountWidth - 1) % 2^CountWidth
    /\ thread' = LoopAgain
    /\ UNCHANGED <<clientVars, wireVars, socket, main, handling,
                   id, abort, destroy, blocks, workers>>

\* Mutant of ClearedBlocks: abort does not clear the block queue.
BlocksKept == blocks

ClearedBlocks == <<>>

\* START and ABORT: abort() tells the workers to return ...
OnRequest ==
    /\ Pop({"START", "ABORT"})
    /\ handling' = <<Head(queue)>>
    /\ thread' = "join"
    /\ abort' = TRUE
    /\ blocks' = ClearedBlocks
    /\ UNCHANGED <<clientVars, sessionVars, main, id, blockCount, destroy,
                   workers, crashed>>

AllReturned == \A i \in DOMAIN workers : workers[i] = Returned

\* ... and waits until they have.
ThreadAborted ==
    /\ ThreadAt("join") /\ AllReturned
    /\ Head(handling).op = "ABORT"
    /\ workers' = <<>>
    /\ Send(<<EndMsg("ABORTED", id)>>)
    /\ thread' = LoopAgain /\ handling' = <<>>
    /\ UNCHANGED <<clientVars, wireVars, socket, main, queue,
                   id, blockCount, abort, destroy, blocks>>

AllBlocks(i) == [n \in Blocks(i) |-> [id |-> i, block |-> n]]

\* Mutant of CountBlocks: the count is added to what was left of the last.
CountOnTop == blockCount + Len(blocks')

\* _block_count = _block_queue.size()
CountBlocks == Len(blocks')

ThreadStarted ==
    /\ ThreadAt("join") /\ AllReturned
    /\ Head(handling).op = "START"
    /\ id' = Head(handling).id
    /\ abort' = FALSE
    /\ blocks' = blocks \o AllBlocks(id')
    /\ blockCount' = CountBlocks
    /\ workers' = [i \in 1..Head(handling).workers |-> NewWorker]
    /\ thread' = LoopAgain /\ handling' = <<>>
    /\ UNCHANGED <<clientVars, sessionVars, main, queue, destroy, crashed>>

DispatcherThread ==
    \/ OnNoMessage
    \/ OnBlockStarted
    \/ OnBlockCompleted
    \/ OnRequest
    \/ ThreadAborted
    \/ ThreadStarted

-----------------------------------------------------------------------------
(* The workers.                                                            *)

WorkerAt(i, step) == crashed = "no" /\ workers[i].at = step

WorkerPop(i) ==
    /\ WorkerAt(i, "pop")
    /\ IF blocks = <<>>
       THEN /\ workers' = [workers EXCEPT ![i] = Returned]
            /\ UNCHANGED <<blocks, queue>>
       ELSE /\ workers' = [workers EXCEPT ![i] = Calculating(Head(blocks))]
            /\ blocks' = Tail(blocks)
            /\ queue' = Append(queue, BlockMsg("BLOCK_STARTED", Head(blocks)))
    /\ UNCHANGED <<clientVars, sessionVars, main, threadVars,
                   id, blockCount, abort, destroy, crashed>>

\* Mutant of SeesAbort: the flag is tested the wrong way round.
SeesNoAbort == ~abort

SeesAbort == abort

WorkerAborts(i) ==
    /\ WorkerAt(i, "calculating")
    /\ SeesAbort
    /\ workers' = [workers EXCEPT ![i] = Returned]
    /\ UNCHANGED <<clientVars, sessionVars, main, threadVars, queue,
                   id, blockCount, abort, destroy, blocks, crashed>>

\* The flag is tested before every pixel, so it may be set after the last.
WorkerCompletes(i) ==
    /\ WorkerAt(i, "calculating")
    /\ queue' = Append(queue, BlockMsg("BLOCK_COMPLETED", workers[i].block))
    /\ workers' = [workers EXCEPT ![i] = NewWorker]
    /\ UNCHANGED <<clientVars, sessionVars, main, threadVars,
                   id, blockCount, abort, destroy, blocks, crashed>>

Worker(i) == WorkerPop(i) \/ WorkerAborts(i) \/ WorkerCompletes(i)

-----------------------------------------------------------------------------
(* The main thread.                                                        *)

MainAt(step) == crashed = "no" /\ main = step

\* server.accept(), the config message and a new Dispatcher.  The client may
\* still believe in a calculation of a session that it has lost.
MainAccept ==
    /\ MainAt("accept") /\ sessions < MaxSessions
    /\ main' = "receive" /\ socket' = "open"
    /\ sessions' = sessions + 1
    /\ client' \in IF lastId = 0 THEN {"waiting"} ELSE {"waiting", "calculating"}
    /\ known' = FALSE
    /\ toServer' = <<>> /\ kept' = 0 /\ answers' = <<>> /\ received' = 0
    /\ thread' = "none" /\ handling' = <<>> /\ queue' = <<>>
    /\ id' = 0 /\ blockCount' = 0 /\ abort' = TRUE /\ destroy' = FALSE
    /\ blocks' = <<>> /\ workers' = <<>>
    /\ UNCHANGED <<lastId, crashed>>

\* What was received stays received, and more of what is on its way, up to
\* its end, may be received with it.
MayKeep(k) ==
    /\ kept <= k + 1
    /\ \A n \in 1..k + 1 : toServer[n].op \notin {"ERROR", "END"}

\* receive() calls recv, which returns when more is there than it has returned
\* before (at the end of the stream at once, with nothing), and then takes the
\* oldest message.  on_recieve starts the dispatcher thread if need be.
MainReceive ==
    /\ MainAt("receive")
    /\ Len(toServer) > kept
    /\ toServer[kept + 1].op # "ERROR"
    /\ \E k \in 0..Len(toServer) - 1 : MayKeep(k) /\ kept' = k
    /\ toServer' = Tail(toServer)
    /\ IF Head(toServer).op \in {"START", "ABORT"}
       THEN /\ queue' = Append(queue, Head(toServer))
            /\ thread' = IF thread = "none" THEN "pop" ELSE thread
            /\ UNCHANGED <<main, socket>>
       ELSE /\ main' = "closing"
            /\ socket' = "closed"
            /\ UNCHANGED <<queue, thread>>
    /\ UNCHANGED <<clientVars, answers, handling, dispatcherVars, crashed>>

\* recv returns -1, whatever is left over.  When the session fails, or is
\* closed, the socket is closed first.
MainReceiveFails ==
    /\ MainAt("receive")
    /\ Len(toServer) > kept
    /\ toServer[kept + 1].op = "ERROR"
    /\ main' = "closing"
    /\ socket' = "closed"
    /\ toServer' = <<>> /\ kept' = 0
    /\ UNCHANGED <<clientVars, answers, threadVars, queue, dispatcherVars, crashed>>

\* ... and _socket is set to -1 after that.
MainClosed ==
    /\ MainAt("closing")
    /\ main' = "abort"
    /\ socket' = "none"
    /\ UNCHANGED <<clientVars, wireVars, answers, threadVars, queue,
                   dispatcherVars, crashed>>

\* ~Dispatcher: abort(true) in the main thread; its ABORTED is not sent.
MainAbort ==
    /\ MainAt("abort")
    /\ main' = "clear"
    /\ abort' = TRUE
    /\ UNCHANGED <<clientVars, sessionVars, threadVars, queue,
                   id, blockCount, destroy, blocks, workers, crashed>>

MainClear ==
    /\ MainAt("clear")
    /\ main' = "join"
    /\ blocks' = ClearedBlocks
    /\ UNCHANGED <<clientVars, sessionVars, threadVars, queue,
                   id, blockCount, abort, destroy, workers, crashed>>

MainJoin ==
    /\ MainAt("join") /\ AllReturned
    /\ main' = "destroy"
    /\ workers' = <<>>
    /\ UNCHANGED <<clientVars, sessionVars, threadVars, queue,
                   id, blockCount, abort, destroy, blocks, crashed>>

\* Both threads join and clear the workers, or one while the other starts
\* some: undefined behaviour.  What usually follows is that both go on, or
\* that the process terminates.
DataRace ==
    /\ MainAt("join") /\ ThreadAt("join")
    /\ workers # <<>> \/ Head(handling).op = "START"
    /\ crashed' = "race"
    /\ UNCHANGED <<clientVars, sessionVars, main, threadVars, queue, dispatcherVars>>

\* Mutant of WakeThread: the dispatcher thread is left waiting.
WakeNobody == queue

WakeThread == Append(queue, NoMessage)

MainDestroy ==
    /\ MainAt("destroy")
    /\ main' = "joinThread"
    /\ destroy' = TRUE
    /\ queue' = WakeThread
    /\ UNCHANGED <<clientVars, sessionVars, threadVars,
                   id, blockCount, abort, blocks, workers, crashed>>

\* The members are destroyed.  A thread that was not joined terminates the
\* process.
MainJoinThread ==
    /\ MainAt("joinThread") /\ thread \in {"none", "exited"}
    /\ main' = "accept"
    /\ crashed' = IF workers = <<>> THEN crashed ELSE "unjoined"
    /\ UNCHANGED <<clientVars, sessionVars, threadVars, queue, dispatcherVars>>

Main ==
    \/ MainReceive
    \/ MainReceiveFails
    \/ MainClosed
    \/ MainAbort
    \/ MainClear
    \/ MainJoin
    \/ MainDestroy
    \/ MainJoinThread

-----------------------------------------------------------------------------
(* The client, as far as the protocol goes.                                *)

serverVars == <<kept, answers, socket, main, threadVars, queue, dispatcherVars, crashed>>

ClientStart(count) ==
    /\ client = "waiting" /\ lastId < MaxCalc
    /\ client' = "calculating"
    /\ lastId' = lastId + 1
    /\ known' = TRUE
    /\ toServer' = Append(toServer, [op |-> "START", id |-> lastId', workers |-> count])
    /\ UNCHANGED <<received, sessions, serverVars>>

ClientAbort ==
    /\ client = "calculating"
    /\ client' = "aborting"
    /\ toServer' = Append(toServer, [op |-> "ABORT", id |-> lastId])
    /\ UNCHANGED <<lastId, known, received, sessions, serverVars>>

Connected == client \notin {"gone", "vanished"}

IsEnd(answer) == answer.op \in {"COMPLETED", "ABORTED"}

\* The next end of a calculation is delivered, with the blocks before it.
ClientReceive ==
    /\ Connected
    /\ \E n \in received + 1 .. Len(answers) :
          /\ IsEnd(answers[n])
          /\ \A k \in received + 1 .. n - 1 : ~IsEnd(answers[k])
          /\ received' = n
          /\ client' = IF answers[n].id = lastId THEN "waiting" ELSE client
    /\ UNCHANGED <<lastId, known, sessions, toServer, serverVars>>

\* The client closes the connection, or it is lost, or ends without a CLOSE.
ClientLeaves(op) ==
    /\ Connected
    /\ client' = IF op = "END" THEN "vanished" ELSE "gone"
    /\ toServer' = Append(toServer, [op |-> op])
    /\ UNCHANGED <<lastId, known, received, sessions, serverVars>>

\* A browser that waits in vain for an answer to its CLOSE ends the stream.
ClientHangsUp ==
    /\ client = "gone" /\ main = "receive"
    /\ \E n \in DOMAIN toServer : toServer[n].op = "CLOSE"
    /\ \A n \in DOMAIN toServer : toServer[n].op # "END"
    /\ toServer' = Append(toServer, [op |-> "END"])
    /\ UNCHANGED <<clientVars, serverVars>>

-----------------------------------------------------------------------------
Init ==
    /\ client = "gone" /\ lastId = 0 /\ known = FALSE /\ received = 0
    /\ toServer = <<>> /\ kept = 0 /\ answers = <<>> /\ sessions = 0
    /\ main = "accept" /\ socket = "none"
    /\ thread = "none" /\ handling = <<>> /\ queue = <<>>
    /\ id = 0 /\ blockCount = 0 /\ abort = TRUE /\ destroy = FALSE
    /\ blocks = <<>> /\ workers = <<>>
    /\ crashed = "no"

Client ==
    \/ \E count \in WorkerCounts : ClientStart(count)
    \/ ClientAbort
    \/ ClientReceive
    \/ \E op \in {"CLOSE", "ERROR", "END"} : ClientLeaves(op)
    \/ ClientHangsUp

Next ==
    \/ MainAccept
    \/ Main
    \/ DispatcherThread
    \/ \E i \in DOMAIN workers : Worker(i)
    \/ DataRace
    \/ Client

Spec == Init /\ [][Next]_vars

\* Every thread runs, what was sent to the client is delivered, and a client
\* that closes the connection ends the stream at last.
Fairness ==
    /\ WF_vars(Main)
    /\ WF_vars(DispatcherThread)
    /\ \A i \in UNION {1..count : count \in WorkerCounts} :
          WF_vars(i \in DOMAIN workers /\ Worker(i))
    /\ WF_vars(ClientReceive) /\ WF_vars(ClientHangsUp)

FairSpec == Spec /\ Fairness

-----------------------------------------------------------------------------
(* Properties.                                                             *)

Answer == (UNION {[op : {"BLOCK_STARTED", "BLOCK_COMPLETED"}, id : {i}, block : Blocks(i)]
                   : i \in Ids})
          \cup [op : {"COMPLETED", "ABORTED"}, id : {0} \cup Ids]

TypeOK ==
    /\ client \in {"waiting", "calculating", "aborting", "gone", "vanished"}
    /\ lastId \in 0..MaxCalc
    /\ known \in BOOLEAN
    /\ received \in 0..Len(answers)
    /\ toServer \in Seq(ClientMsg \cup [op : {"CLOSE", "ERROR", "END"}])
    /\ kept \in 0..Len(toServer)
    /\ answers \in Seq(Answer)
    /\ sessions \in 0..MaxSessions
    /\ main \in {"accept", "receive", "closing", "abort", "clear", "join",
                 "destroy", "joinThread"}
    /\ socket \in {"open", "closed", "none"}
    /\ thread \in {"none", "pop", "join", "exited"}
    /\ handling \in {<<>>} \cup {<<msg>> : msg \in ClientMsg}
    /\ queue \in Seq(ClientMsg \cup Answer \cup {NoMessage})
    /\ id \in {0} \cup Ids
    /\ blockCount \in {0} \cup UNION {0..NumBlocks[i] : i \in Ids}
    /\ abort \in BOOLEAN /\ destroy \in BOOLEAN
    /\ blocks \in Seq(Block)
    /\ workers \in Seq({NewWorker, Returned} \cup {Calculating(blk) : blk \in Block})
    /\ crashed \in {"no", "lost", "closed", "race", "unjoined"}

Times(op, i, blk) ==
    Cardinality({n \in DOMAIN answers : answers[n] = [op |-> op, id |-> i, block |-> blk]})

\* COMPLETED is sent once, after each block was sent once as started and
\* once as completed.  (It may follow ABORTED: queued blocks are still sent.)
CompletedIsComplete ==
    \A n \in DOMAIN answers : answers[n].op = "COMPLETED" =>
        /\ \A blk \in Blocks(answers[n].id), op \in {"BLOCK_STARTED", "BLOCK_COMPLETED"} :
              Times(op, answers[n].id, blk) = 1
        /\ \A k \in 1..n - 1 : answers[k].id = answers[n].id
                                  => answers[k].op # "COMPLETED"

\* Once anything of a calculation was sent, nothing of an earlier one is:
\* whatever an aborted calculation left on the message queue is ahead of the
\* next START.
AnswersInOrder ==
    \A n \in DOMAIN answers : \A k \in 1..n : answers[k].id <= answers[n].id

\* The count that decides when COMPLETED is sent is, in a session that goes
\* on, the number of blocks not yet sent, wherever they are: not taken, being
\* calculated, or on the message queue behind any number of other messages.
CountIsOutstanding ==
    main = "receive" /\ ~abort =>
        blockCount = Len(blocks)
                     + Cardinality({i \in DOMAIN workers : workers[i].at = "calculating"})
                     + Cardinality({n \in DOMAIN queue : queue[n].op = "BLOCK_COMPLETED"})

\* What the client is told is complete, in order and told in time, whatever an
\* abort leaves on the two queues.
AnswersAreSound == CompletedIsComplete /\ AnswersInOrder /\ CountIsOutstanding

\* No thread waits for another for ever: a session that the client closes or
\* loses ends and the server accepts the next, or else the process terminates.
\* (Of a client that vanishes, without a CLOSE or an error, EndIsNoticed of
\* WebSocketSession speaks.)
SessionsEndOrCrash == (client = "gone") ~> (main = "accept" \/ crashed # "no")

\* The START of the last calculation was received with the message before it,
\* and is looked at only when more arrives.
StartIsKept ==
    \E n \in 1..kept : toServer[n].op = "START" /\ toServer[n].id = lastId

\* Every calculation of a session ends, aborted or not, for a client that
\* stays, unless its START is left over.
CalculationsEnd ==
    (client \in {"calculating", "aborting"} /\ known)
        ~> (client \notin {"calculating", "aborting"} \/ StartIsKept)
=============================================================================
