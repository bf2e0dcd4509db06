---------------------------- MODULE WebDispatcher ----------------------------
(***************************************************************************)
(* The dispatcher in a web worker of the page (src/web/dispatcher.js) and  *)
(* the workers it hands blocks to (src/web/worker.js).                     *)
(*                                                                         *)
(* All of them run their handlers to completion and share nothing; they    *)
(* exchange messages over FIFO ports.  Terminating a worker discards what  *)
(* it was sent and what it has posted but was not yet delivered.  The      *)
(* client obeys the protocol of Backends: one START, then perhaps one      *)
(* ABORT, and no START before the calculation is reported as ended.        *)
(***************************************************************************)
EXTENDS Naturals, Sequences, FiniteSets

CONSTANTS
    NumBlocks,      \* blocks of a calculation
    WorkerCounts,   \* worker counts a START may ask for
    MaxCalc         \* bound on the number of calculations

ASSUME WebDispatcherAssumption ==
    /\ NumBlocks \in Nat \ {0}
    /\ WorkerCounts \subseteq Nat \ {0}
    /\ MaxCalc \in Nat

Blocks == 1..NumBlocks
Ids == 1..MaxCalc

VARIABLES
    client,         \* "waiting", "calculating" or "aborting"
    lastId,         \* id of the last calculation the client started
    received,       \* how many of the answers the client has handled
    inbox,          \* messages from the client to the dispatcher
    answers,        \* all that the dispatcher posted to the client, in order
    blocks,         \* this.blocks, those not yet given to a worker
    workers,        \* this.workers: what each was sent and what it has posted
    workingCount    \* this.workingCount

clientVars == <<client, lastId, received>>
dispatcherVars == <<answers, blocks, workers, workingCount>>
vars == <<clientVars, inbox, dispatcherVars>>

Block == [id : Ids, block : Blocks]
Message == [op : {"START"}, id : Ids, workers : WorkerCounts]
           \cup [op : {"ABORT"}, id : Ids]
BlockAnswer(op, blk) == [op |-> op, id |-> blk.id, block |-> blk.block]
EndAnswer(op, id) == [op |-> op, id |-> id]

\* createWorker()
NewWorker == [mail |-> <<>>, posted |-> <<>>]

Busy(i) == workers[i].mail # <<>> \/ workers[i].posted # <<>>

-----------------------------------------------------------------------------
(* The dispatcher.                                                         *)

\* setWorkerCount: surplus workers are terminated, missing ones created.
SetWorkerCount(count) ==
    [i \in 1..count |-> IF i \in DOMAIN workers THEN workers[i] ELSE NewWorker]

\* Mutant of Post: the worker is sent the block twice.
PostAgain(ws, i, blk) == [ws EXCEPT ![i].mail = @ \o <<blk, blk>>]

Post(ws, i, blk) == [ws EXCEPT ![i].mail = Append(@, blk)]

AllBlocks(id) == [n \in Blocks |-> [id |-> id, block |-> n]]

MinOf(m, n) == IF m < n THEN m ELSE n

OnStart ==
    /\ inbox # <<>> /\ Head(inbox).op = "START"
    /\ inbox' = Tail(inbox)
    /\ LET msg == Head(inbox)
           all == AllBlocks(msg.id)
           given == MinOf(msg.workers, NumBlocks)
           ws == SetWorkerCount(msg.workers)
       IN
       /\ workers' = [i \in DOMAIN ws |->
                         IF i <= given THEN Post(ws, i, all[i])[i] ELSE ws[i]]
       /\ blocks' = SubSeq(all, given + 1, NumBlocks)
       /\ workingCount' = given
       /\ answers' = answers \o
              [i \in 1..given |-> BlockAnswer("BLOCK_STARTED", all[i])]
    /\ UNCHANGED clientVars

\* Mutant of WorkersAfterAbort: the workers finish what they were given.
WorkersGoOn == workers

WorkersAfterAbort == [i \in DOMAIN workers |-> NewWorker]

\* Mutant of BlocksAfterAbort: this.blocks is not emptied.
BlocksKept == blocks

BlocksAfterAbort == <<>>

OnAbort ==
    /\ inbox # <<>> /\ Head(inbox).op = "ABORT"
    /\ inbox' = Tail(inbox)
    /\ blocks' = BlocksAfterAbort
    /\ workers' = WorkersAfterAbort
    /\ answers' = Append(answers, EndAnswer("ABORTED", Head(inbox).id))
    /\ UNCHANGED <<clientVars, workingCount>>

\* Mutants of IsLast: no block left to give, off by one to either side.
IsLastGiven(count) == blocks = <<>>

IsLastButOne(count) == count <= 1

IsBeyondLast(count) == count < 0

IsLast(count) == count = 0

\* onBlockCompleted, with postBlock: the worker gets its next block before
\* the finished one is passed on.
OnBlockCompleted(i) ==
    /\ workers[i].posted # <<>>
    /\ LET result == Head(workers[i].posted)
           ws == [workers EXCEPT ![i].posted = Tail(@)]
           given == blocks # <<>>
           count == workingCount - 1 + (IF given THEN 1 ELSE 0)
       IN
       /\ workers' = IF given THEN Post(ws, i, Head(blocks)) ELSE ws
       /\ blocks' = IF given THEN Tail(blocks) ELSE blocks
       /\ workingCount' = count
       /\ answers' =
              answers
              \o (IF given THEN <<BlockAnswer("BLOCK_STARTED", Head(blocks))>> ELSE <<>>)
              \o <<BlockAnswer("BLOCK_COMPLETED", result)>>
              \o (IF IsLast(count) THEN <<EndAnswer("COMPLETED", result.id)>> ELSE <<>>)
    /\ UNCHANGED <<clientVars, inbox>>

\* worker.js: calculates the first block it was sent and posts the result.
WorkerRun(i) ==
    /\ workers[i].mail # <<>>
    /\ workers' = [workers EXCEPT ![i] = [mail |-> Tail(@.mail),
                                          posted |-> Append(@.posted, Head(@.mail))]]
    /\ UNCHANGED <<clientVars, inbox, answers, blocks, workingCount>>

-----------------------------------------------------------------------------
(* The client, as far as the protocol goes.                                *)

ClientStart(count) ==
    /\ client = "waiting" /\ lastId < MaxCalc
    /\ client' = "calculating"
    /\ lastId' = lastId + 1
    /\ inbox' = Append(inbox, [op |-> "START", id |-> lastId', workers |-> count])
    /\ UNCHANGED <<received, dispatcherVars>>

ClientAbort ==
    /\ client = "calculating"
    /\ client' = "aborting"
    /\ inbox' = Append(inbox, [op |-> "ABORT", id |-> lastId])
    /\ UNCHANGED <<lastId, received, dispatcherVars>>

IsEnd(answer) == answer.op \in {"COMPLETED", "ABORTED"}

\* The next end of a calculation is delivered, with the blocks before it.
ClientReceive ==
    \E n \in received + 1 .. Len(answers) :
        /\ IsEnd(answers[n])
        /\ \A k \in received + 1 .. n - 1 : ~IsEnd(answers[k])
        /\ received' = n
        /\ client' = IF answers[n].id = lastId THEN "waiting" ELSE client
        /\ UNCHANGED <<lastId, inbox, dispatcherVars>>

-----------------------------------------------------------------------------
Init ==
    /\ client = "waiting" /\ lastId = 0 /\ received = 0
    /\ inbox = <<>>
    /\ answers = <<>>
    /\ blocks = <<>>
    /\ workers = <<>>
    /\ workingCount = 0

Dispatch ==
    \/ OnStart
    \/ OnAbort
    \/ \E i \in DOMAIN workers : OnBlockCompleted(i)

Next ==
    \/ \E count \in WorkerCounts : ClientStart(count)
    \/ ClientAbort
    \/ ClientReceive
    \/ Dispatch
    \/ \E i \in DOMAIN workers : WorkerRun(i)

Spec == Init /\ [][Next]_vars

\* The browser delivers messages and lets workers run.
Fairness ==
    /\ WF_vars(ClientReceive)
    /\ WF_vars(Dispatch)
    /\ WF_vars(\E i \in DOMAIN workers : WorkerRun(i))

FairSpec == Spec /\ Fairness

-----------------------------------------------------------------------------
(* Properties.                                                             *)

Answer == [op : {"BLOCK_STARTED", "BLOCK_COMPLETED"}, id : Ids, block : Blocks]
          \cup [op : {"COMPLETED", "ABORTED"}, id : Ids]

TypeOK ==
    /\ client \in {"waiting", "calculating", "aborting"}
    /\ lastId \in 0..MaxCalc
    /\ received \in 0..Len(answers)
    /\ inbox \in Seq(Message)
    /\ answers \in Seq(Answer)
    /\ blocks \in Seq(Block)
    /\ workers \in Seq([mail : Seq(Block), posted : Seq(Block)])
    /\ workingCount \in Nat

\* When the dispatcher is about to handle a START, none of its workers has a
\* block of an earlier calculation: setWorkerCount may keep every worker, and
\* onBlockCompleted need not look at the id of what it counts.
StartFindsWorkersIdle ==
    inbox # <<>> /\ Head(inbox).op = "START" =>
        blocks = <<>> /\ \A i \in DOMAIN workers : ~Busy(i)

\* The count that decides when COMPLETED is posted: as long as any worker is
\* busy it is the number of busy workers, and each has one block only.
WorkingCountIsBusy ==
    LET busy == {i \in DOMAIN workers : Busy(i)} IN
    busy # {} =>
        /\ workingCount = Cardinality(busy)
        /\ \A i \in busy : Len(workers[i].mail) + Len(workers[i].posted) = 1

Times(op, id, blk) ==
    Cardinality({n \in DOMAIN answers : answers[n] = [op |-> op, id |-> id, block |-> blk]})

\* COMPLETED is posted once, after each block was posted once as started and
\* once as completed, and not for a calculation already reported aborted.
CompletedIsComplete ==
    \A n \in DOMAIN answers : answers[n].op = "COMPLETED" =>
        /\ \A blk \in Blocks, op \in {"BLOCK_STARTED", "BLOCK_COMPLETED"} :
              Times(op, answers[n].id, blk) = 1
        /\ \A k \in DOMAIN answers :
              answers[k].id = answers[n].id /\ k # n =>
                  IF k < n THEN ~IsEnd(answers[k]) ELSE answers[k].op = "ABORTED"

\* However START and ABORT fall between the messages of the workers: no answer
\* is about an earlier calculation, missing, or posted twice.
AnswersAreSound == StartFindsWorkersIdle /\ WorkingCountIsBusy /\ CompletedIsComplete

\* The dispatcher is a CalculationService, seen through what it posted.
Posted(op, id) == {n \in DOMAIN answers : answers[n].op = op /\ answers[n].id = id}

StatusPosted(id) ==
    IF Posted("COMPLETED", id) # {} THEN "completed"
    ELSE IF Posted("ABORTED", id) # {} THEN "aborted"
    ELSE IF Posted("BLOCK_STARTED", id) # {} THEN "running"
    ELSE "none"

Statuses == [id \in Ids |-> StatusPosted(id)]

BlocksPosted(op) == [id \in Ids |-> {answers[n].block : n \in Posted(op, id)}]

Service == INSTANCE CalculationService WITH
    status <- Statuses,
    started <- BlocksPosted("BLOCK_STARTED"),
    done <- BlocksPosted("BLOCK_COMPLETED")

ImplementsService == Service!Spec

\* Every calculation ends, aborted or not.
CalculationsEnd == (client # "waiting") ~> (client = "waiting")
=============================================================================
