------------------------- MODULE GoDispatcherProofs -------------------------
(***************************************************************************)
(* Proofs about a Dispatcher of the Go server: for any number of blocks,   *)
(* workers and calculations, whichever goroutine of it waits for which,    *)
(* what it posts is complete, in order and posted once.                    *)
(***************************************************************************)
EXTENDS GoDispatcher, FiniteSetTheorems, TLAPS

-----------------------------------------------------------------------------
(* The inductive invariant.                                                *)

\* Has the reader handled its START?
Started(id) == completion[id] # "none"

IsStart(msg, id) == msg.op = "START" /\ msg.id = id
IsAbort(msg, id) == msg.op = "ABORT" /\ msg.id = id

\* One START at most is on its way, that of the last calculation, and an ABORT
\* comes after the START.
RequestsOK ==
    /\ \A id \in Ids : Started(id) <=> id <= lastId /\ \A n \in DOMAIN toServer : ~IsStart(toServer[n], id)
    /\ \A n \in DOMAIN toServer : toServer[n].op = "START" => toServer[n].id = lastId
    /\ \A m, n \in DOMAIN toServer :
          toServer[m].op = "START" /\ toServer[n].op = "START" => m = n
    /\ \A n \in DOMAIN toServer : \A id \in Ids : IsAbort(toServer[n], id) =>
          /\ id <= lastId
          /\ Started(id) \/ \E m \in DOMAIN toServer : m < n /\ IsStart(toServer[m], id)

\* The reader is handling an ABORT.
Aborting(id) == pc["reader"] \in WaitStep /\ abortId = id

\* A calculation is aborted once.
AbortsOK ==
    /\ \A m, n \in DOMAIN toServer : \A id \in Ids : IsAbort(toServer[m], id) /\ IsAbort(toServer[n], id) => m = n
    /\ \A n \in DOMAIN toServer : \A id \in Ids : IsAbort(toServer[n], id) =>
          ~Aborting(id) /\ EndMsg("ABORTED", id) \notin posted
    /\ \A id \in Ids : Aborting(id) => Started(id) /\ EndMsg("ABORTED", id) \notin posted
    /\ client = "calculating" =>
          /\ lastId \in Ids
          /\ \A n \in DOMAIN toServer : ~IsAbort(toServer[n], lastId)
          /\ ~Aborting(lastId) /\ EndMsg("ABORTED", lastId) \notin posted

Ended(id) == EndMsg("COMPLETED", id) \in posted \/ EndMsg("ABORTED", id) \in posted

\* No worker of the calculation is left.
Quiet(id) == \A i \in DOMAIN workers[id] : workers[id][i] = Returned

\* An end is posted when the workers have returned, and the client goes on when
\* it has read one.
EndsOK ==
    /\ \A id \in Ids : id < lastId => Ended(id)
    /\ client = "waiting" /\ lastId \in Ids => Ended(lastId)
    /\ \A n \in DOMAIN toClient : toClient[n] \in posted /\ IsEnd(toClient[n])
    /\ \A n \in DOMAIN outgoing : outgoing[n] \in posted
    /\ \A id \in Ids : Ended(id) => Started(id) /\ Quiet(id)
    /\ pc["reader"] = "go" => AllReturned(workers)
    /\ \A id \in Ids : completion[id] \in {"go", "done"} => Quiet(id)
    /\ \A id \in Ids : EndMsg("COMPLETED", id) \in posted =>
          completion[id] = "done" /\ completed[id] = NumBlocks[id]

StartedMsg(id, blk) == BlockMsg("BLOCK_STARTED", id, blk)
CompletedMsg(id, blk) == BlockMsg("BLOCK_COMPLETED", id, blk)

\* Blocks are given to the workers in order.
Given(id) == IF Started(id) THEN NumBlocks[id] - Len(blocks[id]) ELSE 0

Holds(id, i, blk) ==
    \E step \in {"started", "calculate", "completed"} : workers[id][i] = At(step, blk)

\* A block is not yet given, with one worker, or reported; what is posted of it
\* says which.
BlocksOK(id) ==
    /\ ~Started(id) => workers[id] = <<>> /\ blocks[id] = <<>>
    /\ Len(blocks[id]) <= NumBlocks[id]
    /\ \A n \in DOMAIN blocks[id] : blocks[id][n] = Given(id) + n
    /\ \A blk \in Blocks(id) :
          /\ \A i, j \in DOMAIN workers[id] :
                Holds(id, i, blk) /\ Holds(id, j, blk) => i = j
          /\ \A i \in DOMAIN workers[id] :
                /\ Holds(id, i, blk) => blk <= Given(id) /\ CompletedMsg(id, blk) \notin posted
                /\ workers[id][i] = At("started", blk) => StartedMsg(id, blk) \notin posted
                /\ workers[id][i] \in {At("calculate", blk), At("completed", blk)}
                      => StartedMsg(id, blk) \in posted
          /\ StartedMsg(id, blk) \in posted => blk <= Given(id)
          /\ CompletedMsg(id, blk) \in posted => StartedMsg(id, blk) \in posted

\* The counter counts the blocks reported as completed.
CompletedBlocks(id) == {blk \in Blocks(id) : CompletedMsg(id, blk) \in posted}
CountOK == \A id \in Ids : completed[id] = Cardinality(CompletedBlocks(id))

GoInv ==
    /\ TypeOK
    /\ RequestsOK
    /\ AbortsOK
    /\ EndsOK
    /\ \A id \in Ids : BlocksOK(id)
    /\ CountOK

-----------------------------------------------------------------------------
(* Messages, workers and sequences.                                        *)

EndOps == {"COMPLETED", "ABORTED"}
BlockOps == {"BLOCK_STARTED", "BLOCK_COMPLETED"}
Steps == {"started", "calculate", "completed"}

\* Messages differ if anything in them does.
LEMMA Kinds ==
  /\ \A op, op2, id, id2 : EndMsg(op, id) = EndMsg(op2, id2) <=> op = op2 /\ id = id2
  /\ \A op, op2, id, id2, blk, blk2 :
        BlockMsg(op, id, blk) = BlockMsg(op2, id2, blk2)
            <=> op = op2 /\ id = id2 /\ blk = blk2
  /\ \A op \in EndOps, op2 \in BlockOps : \A id, id2, blk : EndMsg(op, id) # BlockMsg(op2, id2, blk)
  BY DEF EndMsg, BlockMsg, EndOps, BlockOps

LEMMA MsgKinds ==
  /\ \A op \in EndOps : \A id \in Ids : EndMsg(op, id) \in Msg /\ IsEnd(EndMsg(op, id))
  /\ \A op \in BlockOps : \A id \in Ids : \A blk \in Blocks(id) :
        BlockMsg(op, id, blk) \in Msg /\ ~IsEnd(BlockMsg(op, id, blk))
  /\ \A msg \in Msg : /\ msg.id \in Ids
                      /\ IsEnd(msg) => msg = EndMsg(msg.op, msg.id) /\ msg.op \in EndOps
<1>0. \A msg : msg \in Msg <=> \/ \E id \in Ids : msg \in [op : BlockOps, id : {id}, block : Blocks(id)]
                               \/ msg \in [op : EndOps, id : Ids]
  <2> DEFINE Of(id) == [op : BlockOps, id : {id}, block : Blocks(id)]
             Ends == [op : EndOps, id : Ids]
  <2>1. Msg = (UNION {Of(id) : id \in Ids}) \cup Ends
    BY DEF Msg, BlockOps, EndOps
  <2> HIDE DEF Of, Ends
  <2>2. \A msg : msg \in UNION {Of(id) : id \in Ids} <=> \E id \in Ids : msg \in Of(id)
    BY Zenon
  <2>3. \A msg : msg \in Msg <=> (\E id \in Ids : msg \in Of(id)) \/ msg \in Ends
    BY <2>1, <2>2, Zenon
  <2> QED  BY <2>3, Zenon DEF Of, Ends
<1>1. ASSUME NEW op \in EndOps, NEW id \in Ids
      PROVE  EndMsg(op, id) \in Msg /\ IsEnd(EndMsg(op, id))
  <2>1. EndMsg(op, id) \in [op : EndOps, id : Ids]
    BY DEF EndMsg
  <2>2. EndMsg(op, id).op = op
    BY DEF EndMsg
  <2> QED  BY <1>0, <2>1, <2>2 DEF EndOps, IsEnd
<1>2. ASSUME NEW op \in BlockOps, NEW id \in Ids, NEW blk \in Blocks(id)
      PROVE  BlockMsg(op, id, blk) \in Msg /\ ~IsEnd(BlockMsg(op, id, blk))
  <2>1. BlockMsg(op, id, blk) \in [op : BlockOps, id : {id}, block : Blocks(id)]
    BY DEF BlockMsg
  <2>2. BlockMsg(op, id, blk).op = op
    BY DEF BlockMsg
  <2> QED  BY <1>0, <2>1, <2>2 DEF BlockOps, IsEnd
<1>3. ASSUME NEW msg \in Msg
      PROVE  /\ msg.id \in Ids
             /\ IsEnd(msg) => msg = EndMsg(msg.op, msg.id) /\ msg.op \in EndOps
  <2>1. CASE msg \in [op : EndOps, id : Ids]
    BY <2>1 DEF EndMsg, EndOps
  <2>2. CASE \E id \in Ids : msg \in [op : BlockOps, id : {id}, block : Blocks(id)]
    BY <2>2 DEF IsEnd, BlockOps
  <2> QED  BY <1>0, <2>1, <2>2
<1> QED  BY <1>1, <1>2, <1>3

\* What a worker is doing says which block it holds.
LEMMA States ==
  /\ Taking # Returned /\ Taking.at = "take" /\ Returned.at = "returned"
  /\ \A step \in Steps : \A blk : At(step, blk) # Taking /\ At(step, blk) # Returned
  /\ \A step, step2, blk, blk2 : At(step, blk) = At(step2, blk2) <=> step = step2 /\ blk = blk2
  /\ \A step, blk : At(step, blk).at = step /\ At(step, blk).block = blk
  BY DEF Taking, Returned, At, Steps

\* A worker at a step has a block of its calculation.
LEMMA WorkerHas ==
  ASSUME TypeOK, NEW id \in Ids, NEW i \in DOMAIN workers[id], NEW step \in Steps,
         workers[id][i].at = step
  PROVE  /\ workers[id][i].block \in Blocks(id)
         /\ workers[id][i] = At(step, workers[id][i].block)
<1>1. workers[id][i] \in WorkerState(id)
  BY DEF TypeOK
<1>2. workers[id][i] # Taking /\ workers[id][i] # Returned
  BY States DEF Steps
<1>3. PICK s \in Steps, blk \in Blocks(id) : workers[id][i] = At(s, blk)
  BY <1>1, <1>2 DEF WorkerState, Steps
<1> QED  BY <1>3, States

LEMMA AppendOne ==
  ASSUME NEW S, NEW s \in Seq(S), NEW e \in S
  PROVE  /\ Append(s, e) \in Seq(S)
         /\ Len(Append(s, e)) = Len(s) + 1
         /\ DOMAIN Append(s, e) = 1 .. Len(s) + 1
         /\ DOMAIN s = 1 .. Len(s)
         /\ Len(s) \in Nat
         /\ \A n \in 1 .. Len(s) : Append(s, e)[n] = s[n]
         /\ Append(s, e)[Len(s) + 1] = e
         /\ Append(s, e) # <<>>
OBVIOUS

LEMMA TailOne ==
  ASSUME NEW S, NEW s \in Seq(S), s # <<>>
  PROVE  /\ Tail(s) \in Seq(S) /\ Head(s) \in S /\ Head(s) = s[1] /\ 1 \in DOMAIN s
         /\ Len(Tail(s)) = Len(s) - 1 /\ Len(s) \in Nat \ {0}
         /\ DOMAIN s = 1 .. Len(s) /\ DOMAIN Tail(s) = 1 .. Len(s) - 1
         /\ \A n \in DOMAIN Tail(s) : n + 1 \in DOMAIN s /\ Tail(s)[n] = s[n + 1]
OBVIOUS

Changed(id, i, w) == [workers EXCEPT ![id][i] = w]

\* One worker changes.
LEMMA WorkerChanges ==
  ASSUME TypeOK, NEW id \in Ids, NEW i \in DOMAIN workers[id], NEW w \in WorkerState(id),
         workers' = Changed(id, i, w)
  PROVE  /\ DOMAIN workers' = Ids
         /\ \A k \in Ids : /\ workers'[k] \in Seq(WorkerState(k))
                           /\ DOMAIN workers'[k] = DOMAIN workers[k]
         /\ \A k \in Ids : k # id => workers'[k] = workers[k]
         /\ workers'[id][i] = w
         /\ \A j \in DOMAIN workers[id] : j # i => workers'[id][j] = workers[id][j]
<1>1. DOMAIN workers = Ids /\ \A k \in Ids : workers[k] \in Seq(WorkerState(k))
  BY DEF TypeOK
<1>2. /\ DOMAIN workers' = Ids /\ workers'[id] = [workers[id] EXCEPT ![i] = w]
      /\ \A k \in Ids : k # id => workers'[k] = workers[k]
  BY <1>1 DEF Changed
<1>3. [workers[id] EXCEPT ![i] = w] \in Seq(WorkerState(id))
  BY <1>1
<1> QED  BY <1>1, <1>2, <1>3

-----------------------------------------------------------------------------
(* Steps that change no worker and post nothing.                           *)

LEMMA NoWork ==
  ASSUME GoInv, UNCHANGED <<workVars, posted>>
  PROVE  /\ \A id \in Ids : /\ Started(id)' <=> Started(id)
                            /\ Ended(id)' <=> Ended(id)
                            /\ Quiet(id)' <=> Quiet(id)
                            /\ BlocksOK(id)'
         /\ AllReturned(workers)' <=> AllReturned(workers)
         /\ CountOK'
<1>1. workers' = workers /\ blocks' = blocks /\ completed' = completed /\ completion' = completion
      /\ posted' = posted
  BY DEF workVars
<1>2. ASSUME NEW id \in Ids
      PROVE  /\ Started(id)' <=> Started(id)
             /\ Ended(id)' <=> Ended(id)
             /\ Quiet(id)' <=> Quiet(id)
             /\ Given(id)' = Given(id)
             /\ CompletedBlocks(id)' = CompletedBlocks(id)
  BY <1>1 DEF Started, Ended, Quiet, Given, CompletedBlocks
<1>3. ASSUME NEW id \in Ids
      PROVE  BlocksOK(id)'
  <2>1. \A i, blk : Holds(id, i, blk)' <=> Holds(id, i, blk)
    BY <1>1 DEF Holds
  <2>2. BlocksOK(id)
    BY DEF GoInv
  <2> QED  BY <1>1, <1>2, <2>1, <2>2 DEF BlocksOK
<1>4. AllReturned(workers)' <=> AllReturned(workers)
  BY <1>1 DEF AllReturned
<1>5. CountOK'
  BY <1>1, <1>2 DEF GoInv, CountOK
<1> QED  BY <1>2, <1>3, <1>4, <1>5

\* What the reader has to read stays as it is.
LEMMA SameRequests ==
  ASSUME GoInv, UNCHANGED <<lastId, toServer>>,
         \A id \in Ids : Started(id)' <=> Started(id)
  PROVE  RequestsOK'
BY DEF GoInv, RequestsOK, IsStart, IsAbort

\* No calculation is aborted that was not, and ABORTED is not posted.
LEMMA SameAborts ==
  ASSUME GoInv, UNCHANGED <<lastId, toServer>>,
         client' = "calculating" => client = "calculating",
         \A id \in Ids : /\ Aborting(id)' => Aborting(id)
                         /\ Started(id) => Started(id)'
                         /\ EndMsg("ABORTED", id) \in posted' => EndMsg("ABORTED", id) \in posted
  PROVE  AbortsOK'
<1>1. ASSUME client' = "calculating"
      PROVE  client = "calculating" /\ lastId \in Ids /\ \A n \in DOMAIN toServer : ~IsAbort(toServer[n], lastId)
             /\ ~Aborting(lastId)' /\ EndMsg("ABORTED", lastId) \notin posted'
  BY <1>1 DEF GoInv, AbortsOK
<1> QED  BY <1>1 DEF GoInv, AbortsOK, Aborting

LEMMA CallStep ==
  ASSUME GoInv, TypeOK', UNCHANGED <<lastId, toServer, workVars, posted>>,
         client' \in {client, "gone"},
         \A n \in DOMAIN toClient' : toClient'[n] \in posted /\ IsEnd(toClient'[n]),
         \A n \in DOMAIN outgoing' : outgoing'[n] \in posted,
         pc'["reader"] = "go" => AllReturned(workers),
         \A id \in Ids : Aborting(id)' => Aborting(id)
  PROVE  GoInv'
<1>1. RequestsOK'
  BY NoWork, SameRequests
<1>2. AbortsOK'
  BY NoWork, SameAborts
<1>3. EndsOK'
  BY NoWork DEF GoInv, EndsOK, workVars
<1> QED  BY <1>1, <1>2, <1>3, NoWork DEF GoInv

LEMMA CallTypes ==
  ASSUME TypeOK, UNCHANGED workVars,
         client' \in {"waiting", "calculating", "aborting", "gone"}, lastId' \in 0..MaxCalc, toServer' \in Seq(ClientMsg),
         toClient' \in Seq(Msg), conn' \in {"open", "broken", "closed"},
         outgoing' \in Seq(Msg), Len(outgoing') <= Capacity, posted' \subseteq Msg,
         aborting' \in BOOLEAN,
         pc' \in [Closer -> {"run", "close", "exited"} \cup WaitStep],
         abortId' \in {0} \cup Ids, panicked' \in BOOLEAN
  PROVE  TypeOK'
BY DEF TypeOK, workVars

LEMMA WakeAbortStep ==
  ASSUME GoInv, NEW g \in Closer, WakeAbort(g)
  PROVE  GoInv'
<1>1. TypeOK'
  BY CallTypes DEF GoInv, TypeOK, WakeAbort, clientVars, channelVars, WaitStep
<1>2. pc'["reader"] = "go" => AllReturned(workers)
  BY DEF GoInv, EndsOK, TypeOK, WakeAbort
<1>3. \A id \in Ids : Aborting(id)' => Aborting(id)
  BY DEF GoInv, TypeOK, WakeAbort, Aborting, WaitStep, Closer
<1> QED  BY <1>1, <1>2, <1>3, CallStep DEF GoInv, EndsOK, WakeAbort, clientVars, channelVars, workVars

LEMMA EndCloseAbortStep ==
  ASSUME GoInv, NEW g \in Closer, EndCloseAbort(g)
  PROVE  GoInv'
<1>1. TypeOK'
  BY CallTypes DEF GoInv, TypeOK, EndCloseAbort, clientVars, channelVars
<1>2. pc'["reader"] = "go" => AllReturned(workers)
  BY DEF GoInv, EndsOK, TypeOK, EndCloseAbort
<1>3. \A id \in Ids : Aborting(id)' => Aborting(id)
  BY DEF GoInv, TypeOK, EndCloseAbort, Aborting, WaitStep
<1> QED  BY <1>1, <1>2, <1>3, CallStep DEF GoInv, EndsOK, EndCloseAbort, clientVars, channelVars, workVars

LEMMA CloseConnStep ==
  ASSUME GoInv, NEW g \in Closer, CloseConn(g)
  PROVE  GoInv'
<1>1. TypeOK'
  BY CallTypes DEF GoInv, TypeOK, CloseConn, clientVars, channelVars
<1>2. pc'["reader"] = "go" => AllReturned(workers)
  BY DEF GoInv, EndsOK, TypeOK, CloseConn
<1>3. \A id \in Ids : Aborting(id)' => Aborting(id)
  BY DEF GoInv, TypeOK, CloseConn, Aborting, WaitStep
<1> QED  BY <1>1, <1>2, <1>3, CallStep DEF GoInv, EndsOK, CloseConn, clientVars, channelVars, workVars

\* Abort is called by Close.
LEMMA CloseBegins ==
  ASSUME GoInv, NEW g \in Closer, BeginAbort(g, 0)
  PROVE  /\ aborting' \in BOOLEAN
         /\ pc' \in [Closer -> {"run", "close", "exited"} \cup WaitStep]
         /\ abortId' \in {0} \cup Ids
         /\ pc'["reader"] = "go" => AllReturned(workers)
         /\ \A id \in Ids : Aborting(id)' => Aborting(id)
<1>1. AfterWait \in {"go", "wait"} /\ (AfterWait = "go" => AllReturned(workers))
  BY DEF AfterWait
<1>2. 0 \notin Ids
  BY DEF Ids
<1> QED  BY <1>1, <1>2 DEF GoInv, EndsOK, TypeOK, BeginAbort, Aborting, WaitStep, Closer

LEMMA ReadFailsStep ==
  ASSUME GoInv, ReadFails
  PROVE  GoInv'
<1>1. BeginAbort("reader", 0) /\ "reader" \in Closer
  BY DEF ReadFails, Closer
<1>2. TypeOK'
  BY <1>1, CloseBegins, CallTypes DEF GoInv, TypeOK, ReadFails, clientVars, channelVars
<1> QED  BY <1>1, <1>2, CloseBegins, CallStep DEF GoInv, EndsOK, ReadFails, clientVars, channelVars, workVars

LEMMA MainClosesStep ==
  ASSUME GoInv, MainCloses
  PROVE  GoInv'
<1>1. BeginAbort("main", 0) /\ "main" \in Closer
  BY DEF MainCloses, Closer
<1>2. TypeOK'
  BY <1>1, CloseBegins, CallTypes DEF GoInv, TypeOK, MainCloses, clientVars, channelVars
<1> QED  BY <1>1, <1>2, CloseBegins, CallStep DEF GoInv, EndsOK, MainCloses, clientVars, channelVars, workVars

\* The writer takes the first message.
LEMMA Taken ==
  ASSUME GoInv, WriterTakes
  PROVE  /\ outgoing' \in Seq(Msg) /\ Len(outgoing') <= Capacity
         /\ \A n \in DOMAIN outgoing' : outgoing'[n] \in posted
         /\ Head(outgoing) \in Msg /\ Head(outgoing) \in posted
<1>1. outgoing \in Seq(Msg) /\ Len(outgoing) <= Capacity /\ outgoing # <<>> /\ outgoing' = Tail(outgoing)
  BY DEF GoInv, TypeOK, WriterTakes
<1>2. Capacity \in Nat
  BY GoDispatcherAssumption
<1> HIDE DEF Msg
<1> QED  BY <1>1, <1>2, TailOne DEF GoInv, EndsOK

LEMMA WritesStep ==
  ASSUME GoInv, Writes
  PROVE  GoInv'
<1>1. WriterTakes
  BY DEF Writes
<1>2. toClient \in Seq(Msg) /\ \A n \in DOMAIN toClient : toClient[n] \in posted /\ IsEnd(toClient[n])
  BY DEF GoInv, TypeOK, EndsOK
<1>3. toClient' \in Seq(Msg) /\ \A n \in DOMAIN toClient' : toClient'[n] \in posted /\ IsEnd(toClient'[n])
  <2>1. CASE conn = "open" /\ IsEnd(Head(outgoing))
    <3>1. toClient' = Append(toClient, Head(outgoing))
      BY <2>1 DEF Writes
    <3> HIDE DEF Msg
    <3> QED  BY <1>1, <1>2, <2>1, <3>1, Taken, AppendOne
  <2>2. CASE ~(conn = "open" /\ IsEnd(Head(outgoing)))
    BY <1>2, <2>2 DEF Writes
  <2> QED  BY <2>1, <2>2
<1>4. TypeOK'
  BY <1>1, <1>3, Taken, CallTypes DEF GoInv, TypeOK, Writes, WriterTakes, clientVars, callVars
<1> QED
  BY <1>1, <1>3, <1>4, Taken, CallStep
  DEF GoInv, EndsOK, Writes, WriterTakes, clientVars, callVars, workVars, Aborting

LEMMA WriteFailsStep ==
  ASSUME GoInv, WriteFails
  PROVE  GoInv'
<1>1. WriterTakes /\ BeginAbort("writer", 0) /\ "writer" \in Closer
  BY DEF WriteFails, Closer
<1>2. TypeOK'
  BY <1>1, Taken, CloseBegins, CallTypes DEF GoInv, TypeOK, WriteFails, WriterTakes, clientVars
<1> QED
  BY <1>1, <1>2, Taken, CloseBegins, CallStep DEF GoInv, EndsOK, WriteFails, WriterTakes, clientVars, workVars

LEMMA ClientLeavesStep ==
  ASSUME GoInv, ClientLeaves
  PROVE  GoInv'
<1>1. TypeOK'
  BY CallTypes DEF GoInv, TypeOK, ClientLeaves, channelVars, callVars
<1> QED
  BY <1>1, CallStep DEF GoInv, EndsOK, ClientLeaves, channelVars, callVars, workVars, Aborting

-----------------------------------------------------------------------------
(* The client, and the reader, which handles what it sends.                *)

\* The client sends a message.
LEMMA Sent ==
  ASSUME TypeOK, NEW msg \in ClientMsg, toServer' = Append(toServer, msg)
  PROVE  \E new : /\ toServer' \in Seq(ClientMsg)
                  /\ DOMAIN toServer' = DOMAIN toServer \cup {new}
                  /\ toServer'[new] = msg
                  /\ new \notin DOMAIN toServer
                  /\ new \in Nat /\ DOMAIN toServer \subseteq Nat
                  /\ \A n \in DOMAIN toServer : toServer'[n] = toServer[n] /\ n < new
<1>1. toServer \in Seq(ClientMsg)
  BY DEF TypeOK
<1> HIDE DEF ClientMsg
<1> WITNESS Len(toServer) + 1
<1> QED  BY <1>1, AppendOne

LEMMA ClientMsgs ==
  /\ \A id \in Ids : \A count \in WorkerCounts : [op |-> "START", id |-> id, workers |-> count] \in ClientMsg
  /\ \A id \in Ids : [op |-> "ABORT", id |-> id] \in ClientMsg
  /\ \A msg \in ClientMsg : /\ msg.op \in {"START", "ABORT"} /\ msg.id \in Ids
                            /\ msg.op = "START" => msg.workers \in WorkerCounts
BY DEF ClientMsg

LEMMA ClientStartStep ==
  ASSUME GoInv, NEW count \in WorkerCounts, ClientStart(count)
  PROVE  GoInv'
<1> DEFINE next == lastId + 1
           msg == [op |-> "START", id |-> next, workers |-> count]
<1>1. /\ client = "waiting" /\ client' = "calculating"
      /\ lastId' = next /\ toServer' = Append(toServer, msg) /\ UNCHANGED serverVars
  BY DEF ClientStart
<1>2. lastId \in Nat /\ MaxCalc \in Nat /\ lastId < MaxCalc
  BY GoDispatcherAssumption DEF GoInv, TypeOK, ClientStart
<1>3. next \in Ids /\ next \in Nat /\ \A id \in Ids : id \in Nat /\ (id <= next <=> id <= lastId \/ id = next)
                                   /\ (id <= lastId => id # next)
                                   /\ (id < next <=> id <= lastId)
                                   /\ (id <= lastId <=> id < lastId \/ id = lastId)
  BY <1>2 DEF Ids
<1>4. msg \in ClientMsg /\ msg.op = "START" /\ msg.id = next
  BY <1>3, ClientMsgs
<1> HIDE DEF msg, next
<1>5. PICK new : /\ toServer' \in Seq(ClientMsg)
                 /\ DOMAIN toServer' = DOMAIN toServer \cup {new}
                 /\ toServer'[new] = msg
                 /\ new \notin DOMAIN toServer
                 /\ new \in Nat /\ DOMAIN toServer \subseteq Nat
                 /\ \A n \in DOMAIN toServer : toServer'[n] = toServer[n] /\ n < new
  BY <1>1, <1>4, Sent DEF GoInv
<1>6. UNCHANGED <<workVars, posted, outgoing, toClient, pc, abortId>>
  BY <1>1 DEF serverVars, channelVars, callVars
<1>7. \A id \in Ids : id <= lastId => Ended(id) /\ Started(id)
  BY <1>1, <1>3 DEF GoInv, EndsOK
<1>8. \A n \in DOMAIN toServer : toServer[n].op # "START"
  <2> SUFFICES ASSUME NEW n \in DOMAIN toServer, toServer[n].op = "START"
               PROVE  FALSE
    OBVIOUS
  <2>1. toServer[n].id \in Ids
    BY ClientMsgs DEF GoInv, TypeOK
  <2>2. toServer[n].id = lastId
    BY DEF GoInv, RequestsOK
  <2>3. lastId \in Ids /\ lastId <= lastId /\ IsStart(toServer[n], lastId)
    BY <1>2, <2>1, <2>2 DEF IsStart
  <2> QED  BY <1>7, <2>3 DEF GoInv, RequestsOK
<1>9. \A m, id : /\ IsStart(m, id) <=> m.op = "START" /\ m.id = id
                 /\ IsAbort(m, id) <=> m.op = "ABORT" /\ m.id = id
  BY DEF IsStart, IsAbort
<1>10. ~Started(next)
  BY <1>2, <1>3 DEF GoInv, RequestsOK
<1>11. \A n \in DOMAIN toServer' :
          /\ toServer'[n].op = "START" <=> n = new
          /\ \A id \in Ids : /\ IsStart(toServer'[n], id) <=> n = new /\ id = next
                             /\ IsAbort(toServer'[n], id) <=> n \in DOMAIN toServer /\ IsAbort(toServer[n], id)
  <2> SUFFICES ASSUME NEW n \in DOMAIN toServer'
               PROVE  /\ toServer'[n].op = "START" <=> n = new
                      /\ \A id \in Ids : /\ IsStart(toServer'[n], id) <=> n = new /\ id = next
                                         /\ IsAbort(toServer'[n], id) <=> n \in DOMAIN toServer /\ IsAbort(toServer[n], id)
    OBVIOUS
  <2>1. CASE n = new
    BY <1>4, <1>5, <1>9, <2>1
  <2>2. CASE n # new
    BY <1>5, <1>8, <1>9, <2>2
  <2> QED  BY <2>1, <2>2
<1>12. TypeOK'
  <2>1. next \in 0..MaxCalc
    BY <1>2 DEF next
  <2> QED  BY <1>1, <1>5, <1>6, <2>1, CallTypes DEF GoInv, TypeOK, serverVars, channelVars, callVars
<1>13. RequestsOK'
  <2>1. ASSUME NEW id \in Ids
        PROVE  Started(id)' <=> id <= lastId' /\ \A n \in DOMAIN toServer' : ~IsStart(toServer'[n], id)
    <3>1. Started(id)' <=> Started(id)
      BY <1>6, NoWork
    <3>2. Started(id) => id <= lastId
      BY DEF GoInv, RequestsOK
    <3>3. (\A n \in DOMAIN toServer' : ~IsStart(toServer'[n], id)) <=> id # next
      BY <1>5, <1>11
    <3>4. id <= next <=> id <= lastId \/ id = next
      BY <1>3
    <3>5. id <= lastId => id # next
      BY <1>3
    <3> QED  BY <1>1, <1>7, <1>10, <3>1, <3>2, <3>3, <3>4, <3>5
  <2>2. \A n \in DOMAIN toServer' : toServer'[n].op = "START" => toServer'[n].id = lastId'
    BY <1>1, <1>4, <1>5, <1>11
  <2>3. \A m, n \in DOMAIN toServer' : toServer'[m].op = "START" /\ toServer'[n].op = "START" => m = n
    BY <1>11
  <2>4. ASSUME NEW n \in DOMAIN toServer', NEW id \in Ids, IsAbort(toServer'[n], id)
        PROVE  id <= lastId' /\ (Started(id)' \/ \E m \in DOMAIN toServer' : m < n /\ IsStart(toServer'[m], id))
    <3>1. id <= lastId
      BY <1>11, <2>4 DEF GoInv, RequestsOK
    <3> QED  BY <1>1, <1>3, <1>6, <1>7, <3>1, NoWork
  <2> QED  BY <2>1, <2>2, <2>3, <2>4 DEF RequestsOK
<1>14. AbortsOK'
  <2>1. \A id \in Ids : /\ Aborting(id)' <=> Aborting(id)
                        /\ EndMsg("ABORTED", id) \in posted' <=> EndMsg("ABORTED", id) \in posted
                        /\ Started(id)' <=> Started(id)
    BY <1>6, NoWork DEF Aborting
  <2>2. /\ lastId' \in Ids
        /\ \A n \in DOMAIN toServer' : ~IsAbort(toServer'[n], next)
        /\ ~Aborting(next) /\ EndMsg("ABORTED", next) \notin posted
    <3>1. \A n \in DOMAIN toServer : IsAbort(toServer[n], next) => next <= lastId
      BY <1>3 DEF GoInv, RequestsOK
    <3>2. ~(next <= lastId)
      BY <1>3
    <3>3. next \in Ids
      BY <1>3
    <3>4. ~Aborting(next)
      BY <1>10, <3>3 DEF GoInv, AbortsOK
    <3>5. EndMsg("ABORTED", next) \notin posted
      BY <1>10, <3>3 DEF GoInv, EndsOK, Ended
    <3>6. \A n \in DOMAIN toServer' : ~IsAbort(toServer'[n], next)
      BY <1>11, <3>1, <3>2, <3>3
    <3> QED  BY <1>1, <3>3, <3>4, <3>5, <3>6
  <2>3. \A n \in DOMAIN toServer' : ~IsAbort(toServer'[n], lastId')
    BY <1>1, <2>2
  <2>4. ~Aborting(lastId)' /\ EndMsg("ABORTED", lastId') \notin posted'
    BY <1>1, <1>6, <2>1, <2>2 DEF Aborting
  <2>5. \A m, n \in DOMAIN toServer' : \A id \in Ids : IsAbort(toServer'[m], id) /\ IsAbort(toServer'[n], id) => m = n
    BY <1>11 DEF GoInv, AbortsOK
  <2>6. \A n \in DOMAIN toServer' : \A id \in Ids : IsAbort(toServer'[n], id) =>
            ~Aborting(id)' /\ EndMsg("ABORTED", id) \notin posted'
    BY <1>11, <2>1 DEF GoInv, AbortsOK
  <2>7. \A id \in Ids : Aborting(id)' => Started(id)' /\ EndMsg("ABORTED", id) \notin posted'
    BY <2>1 DEF GoInv, AbortsOK
  <2> QED  BY <2>2, <2>3, <2>4, <2>5, <2>6, <2>7 DEF AbortsOK
<1>15. EndsOK'
  <2>1. \A id \in Ids : id < lastId' => Ended(id)'
    BY <1>1, <1>3, <1>6, <1>7, NoWork
  <2> QED  BY <1>1, <1>6, <2>1, NoWork DEF GoInv, EndsOK, workVars
<1> QED  BY <1>6, <1>12, <1>13, <1>14, <1>15, NoWork DEF GoInv

LEMMA ClientAbortStep ==
  ASSUME GoInv, ClientAbort
  PROVE  GoInv'
<1> DEFINE msg == [op |-> "ABORT", id |-> lastId]
<1>1. /\ client = "calculating" /\ client' = "aborting"
      /\ toServer' = Append(toServer, msg) /\ UNCHANGED <<lastId, serverVars>>
  BY DEF ClientAbort
<1>2. /\ lastId \in Ids /\ ~Aborting(lastId) /\ EndMsg("ABORTED", lastId) \notin posted
      /\ \A n \in DOMAIN toServer : ~IsAbort(toServer[n], lastId)
  BY <1>1 DEF GoInv, AbortsOK
<1>3. lastId \in Nat /\ lastId <= lastId
  BY GoDispatcherAssumption DEF GoInv, TypeOK
<1>4. msg \in ClientMsg /\ msg.op = "ABORT" /\ msg.id = lastId
  BY <1>2, ClientMsgs
<1> HIDE DEF msg
<1>5. PICK new : /\ toServer' \in Seq(ClientMsg)
                 /\ DOMAIN toServer' = DOMAIN toServer \cup {new}
                 /\ toServer'[new] = msg
                 /\ new \notin DOMAIN toServer
                 /\ new \in Nat /\ DOMAIN toServer \subseteq Nat
                 /\ \A n \in DOMAIN toServer : toServer'[n] = toServer[n] /\ n < new
  BY <1>1, <1>4, Sent DEF GoInv
<1>6. UNCHANGED <<lastId, workVars, posted, outgoing, toClient, pc, abortId>>
  BY <1>1 DEF serverVars, channelVars, callVars
<1>7. ASSUME NEW n \in DOMAIN toServer'
      PROVE  /\ toServer'[n].op = "START" <=> n \in DOMAIN toServer /\ toServer[n].op = "START"
             /\ \A id \in Ids :
                   /\ IsStart(toServer'[n], id) <=> n \in DOMAIN toServer /\ IsStart(toServer[n], id)
                   /\ IsAbort(toServer'[n], id) <=> \/ n \in DOMAIN toServer /\ IsAbort(toServer[n], id)
                                                    \/ n = new /\ id = lastId
  <2>1. CASE n = new
    BY <1>4, <1>5, <2>1 DEF IsStart, IsAbort
  <2>2. CASE n # new
    BY <1>5, <2>2 DEF IsStart, IsAbort
  <2> QED  BY <2>1, <2>2
<1>8. TypeOK'
  BY <1>1, <1>5, <1>6, CallTypes DEF GoInv, TypeOK, serverVars, channelVars, callVars
<1>9. RequestsOK'
  <2>1. ASSUME NEW id \in Ids
        PROVE  Started(id)' <=> id <= lastId' /\ \A n \in DOMAIN toServer' : ~IsStart(toServer'[n], id)
    <3>1. Started(id)' <=> Started(id)
      BY <1>6, NoWork
    <3>2. (\A n \in DOMAIN toServer' : ~IsStart(toServer'[n], id))
              <=> \A n \in DOMAIN toServer : ~IsStart(toServer[n], id)
      BY <1>5, <1>7
    <3> QED  BY <1>6, <3>1, <3>2 DEF GoInv, RequestsOK
  <2>2. \A n \in DOMAIN toServer' : toServer'[n].op = "START" => toServer'[n].id = lastId'
    BY <1>5, <1>6, <1>7 DEF GoInv, RequestsOK
  <2>3. \A m, n \in DOMAIN toServer' : toServer'[m].op = "START" /\ toServer'[n].op = "START" => m = n
    BY <1>7 DEF GoInv, RequestsOK
  <2>4. ASSUME NEW n \in DOMAIN toServer', NEW id \in Ids, IsAbort(toServer'[n], id)
        PROVE  id <= lastId' /\ (Started(id)' \/ \E m \in DOMAIN toServer' : m < n /\ IsStart(toServer'[m], id))
    <3>1. Started(id)' <=> Started(id)
      BY <1>6, NoWork
    <3>2. CASE n \in DOMAIN toServer /\ IsAbort(toServer[n], id)
      <4>1. id <= lastId /\ (Started(id) \/ \E m \in DOMAIN toServer : m < n /\ IsStart(toServer[m], id))
        BY <3>2 DEF GoInv, RequestsOK
      <4> QED  BY <1>5, <1>6, <3>1, <4>1
    <3>3. CASE n = new /\ id = lastId
      <4>1. Started(id) \/ \E m \in DOMAIN toServer : IsStart(toServer[m], id)
        BY <1>3, <3>3 DEF GoInv, RequestsOK
      <4> QED  BY <1>3, <1>5, <1>6, <3>1, <3>3, <4>1
    <3> QED  BY <1>7, <2>4, <3>2, <3>3
  <2> QED  BY <2>1, <2>2, <2>3, <2>4 DEF RequestsOK
<1>10. AbortsOK'
  <2>1. \A id \in Ids : /\ Aborting(id)' <=> Aborting(id)
                        /\ EndMsg("ABORTED", id) \in posted' <=> EndMsg("ABORTED", id) \in posted
                        /\ Started(id)' <=> Started(id)
    BY <1>6, NoWork DEF Aborting
  <2>2. \A m, n \in DOMAIN toServer' : \A id \in Ids :
            IsAbort(toServer'[m], id) /\ IsAbort(toServer'[n], id) => m = n
    BY <1>2, <1>7 DEF GoInv, AbortsOK
  <2>3. \A n \in DOMAIN toServer' : \A id \in Ids : IsAbort(toServer'[n], id) =>
            ~Aborting(id)' /\ EndMsg("ABORTED", id) \notin posted'
    BY <1>2, <1>7, <2>1 DEF GoInv, AbortsOK
  <2>4. \A id \in Ids : Aborting(id)' => Started(id)' /\ EndMsg("ABORTED", id) \notin posted'
    BY <2>1 DEF GoInv, AbortsOK
  <2> QED  BY <1>1, <2>2, <2>3, <2>4 DEF AbortsOK
<1>11. EndsOK'
  BY <1>1, <1>6, NoWork DEF GoInv, EndsOK, workVars
<1> QED  BY <1>6, <1>8, <1>9, <1>10, <1>11, NoWork DEF GoInv

LEMMA ClientReceiveStep ==
  ASSUME GoInv, ClientReceive
  PROVE  GoInv'
<1>1. UNCHANGED <<lastId, toServer, workVars, posted, outgoing, pc, abortId>>
  BY DEF ClientReceive, channelVars, callVars
<1>2. /\ toClient \in Seq(Msg) /\ toClient # <<>> /\ toClient' = Tail(toClient)
      /\ \A n \in DOMAIN toClient : toClient[n] \in posted /\ IsEnd(toClient[n])
  BY DEF GoInv, TypeOK, EndsOK, ClientReceive
<1>3. /\ toClient' \in Seq(Msg)
      /\ \A n \in DOMAIN toClient' : toClient'[n] \in posted /\ IsEnd(toClient'[n])
      /\ Head(toClient) \in Msg /\ Head(toClient) \in posted /\ IsEnd(Head(toClient))
  <2> HIDE DEF Msg
  <2> QED  BY <1>2, TailOne
<1>4. Ended(Head(toClient).id)
  BY <1>3, MsgKinds DEF Ended, EndOps
<1>5. client' = "waiting" => client = "waiting" \/ Ended(lastId)
  BY <1>4 DEF ClientReceive
<1>6. client' \in {"waiting", client}
  BY DEF ClientReceive
<1>7. TypeOK'
  BY <1>1, <1>3, <1>6, CallTypes DEF GoInv, TypeOK, ClientReceive, callVars, channelVars
<1>8. RequestsOK'
  BY <1>1, NoWork, SameRequests
<1>9. AbortsOK'
  BY <1>1, <1>6, NoWork, SameAborts DEF Aborting
<1>10. EndsOK'
  BY <1>1, <1>3, <1>5, NoWork DEF GoInv, EndsOK, workVars
<1> QED  BY <1>1, <1>7, <1>8, <1>9, <1>10, NoWork DEF GoInv

\* The reader takes a message: what is left is one place further to the front.
LEMMA Taking1 ==
  ASSUME TypeOK, NEW op, Reads(op)
  PROVE  /\ toServer' \in Seq(ClientMsg)
         /\ Head(toServer) = toServer[1] /\ toServer[1] \in ClientMsg /\ toServer[1].op = op
         /\ 1 \in DOMAIN toServer
         /\ DOMAIN toServer \subseteq Nat /\ DOMAIN toServer' \subseteq Nat
         /\ \A n \in DOMAIN toServer' :
               /\ n + 1 \in DOMAIN toServer /\ toServer'[n] = toServer[n + 1] /\ n + 1 # 1
         /\ \A n \in DOMAIN toServer : n # 1 =>
               \E k \in DOMAIN toServer' : n = k + 1
         /\ \A m, n \in DOMAIN toServer' : m + 1 = n + 1 => m = n
<1>1. toServer \in Seq(ClientMsg) /\ toServer # <<>> /\ toServer' = Tail(toServer)
      /\ Head(toServer).op = op
  BY DEF TypeOK, Reads
<1> HIDE DEF ClientMsg
<1>2. /\ toServer' \in Seq(ClientMsg)
      /\ Head(toServer) = toServer[1] /\ toServer[1] \in ClientMsg
      /\ 1 \in DOMAIN toServer
      /\ Len(toServer) \in Nat \ {0}
      /\ DOMAIN toServer = 1 .. Len(toServer) /\ DOMAIN toServer' = 1 .. Len(toServer) - 1
      /\ \A n \in DOMAIN toServer' : n + 1 \in DOMAIN toServer /\ toServer'[n] = toServer[n + 1]
  BY <1>1, TailOne
<1>3. ASSUME NEW n \in DOMAIN toServer, n # 1
      PROVE  \E k \in DOMAIN toServer' : n = k + 1
  <2>1. n - 1 \in DOMAIN toServer' /\ n = (n - 1) + 1
    BY <1>2, <1>3
  <2> QED  BY <2>1
<1> QED  BY <1>1, <1>2, <1>3

LEMMA OnAbortStep ==
  ASSUME GoInv, OnAbort
  PROVE  GoInv'
<1> DEFINE a == toServer[1].id
<1>1. Reads("ABORT") /\ BeginAbort("reader", Head(toServer).id)
      /\ UNCHANGED <<clientVars, toClient, conn, channelVars, workVars, panicked>>
  BY DEF OnAbort
<1>2. /\ toServer' \in Seq(ClientMsg)
      /\ Head(toServer) = toServer[1] /\ toServer[1] \in ClientMsg /\ toServer[1].op = "ABORT"
      /\ 1 \in DOMAIN toServer
      /\ DOMAIN toServer \subseteq Nat /\ DOMAIN toServer' \subseteq Nat
      /\ \A n \in DOMAIN toServer' :
            /\ n + 1 \in DOMAIN toServer /\ toServer'[n] = toServer[n + 1] /\ n + 1 # 1
      /\ \A n \in DOMAIN toServer : n # 1 =>
            \E k \in DOMAIN toServer' : n = k + 1
      /\ \A m, n \in DOMAIN toServer' : m + 1 = n + 1 => m = n
  BY <1>1, Taking1 DEF GoInv
<1>3. a \in Ids /\ IsAbort(toServer[1], a) /\ \A id : ~IsStart(toServer[1], id)
  BY <1>2, ClientMsgs DEF IsAbort, IsStart
<1>4. /\ pc["reader"] = "run" /\ pc' = [pc EXCEPT !["reader"] = AfterWait]
      /\ abortId' = a /\ aborting' = TRUE
  BY <1>1, <1>2 DEF BeginAbort, Reads
<1>5. AfterWait \in {"go", "wait"} /\ (AfterWait = "go" => AllReturned(workers))
  BY DEF AfterWait
<1>6. pc \in [Closer -> {"run", "close", "exited"} \cup WaitStep]
  BY DEF GoInv, TypeOK
<1>7. pc'["reader"] = AfterWait /\ pc' \in [Closer -> {"run", "close", "exited"} \cup WaitStep]
  BY <1>4, <1>5, <1>6 DEF Closer, WaitStep
<1>8. UNCHANGED <<client, lastId, toClient, outgoing, posted, workVars>>
  BY <1>1 DEF clientVars, channelVars
<1>9. \A id \in Ids : /\ ~Aborting(id)
                      /\ Aborting(id)' <=> id = a
  BY <1>3, <1>4, <1>5, <1>7 DEF Aborting, WaitStep
<1>10. Started(a) /\ EndMsg("ABORTED", a) \notin posted
  <2>1. EndMsg("ABORTED", a) \notin posted
    BY <1>2, <1>3 DEF GoInv, AbortsOK
  <2>2. Started(a) \/ \E m \in DOMAIN toServer : m < 1 /\ IsStart(toServer[m], a)
    BY <1>2, <1>3 DEF GoInv, RequestsOK
  <2>3. \A m \in DOMAIN toServer : ~(m < 1)
    BY DEF GoInv, TypeOK
  <2> QED  BY <2>1, <2>2, <2>3
<1>11. TypeOK'
  BY <1>1, <1>2, <1>3, <1>4, <1>7, CallTypes DEF GoInv, TypeOK, clientVars, channelVars
<1> HIDE DEF a
<1>12. RequestsOK'
  <2>1. ASSUME NEW id \in Ids
        PROVE  Started(id)' <=> id <= lastId' /\ \A n \in DOMAIN toServer' : ~IsStart(toServer'[n], id)
    <3>1. (\A n \in DOMAIN toServer' : ~IsStart(toServer'[n], id))
              <=> \A n \in DOMAIN toServer : ~IsStart(toServer[n], id)
      BY <1>2, <1>3
    <3>2. Started(id)' <=> Started(id)
      BY <1>8, NoWork
    <3> QED  BY <1>8, <3>1, <3>2 DEF GoInv, RequestsOK
  <2>2. \A n \in DOMAIN toServer' : toServer'[n].op = "START" => toServer'[n].id = lastId'
    BY <1>2, <1>8 DEF GoInv, RequestsOK
  <2>3. \A m, n \in DOMAIN toServer' : toServer'[m].op = "START" /\ toServer'[n].op = "START" => m = n
    BY <1>2 DEF GoInv, RequestsOK
  <2>4. ASSUME NEW n \in DOMAIN toServer', NEW id \in Ids, IsAbort(toServer'[n], id)
        PROVE  id <= lastId' /\ (Started(id)' \/ \E m \in DOMAIN toServer' : m < n /\ IsStart(toServer'[m], id))
    <3> DEFINE n1 == n + 1
    <3>1. n1 \in DOMAIN toServer /\ IsAbort(toServer[n1], id) /\ n \in Nat
      BY <1>2, <2>4
    <3>2. id <= lastId /\ (Started(id) \/ \E m \in DOMAIN toServer : m < n1 /\ IsStart(toServer[m], id))
      BY <3>1 DEF GoInv, RequestsOK
    <3>3. ASSUME NEW m \in DOMAIN toServer, m < n1, IsStart(toServer[m], id)
          PROVE  \E k \in DOMAIN toServer' : k < n /\ IsStart(toServer'[k], id)
      <4>1. PICK k \in DOMAIN toServer' : m = k + 1
        BY <1>2, <1>3, <3>3
      <4>2. k \in Nat /\ toServer'[k] = toServer[m]
        BY <1>2, <4>1
      <4> QED  BY <3>1, <3>3, <4>1, <4>2
    <3> QED  BY <1>8, <3>2, <3>3, NoWork
  <2> QED  BY <2>1, <2>2, <2>3, <2>4 DEF RequestsOK
<1>13. AbortsOK'
  <2>1. \A id \in Ids : /\ EndMsg("ABORTED", id) \in posted' <=> EndMsg("ABORTED", id) \in posted
                        /\ Started(id)' <=> Started(id)
    BY <1>8, NoWork
  <2>2. \A m, n \in DOMAIN toServer' : \A id \in Ids :
            IsAbort(toServer'[m], id) /\ IsAbort(toServer'[n], id) => m = n
    BY <1>2 DEF GoInv, AbortsOK
  <2>3. ASSUME NEW n \in DOMAIN toServer', NEW id \in Ids, IsAbort(toServer'[n], id)
        PROVE  ~Aborting(id)' /\ EndMsg("ABORTED", id) \notin posted'
    <3> DEFINE n1 == n + 1
    <3>1. n1 \in DOMAIN toServer /\ IsAbort(toServer[n1], id) /\ n1 # 1
      BY <1>2, <2>3
    <3>2. id # a
      BY <1>2, <1>3, <3>1 DEF GoInv, AbortsOK
    <3> QED  BY <1>9, <2>1, <3>1, <3>2 DEF GoInv, AbortsOK
  <2>4. \A id \in Ids : Aborting(id)' => Started(id)' /\ EndMsg("ABORTED", id) \notin posted'
    BY <1>9, <1>10, <2>1
  <2>5. ASSUME client' = "calculating"
        PROVE  /\ lastId' \in Ids
               /\ \A n \in DOMAIN toServer' : ~IsAbort(toServer'[n], lastId')
               /\ ~Aborting(lastId)' /\ EndMsg("ABORTED", lastId') \notin posted'
    <3>1. /\ lastId \in Ids /\ EndMsg("ABORTED", lastId) \notin posted
          /\ \A n \in DOMAIN toServer : ~IsAbort(toServer[n], lastId)
      BY <1>8, <2>5 DEF GoInv, AbortsOK
    <3>2. lastId # a
      BY <1>2, <1>3, <3>1
    <3>3. ~Aborting(lastId)'
      BY <1>4, <1>8, <3>2 DEF Aborting
    <3> QED  BY <1>2, <1>8, <3>1, <3>3
  <2> QED  BY <2>2, <2>3, <2>4, <2>5 DEF AbortsOK
<1>14. EndsOK'
  BY <1>5, <1>7, <1>8, NoWork DEF GoInv, EndsOK, workVars
<1> QED  BY <1>8, <1>11, <1>12, <1>13, <1>14, NoWork DEF GoInv

\* When a START is on its way no worker is left.
LEMMA NoneLeft ==
  ASSUME GoInv, NEW n \in DOMAIN toServer, toServer[n].op = "START"
  PROVE  AllReturned(workers)
<1>1. toServer[n].id = lastId /\ IsStart(toServer[n], lastId)
  BY DEF GoInv, RequestsOK, IsStart
<1>2. ASSUME NEW id \in Ids
      PROVE  Quiet(id)
  <2>1. CASE ~Started(id)
    BY <2>1 DEF GoInv, BlocksOK, Quiet
  <2>2. CASE Started(id)
    <3>1. id <= lastId /\ id # lastId
      BY <1>1, <2>2 DEF GoInv, RequestsOK
    <3>2. id < lastId
      BY <3>1, GoDispatcherAssumption DEF GoInv, TypeOK, Ids
    <3> QED  BY <3>2 DEF GoInv, EndsOK
  <2> QED  BY <2>1, <2>2
<1> QED  BY <1>2 DEF AllReturned, Quiet

\* The blocks of a calculation, in order.
LEMMA InOrder ==
  ASSUME NEW n \in Nat
  PROVE  LET q == [k \in 1..n |-> k] IN
         q \in Seq(1..n) /\ Len(q) = n /\ DOMAIN q = 1..n /\ \A k \in 1..n : q[k] = k
OBVIOUS

\* A new calculation finds nothing of an earlier one.
LEMMA OnStartStep ==
  ASSUME GoInv, OnStart
  PROVE  GoInv' /\ AllReturned(workers)
<1>1. Reads("START") /\ UNCHANGED <<clientVars, toClient, conn, channelVars, callVars, panicked>>
  BY DEF OnStart
<1>2. /\ toServer' \in Seq(ClientMsg)
      /\ Head(toServer) = toServer[1] /\ toServer[1] \in ClientMsg /\ toServer[1].op = "START"
      /\ 1 \in DOMAIN toServer
      /\ DOMAIN toServer \subseteq Nat /\ DOMAIN toServer' \subseteq Nat
      /\ \A n \in DOMAIN toServer' :
            /\ n + 1 \in DOMAIN toServer /\ toServer'[n] = toServer[n + 1] /\ n + 1 # 1
      /\ \A n \in DOMAIN toServer : n # 1 =>
            \E k \in DOMAIN toServer' : n = k + 1
      /\ \A m, n \in DOMAIN toServer' : m + 1 = n + 1 => m = n
  BY <1>1, Taking1 DEF GoInv
<1>3. PICK s \in Ids, count \in WorkerCounts :
         /\ s = toServer[1].id /\ count = toServer[1].workers
         /\ IsStart(toServer[1], s) /\ \A id : ~IsAbort(toServer[1], id)
  BY <1>2, ClientMsgs DEF IsAbort, IsStart
<1>4. s = lastId /\ ~Started(s)
  BY <1>2, <1>3 DEF GoInv, RequestsOK
<1>5. /\ blocks' = [blocks EXCEPT ![s] = AllBlocks(s)]
      /\ completed' = [completed EXCEPT ![s] = 0]
      /\ workers' = [workers EXCEPT ![s] = [i \in 1..count |-> Taking]]
      /\ completion' = [completion EXCEPT ![s] = "new"]
  BY <1>2, <1>3 DEF OnStart
<1>6. UNCHANGED <<client, lastId, toClient, outgoing, posted, pc, abortId>> /\ pc["reader"] = "run"
  BY <1>1 DEF clientVars, channelVars, callVars, Reads
<1>7. \A n \in DOMAIN toServer' : \A id : ~IsStart(toServer'[n], id)
  <2> SUFFICES ASSUME NEW n \in DOMAIN toServer', toServer'[n].op = "START"
               PROVE  FALSE
    BY DEF IsStart
  <2> QED  BY <1>2 DEF GoInv, RequestsOK
<1>8. /\ DOMAIN workers = Ids /\ DOMAIN blocks = Ids /\ DOMAIN completed = Ids /\ DOMAIN completion = Ids
      /\ \A id \in Ids : workers[id] \in Seq(WorkerState(id)) /\ blocks[id] \in Seq(Blocks(id))
      /\ completed \in [Ids -> Nat] /\ \A id \in Ids : completed[id] <= NumBlocks[id]
      /\ completion \in [Ids -> {"none", "new", "done"} \cup WaitStep]
  BY DEF GoInv, TypeOK
<1>9. count \in Nat \ {0} /\ NumBlocks[s] \in Nat \ {0}
  BY <1>3, GoDispatcherAssumption DEF Ids
<1>10. /\ AllBlocks(s) \in Seq(Blocks(s)) /\ Len(AllBlocks(s)) = NumBlocks[s]
       /\ DOMAIN AllBlocks(s) = Blocks(s)
       /\ \A n \in Blocks(s) : AllBlocks(s)[n] = n
  BY <1>9, InOrder DEF AllBlocks, Blocks
<1>11. /\ [i \in 1..count |-> Taking] \in Seq(WorkerState(s))
       /\ DOMAIN [i \in 1..count |-> Taking] = 1..count
       /\ \A i \in 1..count : [j \in 1..count |-> Taking][i] = Taking
  <2>1. Taking \in WorkerState(s)
    BY DEF WorkerState
  <2> QED  BY <1>9, <2>1
<1>12. /\ workers'[s] = [i \in 1..count |-> Taking] /\ blocks'[s] = AllBlocks(s)
       /\ completed'[s] = 0 /\ completion'[s] = "new"
       /\ \A id \in Ids : id # s =>
             /\ workers'[id] = workers[id] /\ blocks'[id] = blocks[id]
             /\ completed'[id] = completed[id] /\ completion'[id] = completion[id]
  BY <1>3, <1>5, <1>8
<1>13. TypeOK'
  <2>1. DOMAIN workers' = Ids /\ DOMAIN blocks' = Ids
    BY <1>5, <1>8
  <2>2. \A id \in Ids : workers'[id] \in Seq(WorkerState(id)) /\ blocks'[id] \in Seq(Blocks(id))
    BY <1>8, <1>10, <1>11, <1>12
  <2>3. completed' \in [Ids -> Nat] /\ \A id \in Ids : completed'[id] <= NumBlocks[id]
    BY <1>3, <1>5, <1>8, <1>9, <1>12
  <2>4. completion' \in [Ids -> {"none", "new", "done"} \cup WaitStep]
    BY <1>3, <1>5, <1>8
  <2>5. UNCHANGED <<client, lastId, toClient, conn, outgoing, posted, aborting, pc, abortId, panicked>>
    BY <1>1 DEF clientVars, channelVars, callVars
  <2> QED  BY <1>2, <2>1, <2>2, <2>3, <2>4, <2>5 DEF GoInv, TypeOK
<1>14. \A id \in Ids : /\ Started(id)' <=> Started(id) \/ id = s
                       /\ Ended(id)' <=> Ended(id)
                       /\ Ended(id) => Started(id) /\ Quiet(id) /\ id # s
                       /\ id # s => (Quiet(id)' <=> Quiet(id))
  BY <1>3, <1>4, <1>6, <1>12 DEF GoInv, EndsOK, Started, Ended, Quiet
<1>15. AllReturned(workers)
  BY <1>2, NoneLeft
<1>16. RequestsOK'
  <2>1. ASSUME NEW id \in Ids
        PROVE  Started(id)' <=> id <= lastId' /\ \A n \in DOMAIN toServer' : ~IsStart(toServer'[n], id)
    <3>1. CASE id = s
      <4>1. s <= lastId
        BY <1>3, <1>4, GoDispatcherAssumption DEF Ids
      <4> QED  BY <1>6, <1>7, <1>14, <3>1, <4>1
    <3>2. CASE id # s
      <4>1. \A n \in DOMAIN toServer : ~IsStart(toServer[n], id)
        BY <1>4, <3>2 DEF GoInv, RequestsOK, IsStart
      <4> QED  BY <1>6, <1>7, <1>14, <3>2, <4>1 DEF GoInv, RequestsOK
    <3> QED  BY <3>1, <3>2
  <2>2. \A n \in DOMAIN toServer' : toServer'[n].op # "START"
    BY <1>7 DEF IsStart
  <2>3. ASSUME NEW n \in DOMAIN toServer', NEW id \in Ids, IsAbort(toServer'[n], id)
        PROVE  id <= lastId' /\ Started(id)'
    <3> DEFINE n1 == n + 1
    <3>1. n1 \in DOMAIN toServer /\ IsAbort(toServer[n1], id)
      BY <1>2, <2>3
    <3>2. id <= lastId /\ (Started(id) \/ \E m \in DOMAIN toServer : IsStart(toServer[m], id))
      BY <3>1 DEF GoInv, RequestsOK
    <3>3. (\E m \in DOMAIN toServer : IsStart(toServer[m], id)) => id = s
      BY <1>4 DEF GoInv, RequestsOK, IsStart
    <3> QED  BY <1>6, <1>14, <3>2, <3>3
  <2> QED  BY <2>1, <2>2, <2>3 DEF RequestsOK
<1>17. AbortsOK'
  <2>1. \A id \in Ids : /\ Aborting(id)' <=> Aborting(id)
                        /\ Started(id) => Started(id)'
    BY <1>6, <1>14 DEF Aborting
  <2>2. \A m, n \in DOMAIN toServer' : \A id \in Ids :
            IsAbort(toServer'[m], id) /\ IsAbort(toServer'[n], id) => m = n
    BY <1>2 DEF GoInv, AbortsOK
  <2>3. ASSUME NEW n \in DOMAIN toServer', NEW id \in Ids, IsAbort(toServer'[n], id)
        PROVE  ~Aborting(id)' /\ EndMsg("ABORTED", id) \notin posted'
    <3> DEFINE n1 == n + 1
    <3>1. n1 \in DOMAIN toServer /\ IsAbort(toServer[n1], id)
      BY <1>2, <2>3
    <3> QED  BY <1>6, <2>1, <3>1 DEF GoInv, AbortsOK
  <2>4. \A id \in Ids : Aborting(id)' => Started(id)' /\ EndMsg("ABORTED", id) \notin posted'
    BY <1>6, <2>1 DEF GoInv, AbortsOK
  <2>5. ASSUME client' = "calculating"
        PROVE  /\ lastId' \in Ids
               /\ \A n \in DOMAIN toServer' : ~IsAbort(toServer'[n], lastId')
               /\ ~Aborting(lastId)' /\ EndMsg("ABORTED", lastId') \notin posted'
    <3>1. /\ lastId \in Ids /\ EndMsg("ABORTED", lastId) \notin posted /\ ~Aborting(lastId)
          /\ \A n \in DOMAIN toServer : ~IsAbort(toServer[n], lastId)
      BY <1>6, <2>5 DEF GoInv, AbortsOK
    <3> QED  BY <1>2, <1>6, <2>1, <3>1
  <2> QED  BY <2>2, <2>3, <2>4, <2>5 DEF AbortsOK
<1>18. EndsOK'
  <2>1. \A id \in Ids : completion'[id] \in {"go", "done"} => id # s /\ completion[id] \in {"go", "done"}
    BY <1>12
  <2>2. \A id \in Ids : EndMsg("COMPLETED", id) \in posted =>
            id # s /\ completion'[id] = "done" /\ completed'[id] = NumBlocks[id]
    BY <1>12, <1>14 DEF Ended, GoInv, EndsOK
  <2>3. \A id \in Ids : /\ Ended(id)' => Started(id)' /\ Quiet(id)'
                        /\ completion'[id] \in {"go", "done"} => Quiet(id)'
    BY <1>14, <2>1 DEF GoInv, EndsOK
  <2>4. pc'["reader"] # "go"
    BY <1>6
  <2>5. /\ \A id \in Ids : id < lastId' => Ended(id)'
        /\ client' = "waiting" /\ lastId' \in Ids => Ended(lastId)'
        /\ \A n \in DOMAIN toClient' : toClient'[n] \in posted' /\ IsEnd(toClient'[n])
        /\ \A n \in DOMAIN outgoing' : outgoing'[n] \in posted'
    BY <1>6, <1>14 DEF GoInv, EndsOK
  <2> QED  BY <1>6, <2>2, <2>3, <2>4, <2>5 DEF EndsOK
<1>19. \A blk \in Blocks(s) : StartedMsg(s, blk) \notin posted /\ CompletedMsg(s, blk) \notin posted
  <2> SUFFICES ASSUME NEW blk \in Blocks(s)
               PROVE  StartedMsg(s, blk) \notin posted /\ CompletedMsg(s, blk) \notin posted
    OBVIOUS
  <2>1. Given(s) = 0 /\ ~(blk <= 0)
    BY <1>4 DEF Given, Blocks
  <2> QED  BY <1>3, <2>1 DEF GoInv, BlocksOK
<1>20. ASSUME NEW id \in Ids
       PROVE  BlocksOK(id)'
  <2>1. CASE id # s
    <3>1. /\ Started(id)' <=> Started(id)
          /\ Given(id)' = Given(id)
          /\ \A i, blk : Holds(id, i, blk)' <=> Holds(id, i, blk)
      BY <1>12, <1>14, <2>1 DEF Given, Holds
    <3>2. BlocksOK(id)
      BY DEF GoInv
    <3> QED  BY <1>6, <1>12, <2>1, <3>1, <3>2 DEF BlocksOK
  <2>2. CASE id = s
    <3>1. Started(s)' /\ Given(s)' = 0
      BY <1>9, <1>10, <1>12, <1>14, <1>3 DEF Given
    <3>2. \A i \in DOMAIN workers'[s] : workers'[s][i] = Taking
      BY <1>11, <1>12
    <3>3. \A i \in DOMAIN workers'[s] : \A blk : ~Holds(s, i, blk)'
      BY <3>2, States DEF Holds, Steps
    <3>4. \A i \in DOMAIN workers'[s] : \A step \in Steps, blk \in Blocks(s) : workers'[s][i] # At(step, blk)
      BY <3>2, States
    <3>5. \A n \in DOMAIN blocks'[s] : blocks'[s][n] = 0 + n
      BY <1>10, <1>12 DEF Blocks
    <3>6. Len(blocks'[s]) <= NumBlocks[s]
      BY <1>9, <1>10, <1>12
    <3> QED  BY <1>6, <1>19, <2>2, <3>1, <3>3, <3>4, <3>5, <3>6 DEF BlocksOK, Steps
  <2> QED  BY <2>1, <2>2
<1>21. CountOK'
  <2>1. CompletedBlocks(s)' = {}
    BY <1>6, <1>19 DEF CompletedBlocks
  <2>2. \A id \in Ids : CompletedBlocks(id)' = CompletedBlocks(id)
    BY <1>6 DEF CompletedBlocks
  <2> QED  BY <1>12, <2>1, <2>2, FS_EmptySet DEF GoInv, CountOK
<1> QED  BY <1>13, <1>15, <1>16, <1>17, <1>18, <1>20, <1>21 DEF GoInv

-----------------------------------------------------------------------------
(* What is posted.                                                         *)

LEMMA Posted ==
  ASSUME TypeOK, \A n \in DOMAIN outgoing : outgoing[n] \in posted,
         NEW msg \in Msg, Post(msg)
  PROVE  /\ outgoing' \in Seq(Msg) /\ Len(outgoing') <= Capacity
         /\ posted' \subseteq Msg /\ posted' = posted \cup {msg}
         /\ \A n \in DOMAIN outgoing' : outgoing'[n] \in posted'
<1>1. /\ outgoing \in Seq(Msg) /\ Len(outgoing) < Capacity
      /\ outgoing' = Append(outgoing, msg) /\ posted' = posted \cup {msg}
  BY DEF TypeOK, Post, Room
<1>2. posted \subseteq Msg
  BY DEF TypeOK
<1> HIDE DEF Msg
<1>3. /\ Append(outgoing, msg) \in Seq(Msg)
      /\ Len(Append(outgoing, msg)) = Len(outgoing) + 1
      /\ DOMAIN Append(outgoing, msg) = 1 .. Len(outgoing) + 1
      /\ DOMAIN outgoing = 1 .. Len(outgoing)
      /\ Len(outgoing) \in Nat
      /\ \A n \in 1 .. Len(outgoing) : Append(outgoing, msg)[n] = outgoing[n]
      /\ Append(outgoing, msg)[Len(outgoing) + 1] = msg
  BY <1>1, AppendOne
<1>4. Len(outgoing') <= Capacity
  BY <1>1, <1>3, GoDispatcherAssumption
<1>5. \A n \in 1 .. Len(outgoing) + 1 : n \in 1 .. Len(outgoing) \/ n = Len(outgoing) + 1
  BY <1>3
<1>6. \A n \in DOMAIN outgoing' : outgoing'[n] \in posted'
  BY <1>1, <1>3, <1>5
<1> QED  BY <1>1, <1>2, <1>3, <1>4, <1>6

\* An end is no block, and a block no end.
LEMMA EndPosted ==
  ASSUME NEW op \in EndOps, NEW id, posted' = posted \cup {EndMsg(op, id)}
  PROVE  /\ \A op2, k : EndMsg(op2, k) \in posted' <=> EndMsg(op2, k) \in posted \/ (op2 = op /\ k = id)
         /\ \A k, blk : /\ StartedMsg(k, blk) \in posted' <=> StartedMsg(k, blk) \in posted
                        /\ CompletedMsg(k, blk) \in posted' <=> CompletedMsg(k, blk) \in posted
<1>1. \A msg : msg \in posted' <=> msg \in posted \/ msg = EndMsg(op, id)
  OBVIOUS
<1>2. \A op2, k : EndMsg(op2, k) = EndMsg(op, id) <=> op2 = op /\ k = id
  BY Kinds
<1>3. \A k, blk : StartedMsg(k, blk) # EndMsg(op, id) /\ CompletedMsg(k, blk) # EndMsg(op, id)
  BY Kinds DEF StartedMsg, CompletedMsg, BlockOps
<1> QED  BY <1>1, <1>2, <1>3

LEMMA BlockPosted ==
  ASSUME NEW op \in BlockOps, NEW id, NEW b, posted' = posted \cup {BlockMsg(op, id, b)}
  PROVE  /\ \A op2 \in EndOps : \A k : EndMsg(op2, k) \in posted' <=> EndMsg(op2, k) \in posted
         /\ \A k, blk :
               /\ StartedMsg(k, blk) \in posted' <=>
                     StartedMsg(k, blk) \in posted \/ (op = "BLOCK_STARTED" /\ k = id /\ blk = b)
               /\ CompletedMsg(k, blk) \in posted' <=>
                     CompletedMsg(k, blk) \in posted \/ (op = "BLOCK_COMPLETED" /\ k = id /\ blk = b)
<1>1. \A msg : msg \in posted' <=> msg \in posted \/ msg = BlockMsg(op, id, b)
  OBVIOUS
<1>2. \A op2 \in EndOps : \A k : EndMsg(op2, k) # BlockMsg(op, id, b)
  BY Kinds
<1>3. \A op2, k, blk : BlockMsg(op2, k, blk) = BlockMsg(op, id, b) <=> op2 = op /\ k = id /\ blk = b
  BY Kinds
<1> QED  BY <1>1, <1>2, <1>3 DEF StartedMsg, CompletedMsg

\* A calculation of which nothing changes.
LEMMA SameBlocks ==
  ASSUME GoInv, NEW id \in Ids, workers'[id] = workers[id], blocks'[id] = blocks[id],
         Started(id)' <=> Started(id),
         \A blk \in Blocks(id) : /\ StartedMsg(id, blk) \in posted' <=> StartedMsg(id, blk) \in posted
                                 /\ CompletedMsg(id, blk) \in posted' <=> CompletedMsg(id, blk) \in posted
  PROVE  BlocksOK(id)' /\ CompletedBlocks(id)' = CompletedBlocks(id)
<1>1. /\ Given(id)' = Given(id)
      /\ \A i, blk : Holds(id, i, blk)' <=> Holds(id, i, blk)
  BY DEF Given, Holds
<1>2. BlocksOK(id)
  BY DEF GoInv
<1>3. CompletedBlocks(id)' = CompletedBlocks(id)
  BY DEF CompletedBlocks
<1> QED  BY <1>1, <1>2, <1>3 DEF BlocksOK

LEMMA EndAbortStep ==
  ASSUME GoInv, EndAbort
  PROVE  GoInv' /\ EndMsg("ABORTED", abortId) \notin posted
<1>1. PICK a \in Ids : a = abortId
  BY DEF GoInv, TypeOK, EndAbort
<1>2. /\ pc["reader"] = "go" /\ Post(EndMsg("ABORTED", a))
      /\ UNCHANGED <<client, lastId, toServer, toClient, abortId, workVars>>
      /\ pc' = [pc EXCEPT !["reader"] = "run"]
  BY <1>1 DEF EndAbort, clientVars
<1>3. EndMsg("ABORTED", a) \in Msg
  BY <1>1, MsgKinds DEF EndOps
<1>4. /\ outgoing' \in Seq(Msg) /\ Len(outgoing') <= Capacity
      /\ posted' \subseteq Msg /\ posted' = posted \cup {EndMsg("ABORTED", a)}
      /\ \A n \in DOMAIN outgoing' : outgoing'[n] \in posted'
  BY <1>2, <1>3, Posted DEF GoInv, EndsOK
<1>5. /\ \A op, k : EndMsg(op, k) \in posted' <=> EndMsg(op, k) \in posted \/ (op = "ABORTED" /\ k = a)
      /\ \A k, blk : /\ StartedMsg(k, blk) \in posted' <=> StartedMsg(k, blk) \in posted
                     /\ CompletedMsg(k, blk) \in posted' <=> CompletedMsg(k, blk) \in posted
  BY <1>4, EndPosted DEF EndOps
<1>6. \A id \in Ids : /\ Started(id)' <=> Started(id)
                      /\ Quiet(id)' /\ Quiet(id)
                      /\ ~Aborting(id)'
                      /\ Aborting(id) <=> id = a
  <2>1. AllReturned(workers) /\ workers' = workers /\ completion' = completion
    BY <1>2 DEF GoInv, EndsOK, workVars
  <2>2. pc'["reader"] = "run"
    BY <1>2 DEF GoInv, TypeOK, Closer
  <2> QED  BY <1>1, <1>2, <2>1, <2>2 DEF AllReturned, Quiet, Started, Aborting, WaitStep
<1>7. EndMsg("ABORTED", a) \notin posted /\ Started(a)
  BY <1>6 DEF GoInv, AbortsOK
<1>8. TypeOK'
  BY <1>2, <1>4, CallTypes DEF GoInv, TypeOK, EndAbort, clientVars
<1>9. RequestsOK'
  BY <1>2, <1>6, SameRequests
<1>10. AbortsOK'
  <2>1. \A n \in DOMAIN toServer : \A id \in Ids : IsAbort(toServer[n], id) =>
            id # a /\ EndMsg("ABORTED", id) \notin posted
    BY <1>6 DEF GoInv, AbortsOK
  <2>2. client = "calculating" =>
            /\ lastId \in Ids /\ lastId # a /\ EndMsg("ABORTED", lastId) \notin posted
            /\ \A n \in DOMAIN toServer : ~IsAbort(toServer[n], lastId)
    BY <1>6 DEF GoInv, AbortsOK
  <2>3. client = "calculating" => ~Aborting(lastId)'
    BY <1>2, <1>6, <2>2 DEF Aborting
  <2> QED  BY <1>2, <1>5, <1>6, <2>1, <2>2, <2>3 DEF GoInv, AbortsOK
<1>11. EndsOK'
  <2>1. \A id \in Ids : Ended(id)' <=> Ended(id) \/ id = a
    BY <1>5 DEF Ended
  <2>2. pc'["reader"] # "go"
    BY <1>2 DEF GoInv, TypeOK, Closer
  <2>3. \A id \in Ids : EndMsg("COMPLETED", id) \in posted' => EndMsg("COMPLETED", id) \in posted
    BY <1>5
  <2>4. completion' = completion /\ completed' = completed
    BY <1>2 DEF workVars
  <2>5. \A n \in DOMAIN toClient' : toClient'[n] \in posted' /\ IsEnd(toClient'[n])
    BY <1>2, <1>4 DEF GoInv, EndsOK
  <2>6. client' = "waiting" /\ lastId' \in Ids => Ended(lastId)'
    BY <1>2, <1>5 DEF GoInv, EndsOK, Ended
  <2> QED  BY <1>2, <1>4, <1>6, <1>7, <2>1, <2>2, <2>3, <2>4, <2>5, <2>6 DEF GoInv, EndsOK
<1>12. \A id \in Ids : BlocksOK(id)' /\ CompletedBlocks(id)' = CompletedBlocks(id)
  BY <1>2, <1>5, <1>6, SameBlocks DEF workVars
<1>13. CountOK'
  BY <1>2, <1>12 DEF GoInv, CountOK, workVars
<1> QED  BY <1>1, <1>7, <1>8, <1>9, <1>10, <1>11, <1>12, <1>13 DEF GoInv

-----------------------------------------------------------------------------
(* The goroutine that waits for the end of a calculation.                  *)

LEMMA CompletionStep ==
  ASSUME GoInv, TypeOK', NEW id \in Ids,
         UNCHANGED <<client, lastId, toServer, toClient, pc, abortId, workers, blocks, completed>>,
         \A k \in Ids : k # id => completion'[k] = completion[k],
         completion[id] \notin {"none", "done"}, completion'[id] # "none",
         completion'[id] \in {"go", "done"} => Quiet(id),
         \A n \in DOMAIN outgoing' : outgoing'[n] \in posted',
         \/ posted' = posted
         \/ /\ posted' = posted \cup {EndMsg("COMPLETED", id)}
            /\ completion'[id] = "done" /\ completed[id] = NumBlocks[id]
  PROVE  GoInv'
<1>1. /\ \A k : EndMsg("ABORTED", k) \in posted' <=> EndMsg("ABORTED", k) \in posted
      /\ \A k : EndMsg("COMPLETED", k) \in posted' =>
               EndMsg("COMPLETED", k) \in posted \/ (k = id /\ completion'[id] = "done"
                                                    /\ completed[id] = NumBlocks[id])
      /\ \A k : EndMsg("COMPLETED", k) \in posted => EndMsg("COMPLETED", k) \in posted'
      /\ \A k, blk : /\ StartedMsg(k, blk) \in posted' <=> StartedMsg(k, blk) \in posted
                     /\ CompletedMsg(k, blk) \in posted' <=> CompletedMsg(k, blk) \in posted
      /\ posted \subseteq posted'
  <2>1. CASE posted' = posted
    BY <2>1
  <2>2. CASE /\ posted' = posted \cup {EndMsg("COMPLETED", id)}
             /\ completion'[id] = "done" /\ completed[id] = NumBlocks[id]
    <3>1. \A op2, k : EndMsg(op2, k) \in posted' <=>
                        EndMsg(op2, k) \in posted \/ (op2 = "COMPLETED" /\ k = id)
      BY <2>2, EndPosted DEF EndOps
    <3>2. \A k, blk : /\ StartedMsg(k, blk) \in posted' <=> StartedMsg(k, blk) \in posted
                      /\ CompletedMsg(k, blk) \in posted' <=> CompletedMsg(k, blk) \in posted
      BY <2>2, EndPosted DEF EndOps
    <3> QED  BY <2>2, <3>1, <3>2
  <2> QED  BY <2>1, <2>2
<1>2. \A k \in Ids : /\ Started(k)' <=> Started(k)
                     /\ Quiet(k)' <=> Quiet(k)
                     /\ Aborting(k)' <=> Aborting(k)
  BY DEF Started, Quiet, Aborting
<1>3. RequestsOK'
  BY <1>2, SameRequests
<1>4. AbortsOK'
  BY <1>1, <1>2, SameAborts
<1>5. EndsOK'
  <2>1. \A k \in Ids : Ended(k) => Ended(k)'
    BY <1>1 DEF Ended
  <2>2. \A k \in Ids : Ended(k)' => Started(k) /\ Quiet(k)
    BY <1>1 DEF Ended, Started, GoInv, EndsOK
  <2>3. client' = "waiting" /\ lastId' \in Ids => Ended(lastId)'
    BY <1>1 DEF GoInv, EndsOK, Ended
  <2>4. \A k \in Ids : EndMsg("COMPLETED", k) \in posted' =>
            completion'[k] = "done" /\ completed'[k] = NumBlocks[k]
    BY <1>1 DEF GoInv, EndsOK
  <2>5. AllReturned(workers)' <=> AllReturned(workers)
    BY DEF AllReturned
  <2>6. \A k \in Ids : completion'[k] \in {"go", "done"} => Quiet(k)
    BY DEF GoInv, EndsOK
  <2>7. /\ \A k \in Ids : k < lastId' => Ended(k)'
        /\ \A n \in DOMAIN toClient' : toClient'[n] \in posted' /\ IsEnd(toClient'[n])
        /\ pc'["reader"] = "go" => AllReturned(workers)
    BY <1>1, <2>1 DEF GoInv, EndsOK
  <2> QED  BY <1>2, <2>2, <2>3, <2>4, <2>5, <2>6, <2>7 DEF EndsOK
<1>6. \A k \in Ids : BlocksOK(k)' /\ CompletedBlocks(k)' = CompletedBlocks(k)
  BY <1>1, <1>2, SameBlocks
<1>7. CountOK'
  BY <1>6 DEF GoInv, CountOK
<1> QED  BY <1>3, <1>4, <1>5, <1>6, <1>7 DEF GoInv

LEMMA CompletionTypes ==
  ASSUME TypeOK, NEW id \in Ids, NEW step \in {"new", "done"} \cup WaitStep,
         UNCHANGED <<client, lastId, toServer, toClient, conn, callVars, workers, blocks, completed>>,
         completion' = [completion EXCEPT ![id] = step] \/ completion' = completion,
         outgoing' \in Seq(Msg), Len(outgoing') <= Capacity, posted' \subseteq Msg,
         panicked' \in BOOLEAN
  PROVE  TypeOK'
<1>1. completion' \in [Ids -> {"none", "new", "done"} \cup WaitStep]
  BY DEF TypeOK
<1> QED  BY <1>1 DEF TypeOK, callVars

LEMMA CompletionWaitsStep ==
  ASSUME GoInv, NEW id \in Ids, CompletionWaits(id)
  PROVE  GoInv'
<1>1. /\ completion[id] = "new" /\ completion' = [completion EXCEPT ![id] = AfterWait]
      /\ UNCHANGED <<client, lastId, toServer, toClient, conn, outgoing, posted, callVars, workers,
                     blocks, completed, panicked>>
  BY DEF CompletionWaits, CompletionAt, clientVars, channelVars
<1>2. AfterWait \in {"go", "wait"} /\ (AfterWait = "go" => Quiet(id))
  BY DEF AfterWait, AllReturned, Quiet
<1>3. TypeOK'
  BY <1>1, <1>2, CompletionTypes DEF GoInv, TypeOK, WaitStep
<1>4. DOMAIN completion = Ids /\ completion'[id] = AfterWait
      /\ \A k \in Ids : k # id => completion'[k] = completion[k]
  BY <1>1 DEF GoInv, TypeOK
<1>5. \A n \in DOMAIN outgoing' : outgoing'[n] \in posted'
  BY <1>1 DEF GoInv, EndsOK
<1> QED  BY <1>1, <1>2, <1>3, <1>4, <1>5, CompletionStep DEF callVars

LEMMA CompletionWakesStep ==
  ASSUME GoInv, NEW id \in Ids, CompletionWakes(id)
  PROVE  GoInv'
<1>1. /\ completion[id] = "released"
      /\ UNCHANGED <<client, lastId, toServer, toClient, conn, outgoing, posted, callVars, workers,
                     blocks, completed>>
      /\ \/ AllReturned(workers) /\ completion' = [completion EXCEPT ![id] = "go"] /\ UNCHANGED panicked
         \/ panicked' = TRUE /\ UNCHANGED completion
  BY DEF CompletionWakes, CompletionAt, clientVars, channelVars
<1>2. AllReturned(workers) => Quiet(id)
  BY DEF AllReturned, Quiet
<1>3. TypeOK'
  <2>1. "go" \in {"new", "done"} \cup WaitStep
    BY DEF WaitStep
  <2> QED  BY <1>1, <2>1, CompletionTypes DEF GoInv, TypeOK
<1>4. /\ \A k \in Ids : k # id => completion'[k] = completion[k]
      /\ completion'[id] # "none" /\ (completion'[id] \in {"go", "done"} => Quiet(id))
  BY <1>1, <1>2 DEF GoInv, TypeOK
<1>5. \A n \in DOMAIN outgoing' : outgoing'[n] \in posted'
  BY <1>1 DEF GoInv, EndsOK
<1> QED  BY <1>1, <1>3, <1>4, <1>5, CompletionStep DEF callVars

LEMMA CompletionEndsStep ==
  ASSUME GoInv, NEW id \in Ids, CompletionEnds(id)
  PROVE  GoInv' /\ EndMsg("COMPLETED", id) \notin posted
<1>1. /\ completion[id] = "go" /\ completion' = [completion EXCEPT ![id] = "done"]
      /\ UNCHANGED <<client, lastId, toServer, toClient, conn, callVars, workers,
                     blocks, completed, panicked>>
      /\ \/ AllCompleted(id) /\ Post(EndMsg("COMPLETED", id))
         \/ UNCHANGED <<outgoing, posted>>
  BY DEF CompletionEnds, CompletionAt, clientVars, channelVars
<1>2. EndMsg("COMPLETED", id) \in Msg
  BY MsgKinds DEF EndOps
<1>3. /\ outgoing' \in Seq(Msg) /\ Len(outgoing') <= Capacity /\ posted' \subseteq Msg
      /\ \A n \in DOMAIN outgoing' : outgoing'[n] \in posted'
      /\ \/ posted' = posted
         \/ posted' = posted \cup {EndMsg("COMPLETED", id)} /\ completed[id] = NumBlocks[id]
  <2>1. CASE AllCompleted(id) /\ Post(EndMsg("COMPLETED", id))
    <3>1. completed[id] = NumBlocks[id]
      BY <2>1 DEF AllCompleted
    <3> QED  BY <1>2, <2>1, <3>1, Posted DEF GoInv, EndsOK
  <2>2. CASE UNCHANGED <<outgoing, posted>>
    BY <2>2 DEF GoInv, EndsOK, TypeOK
  <2> QED  BY <1>1, <2>1, <2>2
<1>4. /\ completion'[id] = "done" /\ Quiet(id)
      /\ \A k \in Ids : k # id => completion'[k] = completion[k]
  BY <1>1 DEF GoInv, EndsOK, TypeOK
<1>5. TypeOK'
  BY <1>1, <1>3, CompletionTypes DEF GoInv, TypeOK
<1>6. EndMsg("COMPLETED", id) \notin posted
  BY <1>1 DEF GoInv, EndsOK
<1> QED  BY <1>1, <1>3, <1>4, <1>5, <1>6, CompletionStep DEF callVars

-----------------------------------------------------------------------------
(* The workers.                                                            *)

LEMMA Released ==
  ASSUME TypeOK, NEW b \in BOOLEAN
  PROVE  /\ Release(pc, b) \in [Closer -> {"run", "close", "exited"} \cup WaitStep]
         /\ Release(completion, b) \in [Ids -> {"none", "new", "done"} \cup WaitStep]
         /\ Release(pc, b)["reader"] \in WaitStep <=> pc["reader"] \in WaitStep
         /\ Release(pc, b)["reader"] = "go" <=> pc["reader"] = "go"
         /\ \A k \in Ids : \A step \in {"none", "go", "done"} :
               Release(completion, b)[k] = step <=> completion[k] = step
<1>1. pc \in [Closer -> {"run", "close", "exited"} \cup WaitStep]
      /\ completion \in [Ids -> {"none", "new", "done"} \cup WaitStep] /\ "reader" \in Closer
  BY DEF TypeOK, Closer
<1> HIDE DEF Closer
<1> QED  BY <1>1 DEF Release, WaitStep

\* What a worker's step may change, and why that hurts no other calculation and
\* no goroutine that has waited for the workers.
LEMMA WorkerStep ==
  ASSUME GoInv, TypeOK', NEW id \in Ids, NEW i \in DOMAIN workers[id], NEW w \in WorkerState(id),
         workers[id][i] # Returned, workers' = Changed(id, i, w),
         UNCHANGED <<client, lastId, toServer, toClient, abortId>>,
         pc'["reader"] \in WaitStep <=> pc["reader"] \in WaitStep,
         pc'["reader"] = "go" <=> pc["reader"] = "go",
         \A k \in Ids : \A step \in {"none", "go", "done"} : completion'[k] = step <=> completion[k] = step,
         \A k \in Ids : k # id => blocks'[k] = blocks[k] /\ completed'[k] = completed[k],
         posted \subseteq posted',
         \A op \in EndOps : \A k : EndMsg(op, k) \in posted' <=> EndMsg(op, k) \in posted,
         \A k, blk : k # id =>
            /\ StartedMsg(k, blk) \in posted' <=> StartedMsg(k, blk) \in posted
            /\ CompletedMsg(k, blk) \in posted' <=> CompletedMsg(k, blk) \in posted,
         \A n \in DOMAIN outgoing' : outgoing'[n] \in posted',
         BlocksOK(id)', completed'[id] = Cardinality(CompletedBlocks(id)')
  PROVE  GoInv'
<1>1. /\ DOMAIN workers' = Ids
      /\ \A k \in Ids : k # id => workers'[k] = workers[k]
  BY WorkerChanges DEF GoInv
<1>2. ~Quiet(id) /\ ~AllReturned(workers)
  BY DEF Quiet, AllReturned
<1>3. /\ ~Ended(id) /\ pc["reader"] # "go" /\ completion[id] \notin {"go", "done"}
  BY <1>2 DEF GoInv, EndsOK
<1>4. \A k \in Ids : /\ Started(k)' <=> Started(k)
                     /\ Ended(k)' <=> Ended(k)
                     /\ Aborting(k)' <=> Aborting(k)
                     /\ k # id => (Quiet(k)' <=> Quiet(k))
  <2>1. \A k \in Ids : k # id => (Quiet(k)' <=> Quiet(k))
    BY <1>1 DEF Quiet
  <2>2. \A k \in Ids : Aborting(k)' <=> Aborting(k)
    BY DEF Aborting
  <2>3. \A k \in Ids : Ended(k)' <=> Ended(k)
    BY DEF Ended, EndOps
  <2>4. \A k \in Ids : Started(k)' <=> Started(k)
    BY DEF Started
  <2> QED  BY <2>1, <2>2, <2>3, <2>4
<1>5. RequestsOK'
  BY <1>4, SameRequests
<1>6. AbortsOK'
  BY <1>4, SameAborts DEF EndOps
<1>7. EndsOK'
  <2>1. \A k \in Ids : Ended(k)' => Started(k)' /\ Quiet(k)'
    BY <1>3, <1>4 DEF GoInv, EndsOK
  <2>2. client' = "waiting" /\ lastId' \in Ids => Ended(lastId)'
    <3>1. lastId \in Ids => (Ended(lastId)' <=> Ended(lastId))
      BY DEF Ended, EndOps
    <3> QED  BY <3>1 DEF GoInv, EndsOK
  <2>3. \A k \in Ids : completion'[k] \in {"go", "done"} => Quiet(k)'
    BY <1>3, <1>4 DEF GoInv, EndsOK
  <2>4. \A k \in Ids : EndMsg("COMPLETED", k) \in posted' =>
            completion'[k] = "done" /\ completed'[k] = NumBlocks[k]
    <3> SUFFICES ASSUME NEW k \in Ids, EndMsg("COMPLETED", k) \in posted'
                 PROVE  completion'[k] = "done" /\ completed'[k] = NumBlocks[k]
      OBVIOUS
    <3>1. EndMsg("COMPLETED", k) \in posted
      BY DEF EndOps
    <3>2. k # id
      BY <1>3, <3>1 DEF Ended
    <3> QED  BY <3>1, <3>2 DEF GoInv, EndsOK
  <2>5. /\ \A k \in Ids : k < lastId' => Ended(k)'
        /\ \A n \in DOMAIN toClient' : toClient'[n] \in posted' /\ IsEnd(toClient'[n])
        /\ pc'["reader"] # "go"
    BY <1>3, <1>4 DEF GoInv, EndsOK
  <2> QED  BY <2>1, <2>2, <2>3, <2>4, <2>5 DEF EndsOK
<1>8. \A k \in Ids : k # id => BlocksOK(k)' /\ CompletedBlocks(k)' = CompletedBlocks(k)
  BY <1>1, <1>4, SameBlocks
<1>9. CountOK'
  BY <1>8 DEF GoInv, CountOK
<1> QED  BY <1>5, <1>6, <1>7, <1>8, <1>9 DEF GoInv

LEMMA WorkerTypes ==
  ASSUME TypeOK, NEW id \in Ids, NEW i \in DOMAIN workers[id], NEW w \in WorkerState(id),
         workers' = Changed(id, i, w),
         UNCHANGED <<client, lastId, toServer, toClient, conn, aborting, abortId, panicked>>,
         pc' \in [Closer -> {"run", "close", "exited"} \cup WaitStep],
         completion' \in [Ids -> {"none", "new", "done"} \cup WaitStep],
         DOMAIN blocks' = Ids, \A k \in Ids : blocks'[k] \in Seq(Blocks(k)),
         outgoing' \in Seq(Msg), Len(outgoing') <= Capacity, posted' \subseteq Msg,
         completed' \in [Ids -> Nat], \A k \in Ids : completed'[k] <= NumBlocks[k]
  PROVE  TypeOK'
<1>1. /\ DOMAIN workers' = Ids
      /\ \A k \in Ids : workers'[k] \in Seq(WorkerState(k))
  BY WorkerChanges
<1> QED  BY <1>1 DEF TypeOK

\* Which blocks the workers hold after a step.
LEMMA HoldsAfter ==
  ASSUME TypeOK, NEW id \in Ids, NEW i \in DOMAIN workers[id], NEW w \in WorkerState(id),
         workers' = Changed(id, i, w)
  PROVE  /\ DOMAIN workers'[id] = DOMAIN workers[id] /\ workers'[id][i] = w
         /\ \A j \in DOMAIN workers[id] : j # i =>
               /\ workers'[id][j] = workers[id][j]
               /\ \A blk : Holds(id, j, blk)' <=> Holds(id, j, blk)
         /\ \A blk : Holds(id, i, blk)' <=> \E step \in Steps : w = At(step, blk)
<1>1. /\ DOMAIN workers'[id] = DOMAIN workers[id] /\ workers'[id][i] = w
      /\ \A j \in DOMAIN workers[id] : j # i => workers'[id][j] = workers[id][j]
  BY WorkerChanges
<1> QED  BY <1>1 DEF Holds, Steps

\* A worker returns, with the block it holds or without one.
LEMMA DoneStep ==
  ASSUME GoInv, NEW id \in Ids, NEW i \in DOMAIN workers[id], workers[id][i] # Returned,
         Done(id, i), UNCHANGED <<clientVars, toServer, toClient, conn, channelVars, aborting, abortId,
                                  blocks, completed, panicked>>
  PROVE  GoInv'
<1> DEFINE last == AllReturned([workers EXCEPT ![id][i] = Returned])
<1>1. /\ workers' = Changed(id, i, Returned)
      /\ pc' = Release(pc, last) /\ completion' = Release(completion, last)
      /\ UNCHANGED <<client, lastId, toServer, toClient, conn, outgoing, posted, aborting, abortId,
                     blocks, completed, panicked>>
  BY DEF Done, clientVars, channelVars, Changed
<1>2. last \in BOOLEAN /\ Returned \in WorkerState(id)
  BY DEF AllReturned, WorkerState
<1> HIDE DEF last
<1>3. /\ pc' \in [Closer -> {"run", "close", "exited"} \cup WaitStep]
      /\ completion' \in [Ids -> {"none", "new", "done"} \cup WaitStep]
      /\ pc'["reader"] \in WaitStep <=> pc["reader"] \in WaitStep
      /\ pc'["reader"] = "go" <=> pc["reader"] = "go"
      /\ \A k \in Ids : \A step \in {"none", "go", "done"} : completion'[k] = step <=> completion[k] = step
  BY <1>1, <1>2, Released, Zenon DEF GoInv
<1>4. DOMAIN blocks' = Ids /\ \A k \in Ids : blocks'[k] \in Seq(Blocks(k))
  BY <1>1 DEF GoInv, TypeOK
<1>5. TypeOK'
  <2>1. TypeOK /\ outgoing' \in Seq(Msg) /\ Len(outgoing') <= Capacity /\ posted' \subseteq Msg
        /\ completed' \in [Ids -> Nat] /\ \A k \in Ids : completed'[k] <= NumBlocks[k]
    BY <1>1 DEF GoInv, TypeOK
  <2> QED  BY <1>1, <1>2, <1>3, <1>4, <2>1, WorkerTypes
<1>6. BlocksOK(id)'
  <2>1. /\ DOMAIN workers'[id] = DOMAIN workers[id] /\ workers'[id][i] = Returned
        /\ \A j \in DOMAIN workers[id] : j # i =>
              /\ workers'[id][j] = workers[id][j]
              /\ \A blk : Holds(id, j, blk)' <=> Holds(id, j, blk)
        /\ \A blk : ~Holds(id, i, blk)'
    <3>1. TypeOK
      BY DEF GoInv
    <3>2. \A blk : ~\E step \in Steps : Returned = At(step, blk)
      BY States
    <3>3. \A blk : Holds(id, i, blk)' <=> \E step \in Steps : Returned = At(step, blk)
      BY <1>1, <1>2, <3>1, HoldsAfter
    <3>4. /\ DOMAIN workers'[id] = DOMAIN workers[id] /\ workers'[id][i] = Returned
          /\ \A j \in DOMAIN workers[id] : j # i => workers'[id][j] = workers[id][j]
      BY <1>1, <1>2, <3>1, HoldsAfter
    <3>5. \A j \in DOMAIN workers[id] : j # i => \A blk : Holds(id, j, blk)' <=> Holds(id, j, blk)
      BY <1>1, <1>2, <3>1, HoldsAfter
    <3> QED  BY <3>2, <3>3, <3>4, <3>5
  <2>2. (Started(id)' <=> Started(id)) /\ Given(id)' = Given(id)
    BY <1>1, <1>3 DEF Started, Given
  <2>3. workers[id] # <<>>
    OBVIOUS
  <2>4. \A blk : Returned # At("started", blk) /\ Returned # At("calculate", blk) /\ Returned # At("completed", blk)
    BY States DEF Steps
  <2> QED  BY <1>1, <2>1, <2>2, <2>3, <2>4 DEF GoInv, BlocksOK
<1>7. completed'[id] = Cardinality(CompletedBlocks(id)')
  BY <1>1 DEF GoInv, CountOK, CompletedBlocks
<1>8. \A n \in DOMAIN outgoing' : outgoing'[n] \in posted'
  BY <1>1 DEF GoInv, EndsOK
<1> QED  BY <1>1, <1>2, <1>3, <1>5, <1>6, <1>7, <1>8, WorkerStep

LEMMA WorkerAbortsStep ==
  ASSUME GoInv, NEW id \in Ids, NEW i \in DOMAIN workers[id], WorkerAborts(id, i)
  PROVE  GoInv'
<1>1. workers[id][i] # Returned
  BY States DEF WorkerAborts, WorkerAt
<1> QED  BY <1>1, DoneStep DEF WorkerAborts

LEMMA WorkerTakesStep ==
  ASSUME GoInv, NEW id \in Ids, NEW i \in DOMAIN workers[id], WorkerTakes(id, i)
  PROVE  GoInv'
<1>1. workers[id][i] # Returned
  BY States DEF WorkerTakes, WorkerAt
<1>2. CASE blocks[id] = <<>>
  BY <1>1, <1>2, DoneStep DEF WorkerTakes
<1>3. CASE blocks[id] # <<>>
  <2>1. /\ workers' = Changed(id, i, At("started", Head(blocks[id])))
        /\ blocks' = [blocks EXCEPT ![id] = Tail(blocks[id])]
        /\ UNCHANGED <<client, lastId, toServer, toClient, conn, outgoing, posted, aborting, abortId,
                       pc, completion, completed, panicked>>
    BY <1>3 DEF WorkerTakes, clientVars, channelVars, Changed
  <2>2. /\ blocks[id] \in Seq(Blocks(id)) /\ Tail(blocks[id]) \in Seq(Blocks(id))
        /\ Head(blocks[id]) \in Blocks(id) /\ Head(blocks[id]) = blocks[id][1] /\ 1 \in DOMAIN blocks[id]
        /\ Len(Tail(blocks[id])) = Len(blocks[id]) - 1 /\ Len(blocks[id]) \in Nat \ {0}
        /\ DOMAIN Tail(blocks[id]) = 1 .. Len(blocks[id]) - 1
        /\ \A n \in DOMAIN Tail(blocks[id]) :
              n + 1 \in DOMAIN blocks[id] /\ Tail(blocks[id])[n] = blocks[id][n + 1]
    <3>1. blocks[id] \in Seq(Blocks(id))
      BY DEF GoInv, TypeOK
    <3> QED  BY <1>3, <3>1, TailOne
  <2>3. PICK b \in Blocks(id) : b = Head(blocks[id])
    BY <2>2
  <2>4. At("started", b) \in WorkerState(id)
    BY DEF WorkerState
  <2>5. /\ DOMAIN blocks' = Ids /\ blocks'[id] = Tail(blocks[id])
        /\ \A k \in Ids : blocks'[k] \in Seq(Blocks(k))
    BY <2>1, <2>2 DEF GoInv, TypeOK
  <2>6. TypeOK'
    BY <2>1, <2>2, <2>3, <2>4, <2>5, WorkerTypes DEF GoInv, TypeOK
  <2>7. Started(id) /\ Started(id)'
    <3>1. Started(id)
      BY <1>3 DEF GoInv, BlocksOK
    <3> QED  BY <2>1, <3>1 DEF Started
  <2>8. NumBlocks[id] \in Nat \ {0} /\ \A blk \in Blocks(id) : blk \in Nat
    BY GoDispatcherAssumption DEF Ids, Blocks
  <2>9. /\ Given(id) \in Nat /\ b = Given(id) + 1 /\ Given(id)' = Given(id) + 1
    <3>1. Len(blocks[id]) <= NumBlocks[id] /\ b = Given(id) + 1
      BY <2>2, <2>3 DEF GoInv, BlocksOK
    <3>2. Given(id) = NumBlocks[id] - Len(blocks[id]) /\ Given(id)' = NumBlocks[id] - Len(Tail(blocks[id]))
      BY <2>5, <2>7 DEF Given
    <3> QED  BY <2>2, <2>8, <3>1, <3>2
  <2>10. /\ DOMAIN workers'[id] = DOMAIN workers[id] /\ workers'[id][i] = At("started", b)
         /\ \A j \in DOMAIN workers[id] : j # i =>
               /\ workers'[id][j] = workers[id][j]
               /\ \A blk : Holds(id, j, blk)' <=> Holds(id, j, blk)
         /\ \A blk : Holds(id, i, blk)' <=> blk = b
    <3>0. PICK w \in WorkerState(id) : w = At("started", b)
      BY <2>4
    <3>1. TypeOK /\ workers' = Changed(id, i, w)
      BY <2>1, <2>3, <3>0 DEF GoInv
    <3>2. \A blk : (\E step \in Steps : At("started", b) = At(step, blk)) <=> blk = b
      BY States DEF Steps
    <3>3. \A blk : Holds(id, i, blk)' <=> \E step \in Steps : w = At(step, blk)
      BY <3>0, <3>1, HoldsAfter
    <3>4. /\ DOMAIN workers'[id] = DOMAIN workers[id] /\ workers'[id][i] = w
          /\ \A j \in DOMAIN workers[id] : j # i => workers'[id][j] = workers[id][j]
      BY <3>0, <3>1, HoldsAfter
    <3>5. \A j \in DOMAIN workers[id] : j # i => \A blk : Holds(id, j, blk)' <=> Holds(id, j, blk)
      BY <3>0, <3>1, HoldsAfter
    <3> QED  BY <3>0, <3>2, <3>3, <3>4, <3>5
  <2>11. StartedMsg(id, b) \notin posted /\ CompletedMsg(id, b) \notin posted
         /\ \A j \in DOMAIN workers[id] : ~Holds(id, j, b)
    <3>1. ~(b <= Given(id))
      BY <2>9
    <3> QED  BY <3>1 DEF GoInv, BlocksOK
  <2>12. \A blk \in Blocks(id) : blk <= Given(id) => blk <= Given(id)'
    BY <2>8, <2>9
  <2>13. b <= Given(id)'
    BY <2>9
  <2>14. BlocksOK(id)'
    <3>1. Len(blocks'[id]) <= NumBlocks[id]
      BY <2>2, <2>5, <2>8 DEF GoInv, BlocksOK
    <3>2. \A n \in DOMAIN blocks'[id] : blocks'[id][n] = Given(id)' + n
      <4> SUFFICES ASSUME NEW n \in DOMAIN Tail(blocks[id])
                   PROVE  Tail(blocks[id])[n] = Given(id)' + n
        BY <2>5
      <4>1. blocks[id][n + 1] = Given(id) + (n + 1)
        BY <2>2 DEF GoInv, BlocksOK
      <4>2. n \in Nat
        BY <2>2
      <4> QED  BY <2>2, <2>9, <4>1, <4>2
    <3>3. ASSUME NEW blk \in Blocks(id)
          PROVE  /\ \A k, j \in DOMAIN workers'[id] : Holds(id, k, blk)' /\ Holds(id, j, blk)' => k = j
                 /\ \A j \in DOMAIN workers'[id] :
                      /\ Holds(id, j, blk)' => blk <= Given(id)' /\ CompletedMsg(id, blk) \notin posted'
                      /\ workers'[id][j] = At("started", blk) => StartedMsg(id, blk) \notin posted'
                      /\ workers'[id][j] \in {At("calculate", blk), At("completed", blk)}
                            => StartedMsg(id, blk) \in posted'
                 /\ StartedMsg(id, blk) \in posted' => blk <= Given(id)'
                 /\ CompletedMsg(id, blk) \in posted' => StartedMsg(id, blk) \in posted'
      <4>1. \A k, j \in DOMAIN workers'[id] : Holds(id, k, blk)' /\ Holds(id, j, blk)' => k = j
        BY <2>10, <2>11 DEF GoInv, BlocksOK
      <4>2. \A j \in DOMAIN workers'[id] :
               Holds(id, j, blk)' => blk <= Given(id)' /\ CompletedMsg(id, blk) \notin posted'
        BY <2>1, <2>10, <2>11, <2>12, <2>13 DEF GoInv, BlocksOK
      <4>3. \A j \in DOMAIN workers'[id] :
               /\ workers'[id][j] = At("started", blk) => StartedMsg(id, blk) \notin posted'
               /\ workers'[id][j] \in {At("calculate", blk), At("completed", blk)}
                     => StartedMsg(id, blk) \in posted'
        BY <2>1, <2>10, <2>11, States DEF GoInv, BlocksOK
      <4>4. /\ StartedMsg(id, blk) \in posted' => blk <= Given(id)'
            /\ CompletedMsg(id, blk) \in posted' => StartedMsg(id, blk) \in posted'
        BY <2>1, <2>12 DEF GoInv, BlocksOK
      <4> QED  BY <4>1, <4>2, <4>3, <4>4
    <3> QED  BY <2>7, <3>1, <3>2, <3>3 DEF BlocksOK
  <2>15. completed'[id] = Cardinality(CompletedBlocks(id)')
    BY <2>1 DEF GoInv, CountOK, CompletedBlocks
  <2>16. \A n \in DOMAIN outgoing' : outgoing'[n] \in posted'
    BY <2>1 DEF GoInv, EndsOK
  <2>17. \A k \in Ids : k # id => blocks'[k] = blocks[k]
    BY <2>1 DEF GoInv, TypeOK
  <2> QED  BY <1>1, <2>1, <2>3, <2>4, <2>6, <2>14, <2>15, <2>16, <2>17, WorkerStep
<1> QED  BY <1>2, <1>3

\* Which block a worker holds after a step from one of its steps to the next.
LEMMA HoldsSame ==
  ASSUME TypeOK, NEW id \in Ids, NEW i \in DOMAIN workers[id], NEW b \in Blocks(id),
         NEW step \in Steps, NEW step2 \in Steps,
         workers[id][i] = At(step, b), workers' = Changed(id, i, At(step2, b))
  PROVE  /\ At(step2, b) \in WorkerState(id)
         /\ DOMAIN workers'[id] = DOMAIN workers[id] /\ workers'[id][i] = At(step2, b)
         /\ \A j \in DOMAIN workers[id] : j # i => workers'[id][j] = workers[id][j]
         /\ \A j \in DOMAIN workers[id] : \A blk : Holds(id, j, blk)' <=> Holds(id, j, blk)
<1>1. PICK w \in WorkerState(id) : w = At(step2, b)
  BY DEF WorkerState, Steps
<1>2. workers' = Changed(id, i, w)
  BY <1>1
<1>3. /\ DOMAIN workers'[id] = DOMAIN workers[id] /\ workers'[id][i] = w
      /\ \A j \in DOMAIN workers[id] : j # i => workers'[id][j] = workers[id][j]
  BY <1>2, HoldsAfter
<1>4. \A j \in DOMAIN workers[id] : j # i => \A blk : Holds(id, j, blk)' <=> Holds(id, j, blk)
  BY <1>2, HoldsAfter
<1>5. \A blk : Holds(id, i, blk)' <=> blk = b
  BY <1>1, <1>3, States DEF Holds, Steps
<1>6. \A blk : Holds(id, i, blk) <=> blk = b
  BY States DEF Holds, Steps
<1> QED  BY <1>1, <1>3, <1>4, <1>5, <1>6

LEMMA WorkerCalculatesStep ==
  ASSUME GoInv, NEW id \in Ids, NEW i \in DOMAIN workers[id], WorkerCalculates(id, i)
  PROVE  GoInv'
<1>1. PICK b \in Blocks(id) : b = workers[id][i].block /\ workers[id][i] = At("calculate", b)
  BY WorkerHas DEF WorkerCalculates, WorkerAt, GoInv, Steps
<1>2. /\ workers' = Changed(id, i, At("completed", b))
      /\ UNCHANGED <<client, lastId, toServer, toClient, conn, outgoing, posted, aborting, abortId,
                     pc, blocks, completion, completed, panicked>>
  BY <1>1 DEF WorkerCalculates, clientVars, channelVars, callVars, Changed
<1>3. /\ At("completed", b) \in WorkerState(id)
      /\ DOMAIN workers'[id] = DOMAIN workers[id] /\ workers'[id][i] = At("completed", b)
      /\ \A j \in DOMAIN workers[id] : j # i => workers'[id][j] = workers[id][j]
      /\ \A j \in DOMAIN workers[id] : \A blk : Holds(id, j, blk)' <=> Holds(id, j, blk)
  BY <1>1, <1>2, HoldsSame DEF GoInv, Steps
<1>4. TypeOK'
  BY <1>2, <1>3, WorkerTypes DEF GoInv, TypeOK
<1>5. BlocksOK(id)'
  <2>1. (Started(id)' <=> Started(id)) /\ Given(id)' = Given(id)
    BY <1>2 DEF Started, Given
  <2>2. \A j \in DOMAIN workers[id] : \A blk \in Blocks(id) :
           /\ workers'[id][j] = At("started", blk) => workers[id][j] = At("started", blk)
           /\ workers'[id][j] \in {At("calculate", blk), At("completed", blk)}
                 => workers[id][j] \in {At("calculate", blk), At("completed", blk)}
    <3> SUFFICES ASSUME NEW j \in DOMAIN workers[id], NEW blk \in Blocks(id)
                 PROVE  /\ workers'[id][j] = At("started", blk) => workers[id][j] = At("started", blk)
                        /\ workers'[id][j] \in {At("calculate", blk), At("completed", blk)}
                              => workers[id][j] \in {At("calculate", blk), At("completed", blk)}
      OBVIOUS
    <3>1. CASE j = i
      <4>1. At("completed", b) # At("started", blk) /\ At("completed", b) # At("calculate", blk)
            /\ (At("completed", b) = At("completed", blk) => b = blk)
        BY States
      <4> QED  BY <1>1, <1>3, <3>1, <4>1
    <3>2. CASE j # i
      BY <1>3, <3>2
    <3> QED  BY <3>1, <3>2
  <2>3. workers[id] # <<>>
    OBVIOUS
  <2> QED  BY <1>2, <1>3, <2>1, <2>2, <2>3 DEF GoInv, BlocksOK
<1>6. completed'[id] = Cardinality(CompletedBlocks(id)')
  BY <1>2 DEF GoInv, CountOK, CompletedBlocks
<1>7. \A n \in DOMAIN outgoing' : outgoing'[n] \in posted'
  BY <1>2 DEF GoInv, EndsOK
<1>8. workers[id][i] # Returned
  BY <1>1, States DEF Steps
<1> QED  BY <1>2, <1>3, <1>4, <1>5, <1>6, <1>7, <1>8, WorkerStep

LEMMA WorkerPostsStartedStep ==
  ASSUME GoInv, NEW id \in Ids, NEW i \in DOMAIN workers[id], WorkerPostsStarted(id, i)
  PROVE  /\ GoInv'
         /\ LET msg == StartedMsg(id, workers[id][i].block) IN
            msg \in Msg /\ msg \notin posted /\ outgoing' = Append(outgoing, msg) /\ ~Ended(id)
<1>1. PICK b \in Blocks(id) : b = workers[id][i].block /\ workers[id][i] = At("started", b)
  BY WorkerHas DEF WorkerPostsStarted, WorkerAt, GoInv, Steps
<1>2. /\ workers' = Changed(id, i, At("calculate", b))
      /\ Post(BlockMsg("BLOCK_STARTED", id, b))
      /\ UNCHANGED <<client, lastId, toServer, toClient, conn, aborting, abortId,
                     pc, blocks, completion, completed, panicked>>
  BY <1>1 DEF WorkerPostsStarted, clientVars, callVars, Changed
<1>3. /\ At("calculate", b) \in WorkerState(id)
      /\ DOMAIN workers'[id] = DOMAIN workers[id] /\ workers'[id][i] = At("calculate", b)
      /\ \A j \in DOMAIN workers[id] : j # i => workers'[id][j] = workers[id][j]
      /\ \A j \in DOMAIN workers[id] : \A blk : Holds(id, j, blk)' <=> Holds(id, j, blk)
  BY <1>1, <1>2, HoldsSame DEF GoInv, Steps
<1>4. BlockMsg("BLOCK_STARTED", id, b) \in Msg
  BY MsgKinds DEF BlockOps
<1>5. /\ outgoing' \in Seq(Msg) /\ Len(outgoing') <= Capacity
      /\ posted' \subseteq Msg /\ posted' = posted \cup {BlockMsg("BLOCK_STARTED", id, b)}
      /\ \A n \in DOMAIN outgoing' : outgoing'[n] \in posted'
  BY <1>2, <1>4, Posted DEF GoInv, EndsOK
<1>6. /\ \A op \in EndOps : \A k : EndMsg(op, k) \in posted' <=> EndMsg(op, k) \in posted
      /\ \A k, blk :
            /\ StartedMsg(k, blk) \in posted' <=> StartedMsg(k, blk) \in posted \/ (k = id /\ blk = b)
            /\ CompletedMsg(k, blk) \in posted' <=> CompletedMsg(k, blk) \in posted
  BY <1>5, BlockPosted DEF BlockOps
<1>7. TypeOK'
  BY <1>2, <1>3, <1>5, WorkerTypes DEF GoInv, TypeOK
<1>8. /\ Holds(id, i, b) /\ b <= Given(id) /\ StartedMsg(id, b) \notin posted
      /\ \A j \in DOMAIN workers[id] : Holds(id, j, b) => j = i
  <2>1. Holds(id, i, b)
    BY <1>1 DEF Holds
  <2> QED  BY <1>1, <2>1 DEF GoInv, BlocksOK
<1>9. BlocksOK(id)'
  <2>1. (Started(id)' <=> Started(id)) /\ Given(id)' = Given(id)
    BY <1>2 DEF Started, Given
  <2>2. ASSUME NEW j \in DOMAIN workers[id], NEW blk \in Blocks(id)
        PROVE  /\ workers'[id][j] = At("started", blk) => StartedMsg(id, blk) \notin posted'
               /\ workers'[id][j] \in {At("calculate", blk), At("completed", blk)}
                     => StartedMsg(id, blk) \in posted'
    <3>1. CASE j = i
      BY <1>3, <1>6, <3>1, States
    <3>2. CASE j # i
      <4>1. workers[id][j] = At("started", blk) => blk # b
        BY <1>8, <3>2 DEF Holds
      <4> QED  BY <1>3, <1>6, <3>2, <4>1 DEF GoInv, BlocksOK
    <3> QED  BY <3>1, <3>2
  <2>3. workers[id] # <<>>
    OBVIOUS
  <2> QED  BY <1>2, <1>3, <1>6, <1>8, <2>1, <2>2, <2>3 DEF GoInv, BlocksOK
<1>10. completed'[id] = Cardinality(CompletedBlocks(id)')
  BY <1>2, <1>6 DEF GoInv, CountOK, CompletedBlocks
<1>11. workers[id][i] # Returned
  BY <1>1, States DEF Steps
<1>12. ~Ended(id)
  BY <1>11 DEF GoInv, EndsOK, Quiet
<1>13. GoInv'
  BY <1>2, <1>3, <1>5, <1>6, <1>7, <1>9, <1>10, <1>11, WorkerStep
<1> QED  BY <1>1, <1>2, <1>4, <1>8, <1>12, <1>13 DEF Post, StartedMsg

LEMMA WorkerPostsCompletedStep ==
  ASSUME GoInv, NEW id \in Ids, NEW i \in DOMAIN workers[id], WorkerPostsCompleted(id, i)
  PROVE  /\ GoInv'
         /\ LET msg == CompletedMsg(id, workers[id][i].block) IN
            msg \in Msg /\ msg \notin posted /\ outgoing' = Append(outgoing, msg) /\ ~Ended(id)
<1>1. PICK b \in Blocks(id) : b = workers[id][i].block /\ workers[id][i] = At("completed", b)
  BY WorkerHas DEF WorkerPostsCompleted, WorkerAt, GoInv, Steps
<1>2. /\ workers' = Changed(id, i, Taking)
      /\ Post(BlockMsg("BLOCK_COMPLETED", id, b))
      /\ completed' = [completed EXCEPT ![id] = completed[id] + 1]
      /\ UNCHANGED <<client, lastId, toServer, toClient, conn, aborting, abortId,
                     pc, blocks, completion, panicked>>
  BY <1>1 DEF WorkerPostsCompleted, clientVars, callVars, Changed
<1>3. Taking \in WorkerState(id)
  BY DEF WorkerState
<1>4. /\ DOMAIN workers'[id] = DOMAIN workers[id] /\ workers'[id][i] = Taking
      /\ \A j \in DOMAIN workers[id] : j # i => workers'[id][j] = workers[id][j]
  BY <1>2, <1>3, HoldsAfter DEF GoInv
<1>5. \A j \in DOMAIN workers[id] : j # i => \A blk : Holds(id, j, blk)' <=> Holds(id, j, blk)
  BY <1>2, <1>3, HoldsAfter DEF GoInv
<1>6. \A blk : ~Holds(id, i, blk)'
  BY <1>4, States DEF Holds, Steps
<1>7. BlockMsg("BLOCK_COMPLETED", id, b) \in Msg
  BY MsgKinds DEF BlockOps
<1>8. /\ outgoing' \in Seq(Msg) /\ Len(outgoing') <= Capacity
      /\ posted' \subseteq Msg /\ posted' = posted \cup {BlockMsg("BLOCK_COMPLETED", id, b)}
      /\ \A n \in DOMAIN outgoing' : outgoing'[n] \in posted'
  BY <1>2, <1>7, Posted DEF GoInv, EndsOK
<1>9. /\ \A op \in EndOps : \A k : EndMsg(op, k) \in posted' <=> EndMsg(op, k) \in posted
      /\ \A k, blk :
            /\ StartedMsg(k, blk) \in posted' <=> StartedMsg(k, blk) \in posted
            /\ CompletedMsg(k, blk) \in posted' <=> CompletedMsg(k, blk) \in posted \/ (k = id /\ blk = b)
  BY <1>8, BlockPosted DEF BlockOps
<1>10. /\ Holds(id, i, b) /\ b <= Given(id)
       /\ StartedMsg(id, b) \in posted /\ CompletedMsg(id, b) \notin posted
       /\ \A j \in DOMAIN workers[id] : Holds(id, j, b) => j = i
  <2>1. Holds(id, i, b)
    BY <1>1 DEF Holds
  <2> QED  BY <1>1, <2>1 DEF GoInv, BlocksOK
<1>11. BlocksOK(id)'
  <2>1. (Started(id)' <=> Started(id)) /\ Given(id)' = Given(id)
    BY <1>2 DEF Started, Given
  <2>2. ASSUME NEW j \in DOMAIN workers[id], NEW blk \in Blocks(id)
        PROVE  /\ Holds(id, j, blk)' => blk <= Given(id)' /\ CompletedMsg(id, blk) \notin posted'
               /\ workers'[id][j] = At("started", blk) => StartedMsg(id, blk) \notin posted'
               /\ workers'[id][j] \in {At("calculate", blk), At("completed", blk)}
                     => StartedMsg(id, blk) \in posted'
    <3>1. CASE j = i
      BY <1>4, <1>6, <3>1, States DEF Steps
    <3>2. CASE j # i
      BY <1>4, <1>5, <1>9, <1>10, <2>1, <3>2 DEF GoInv, BlocksOK
    <3> QED  BY <3>1, <3>2
  <2>3. workers[id] # <<>>
    OBVIOUS
  <2>4. \A blk \in Blocks(id) : \A k, j \in DOMAIN workers[id] :
            Holds(id, k, blk)' /\ Holds(id, j, blk)' => k = j
    BY <1>5, <1>6 DEF GoInv, BlocksOK
  <2>5. \A blk \in Blocks(id) : /\ StartedMsg(id, blk) \in posted' => blk <= Given(id)'
                                /\ CompletedMsg(id, blk) \in posted' => StartedMsg(id, blk) \in posted'
    BY <1>9, <1>10, <2>1 DEF GoInv, BlocksOK
  <2>6. /\ Len(blocks'[id]) <= NumBlocks[id]
        /\ \A n \in DOMAIN blocks'[id] : blocks'[id][n] = Given(id)' + n
        /\ Started(id)'
    BY <1>2, <2>1, <2>3 DEF GoInv, BlocksOK
  <2> QED  BY <1>4, <2>2, <2>4, <2>5, <2>6 DEF BlocksOK
<1>12. /\ completed'[id] = Cardinality(CompletedBlocks(id)')
       /\ completed' \in [Ids -> Nat] /\ \A k \in Ids : completed'[k] <= NumBlocks[k]
  <2>1. completed \in [Ids -> Nat] /\ \A k \in Ids : completed[k] <= NumBlocks[k]
    BY DEF GoInv, TypeOK
  <2>2. CompletedBlocks(id)' = CompletedBlocks(id) \cup {b} /\ b \notin CompletedBlocks(id)
    BY <1>9, <1>10 DEF CompletedBlocks
  <2>3. NumBlocks[id] \in Nat
    BY GoDispatcherAssumption DEF Ids
  <2>4. IsFiniteSet(Blocks(id)) /\ Cardinality(Blocks(id)) = NumBlocks[id]
    <3>1. 1 \in Int /\ NumBlocks[id] \in Int
      BY <2>3
    <3>2. IsFiniteSet(1..NumBlocks[id])
          /\ Cardinality(1..NumBlocks[id]) = IF 1 > NumBlocks[id] THEN 0 ELSE NumBlocks[id] - 1 + 1
      BY <3>1, FS_Interval
    <3> QED  BY <2>3, <3>2 DEF Blocks
  <2>5. CompletedBlocks(id) \subseteq Blocks(id) /\ CompletedBlocks(id) \cup {b} \subseteq Blocks(id)
    BY DEF CompletedBlocks
  <2>6. IsFiniteSet(CompletedBlocks(id)) /\ Cardinality(CompletedBlocks(id) \cup {b}) <= NumBlocks[id]
    BY <2>4, <2>5, FS_Subset
  <2>7. Cardinality(CompletedBlocks(id) \cup {b}) = Cardinality(CompletedBlocks(id)) + 1
    BY <2>2, <2>6, FS_AddElement
  <2>8. completed[id] = Cardinality(CompletedBlocks(id)) /\ completed[id] \in Nat
    BY <2>1 DEF GoInv, CountOK
  <2>9. completed'[id] = completed[id] + 1 /\ \A k \in Ids : k # id => completed'[k] = completed[k]
    BY <1>2, <2>1
  <2>10. completed' \in [Ids -> Nat]
    BY <1>2, <2>1, <2>8
  <2> QED  BY <2>1, <2>2, <2>6, <2>7, <2>8, <2>9, <2>10
<1>13. TypeOK'
  BY <1>2, <1>3, <1>8, <1>12, WorkerTypes DEF GoInv, TypeOK
<1>14. workers[id][i] # Returned
  BY <1>1, States DEF Steps
<1>15. ~Ended(id)
  BY <1>14 DEF GoInv, EndsOK, Quiet
<1>16. \A k \in Ids : k # id => completed'[k] = completed[k]
  BY <1>2 DEF GoInv, TypeOK
<1>17. GoInv'
  BY <1>2, <1>3, <1>8, <1>9, <1>11, <1>12, <1>13, <1>14, <1>16, WorkerStep
<1> QED  BY <1>1, <1>2, <1>7, <1>10, <1>15, <1>17 DEF Post, CompletedMsg

-----------------------------------------------------------------------------
(* The theorems.                                                           *)

LEMMA InitInv == Init => GoInv
<1> SUFFICES ASSUME Init
             PROVE  GoInv
  OBVIOUS
<1>1. /\ \A id \in Ids : /\ NumBlocks[id] \in Nat \ {0}
                         /\ ~Started(id) /\ Quiet(id) /\ workers[id] = <<>> /\ blocks[id] = <<>>
                         /\ completed[id] = 0 /\ completion[id] = "none"
      /\ MaxCalc \in Nat /\ Capacity \in Nat
  BY GoDispatcherAssumption DEF Init, Ids, Started, Quiet
<1>2. posted = {} /\ toServer = <<>> /\ toClient = <<>> /\ outgoing = <<>> /\ lastId = 0
      /\ client = "waiting" /\ pc["reader"] = "run" /\ \A id \in Ids : id \in Nat \ {0}
  BY DEF Init, Closer, Ids
<1>3. TypeOK
  <2>1. \A id \in Ids : workers[id] \in Seq(WorkerState(id)) /\ blocks[id] \in Seq(Blocks(id))
    <3>1. \A S : <<>> \in Seq(S)
      OBVIOUS
    <3> QED  BY <1>1, <3>1
  <2>2. toServer \in Seq(ClientMsg) /\ toClient \in Seq(Msg) /\ outgoing \in Seq(Msg) /\ Len(outgoing) <= Capacity
    BY <1>1, <1>2
  <2>3. completed \in [Ids -> Nat] /\ \A id \in Ids : completed[id] <= NumBlocks[id]
    BY <1>1 DEF Init
  <2>4. pc \in [Closer -> {"run", "close", "exited"} \cup WaitStep]
        /\ completion \in [Ids -> {"none", "new", "done"} \cup WaitStep]
    BY DEF Init
  <2>5. /\ client = "waiting" /\ lastId \in 0..MaxCalc /\ conn = "open" /\ posted \subseteq Msg
        /\ aborting = FALSE /\ abortId = 0 /\ panicked = FALSE
        /\ DOMAIN workers = Ids /\ DOMAIN blocks = Ids
    BY <1>1, <1>2 DEF Init
  <2> QED  BY <2>1, <2>2, <2>3, <2>4, <2>5 DEF TypeOK
<1>4. RequestsOK
  BY <1>1, <1>2 DEF RequestsOK
<1>5. AbortsOK
  BY <1>1, <1>2 DEF AbortsOK, Aborting, WaitStep
<1>6. EndsOK
  BY <1>1, <1>2 DEF EndsOK, Ended
<1>7. \A id \in Ids : BlocksOK(id)
  BY <1>1, <1>2 DEF BlocksOK
<1>8. CountOK
  <2>1. \A id : CompletedBlocks(id) = {}
    BY <1>2 DEF CompletedBlocks
  <2> QED  BY <1>1, <2>1, FS_EmptySet DEF CountOK
<1> QED  BY <1>3, <1>4, <1>5, <1>6, <1>7, <1>8 DEF GoInv

LEMMA StutterStep ==
  ASSUME GoInv, UNCHANGED vars
  PROVE  GoInv'
<1>1. UNCHANGED <<client, lastId, toServer, toClient, conn, outgoing, posted, aborting, pc, abortId,
                  workVars, panicked>>
  BY DEF vars, clientVars, channelVars, callVars
<1>2. TypeOK'
  BY <1>1, CallTypes DEF GoInv, TypeOK
<1> QED  BY <1>1, <1>2, CallStep DEF GoInv, EndsOK, Aborting

LEMMA NextInv == GoInv /\ [Next]_vars => GoInv'
<1> SUFFICES ASSUME GoInv, [Next]_vars
             PROVE  GoInv'
  OBVIOUS
<1>1. CASE Client
  BY <1>1, ClientStartStep, ClientAbortStep, ClientReceiveStep, ClientLeavesStep DEF Client
<1>2. ASSUME NEW g \in Closer, Closing(g)
      PROVE  GoInv'
  BY <1>2, WakeAbortStep, EndCloseAbortStep, CloseConnStep DEF Closing
<1>3. CASE Reader
  BY <1>2, <1>3, OnAbortStep, OnStartStep, ReadFailsStep, EndAbortStep DEF Reader, Closer
<1>4. CASE Writer
  BY <1>2, <1>4, WritesStep, WriteFailsStep DEF Writer, Closer
<1>5. CASE MainCloses
  BY <1>5, MainClosesStep
<1>6. CASE Closing("main")
  BY <1>2, <1>6 DEF Closer
<1>7. ASSUME NEW id \in Ids, NEW i \in DOMAIN workers[id], Worker(id, i)
      PROVE  GoInv'
  BY <1>7, WorkerTakesStep, WorkerPostsStartedStep, WorkerAbortsStep, WorkerCalculatesStep,
     WorkerPostsCompletedStep DEF Worker
<1>8. ASSUME NEW id \in Ids, Completion(id)
      PROVE  GoInv'
  BY <1>8, CompletionWaitsStep, CompletionWakesStep, CompletionEndsStep DEF Completion
<1>9. CASE UNCHANGED vars
  BY <1>9, StutterStep
<1> QED  BY <1>1, <1>3, <1>4, <1>5, <1>6, <1>7, <1>8, <1>9 DEF Next

LEMMA Invariance == Spec => []GoInv
<1> QED  BY InitInv, NextInv, PTL DEF Spec

\* The types of the dispatcher's state: the channel never holds more than its
\* capacity, and no counter of completed blocks runs past the number of blocks.
THEOREM GoTypeCorrect == Spec => []TypeOK
<1>1. GoInv => TypeOK
  BY DEF GoInv
<1> QED  BY <1>1, Invariance, PTL

LEMMA SoundFromInv == GoInv => AnswersAreSound
<1> SUFFICES ASSUME GoInv
             PROVE  CompletedIsComplete /\ StartFindsNoWorkers
  BY DEF AnswersAreSound
<1>1. ASSUME NEW id \in Ids, EndMsg("COMPLETED", id) \in posted, NEW blk \in Blocks(id)
      PROVE  StartedMsg(id, blk) \in posted /\ CompletedMsg(id, blk) \in posted
  <2>1. Cardinality(CompletedBlocks(id)) = NumBlocks[id]
    BY <1>1 DEF GoInv, EndsOK, CountOK
  <2>2. NumBlocks[id] \in Nat
    BY GoDispatcherAssumption DEF Ids
  <2>3. IsFiniteSet(Blocks(id)) /\ Cardinality(Blocks(id)) = NumBlocks[id]
    <3>1. IsFiniteSet(1..NumBlocks[id])
          /\ Cardinality(1..NumBlocks[id]) = IF 1 > NumBlocks[id] THEN 0 ELSE NumBlocks[id] - 1 + 1
      BY <2>2, FS_Interval
    <3> QED  BY <2>2, <3>1 DEF Blocks
  <2>4. CompletedBlocks(id) \subseteq Blocks(id)
    BY DEF CompletedBlocks
  <2>5. CompletedBlocks(id) = Blocks(id)
    BY <2>1, <2>3, <2>4, FS_Subset
  <2>6. CompletedMsg(id, blk) \in posted
    BY <2>5 DEF CompletedBlocks
  <2> QED  BY <2>6 DEF GoInv, BlocksOK
<1>2. CompletedIsComplete
  BY <1>1 DEF CompletedIsComplete, StartedMsg, CompletedMsg
<1>3. StartFindsNoWorkers
  <2> SUFFICES ASSUME toServer # <<>>, Head(toServer).op = "START"
               PROVE  AllReturned(workers)
    BY DEF StartFindsNoWorkers
  <2>1. toServer \in Seq(ClientMsg)
    BY DEF GoInv, TypeOK
  <2>2. 1 \in DOMAIN toServer /\ Head(toServer) = toServer[1]
    <3> HIDE DEF ClientMsg
    <3> QED  BY <2>1, TailOne
  <2> QED  BY <2>2, NoneLeft
<1> QED  BY <1>2, <1>3

\* Whatever the goroutines wait for and in whatever order they run, COMPLETED
\* is posted only when every block was reported as started and as completed,
\* and a START never meets a worker of an earlier calculation.
THEOREM GoAnswersSound == Spec => []AnswersAreSound
BY Invariance, SoundFromInv, PTL

-----------------------------------------------------------------------------
(* The order of what is posted.                                            *)

PostsInOrder ==
    \A msg \in Msg : outgoing' = Append(outgoing, msg) =>
        /\ msg \notin posted
        /\ EndMsg("ABORTED", msg.id) \in posted => IsEnd(msg)

LEMMA AppendLast ==
  ASSUME NEW S, NEW s \in Seq(S), NEW e \in S, NEW e2 \in S, Append(s, e) = Append(s, e2)
  PROVE  e = e2
OBVIOUS

\* A step that puts nothing on the channel.
LEMMA NothingPosted ==
  ASSUME TypeOK, outgoing' = outgoing \/ (outgoing # <<>> /\ outgoing' = Tail(outgoing))
  PROVE  PostsInOrder
<1> SUFFICES ASSUME NEW msg \in Msg
             PROVE  outgoing' # Append(outgoing, msg)
  BY DEF PostsInOrder
<1>1. outgoing \in Seq(Msg)
  BY DEF TypeOK
<1> HIDE DEF Msg
<1>2. Len(outgoing) \in Nat /\ Len(Append(outgoing, msg)) = Len(outgoing) + 1
  BY <1>1, AppendOne
<1>3. outgoing # <<>> => Len(Tail(outgoing)) = Len(outgoing) - 1
  BY <1>1, TailOne
<1> QED  BY <1>2, <1>3

\* A step that puts one message on it.
LEMMA OnePosted ==
  ASSUME TypeOK, NEW m \in Msg, outgoing' = Append(outgoing, m), m \notin posted,
         EndMsg("ABORTED", m.id) \in posted => IsEnd(m)
  PROVE  PostsInOrder
<1> SUFFICES ASSUME NEW msg \in Msg, outgoing' = Append(outgoing, msg)
             PROVE  msg = m
  BY DEF PostsInOrder
<1>1. outgoing \in Seq(Msg)
  BY DEF TypeOK
<1> HIDE DEF Msg
<1>2. Append(outgoing, msg) = Append(outgoing, m)
  OBVIOUS
<1> QED  BY <1>1, <1>2, AppendLast

LEMMA PostsFromInv == GoInv /\ [Next]_vars => [PostsInOrder]_vars
<1> SUFFICES ASSUME GoInv, Next
             PROVE  PostsInOrder
  OBVIOUS
<1>0. TypeOK
  BY DEF GoInv
<1>1. CASE Client
  <2>1. outgoing' = outgoing
    BY <1>1 DEF Client, ClientStart, ClientAbort, ClientReceive, ClientLeaves, serverVars, channelVars
  <2> QED  BY <1>0, <2>1, NothingPosted
<1>2. ASSUME NEW g \in Closer, Closing(g)
      PROVE  PostsInOrder
  <2>1. outgoing' = outgoing
    BY <1>2 DEF Closing, WakeAbort, EndCloseAbort, CloseConn, channelVars
  <2> QED  BY <1>0, <2>1, NothingPosted
<1>3. CASE OnAbort \/ OnStart \/ ReadFails \/ MainCloses
  <2>1. outgoing' = outgoing
    BY <1>3 DEF OnAbort, OnStart, ReadFails, MainCloses, channelVars
  <2> QED  BY <1>0, <2>1, NothingPosted
<1>4. CASE EndAbort
  <2>1. abortId \in Ids /\ outgoing' = Append(outgoing, EndMsg("ABORTED", abortId))
    BY <1>0, <1>4 DEF EndAbort, Post, TypeOK
  <2>2. EndMsg("ABORTED", abortId) \in Msg /\ IsEnd(EndMsg("ABORTED", abortId))
    BY <2>1, MsgKinds DEF EndOps
  <2> QED  BY <1>0, <1>4, <2>1, <2>2, EndAbortStep, OnePosted
<1>5. CASE Writes \/ WriteFails
  <2>1. outgoing # <<>> /\ outgoing' = Tail(outgoing)
    BY <1>5 DEF Writes, WriteFails, WriterTakes
  <2> QED  BY <1>0, <2>1, NothingPosted
<1>6. ASSUME NEW id \in Ids, NEW i \in DOMAIN workers[id], Worker(id, i)
      PROVE  PostsInOrder
  <2>1. CASE WorkerTakes(id, i) \/ WorkerAborts(id, i) \/ WorkerCalculates(id, i)
    <3>1. outgoing' = outgoing
      BY <2>1 DEF WorkerTakes, WorkerAborts, WorkerCalculates, channelVars
    <3> QED  BY <1>0, <3>1, NothingPosted
  <2>2. ASSUME NEW msg \in Msg, msg \notin posted, outgoing' = Append(outgoing, msg), ~Ended(id), msg.id = id
        PROVE  PostsInOrder
    BY <1>0, <2>2, OnePosted DEF Ended
  <2>3. CASE WorkerPostsStarted(id, i)
    <3>1. StartedMsg(id, workers[id][i].block).id = id
      BY DEF StartedMsg, BlockMsg
    <3> QED  BY <2>2, <2>3, <3>1, WorkerPostsStartedStep
  <2>4. CASE WorkerPostsCompleted(id, i)
    <3>1. CompletedMsg(id, workers[id][i].block).id = id
      BY DEF CompletedMsg, BlockMsg
    <3> QED  BY <2>2, <2>4, <3>1, WorkerPostsCompletedStep
  <2> QED  BY <1>6, <2>1, <2>3, <2>4 DEF Worker
<1>7. ASSUME NEW id \in Ids, Completion(id)
      PROVE  PostsInOrder
  <2>1. CASE outgoing' = outgoing
    BY <1>0, <2>1, NothingPosted
  <2>2. CASE CompletionEnds(id) /\ outgoing' # outgoing
    <3>1. outgoing' = Append(outgoing, EndMsg("COMPLETED", id))
      BY <2>2 DEF CompletionEnds, Post, channelVars
    <3>2. EndMsg("COMPLETED", id) \in Msg /\ IsEnd(EndMsg("COMPLETED", id))
      BY MsgKinds DEF EndOps
    <3> QED  BY <1>0, <2>2, <3>1, <3>2, CompletionEndsStep, OnePosted
  <2> QED  BY <1>7, <2>1, <2>2 DEF Completion, CompletionWaits, CompletionWakes, channelVars
<1> QED
  BY <1>1, <1>2, <1>3, <1>4, <1>5, <1>6, <1>7 DEF Next, Reader, Writer, Closer

\* However many workers wait for room in the channel when a calculation is
\* aborted, nothing is posted twice and no block after ABORTED.
THEOREM GoPostedInOrder == Spec => PostedInOrder
<1>1. PostedInOrder <=> [][PostsInOrder]_vars
  BY PTL DEF PostedInOrder, PostsInOrder
<1> QED  BY <1>1, Invariance, PostsFromInv, PTL DEF Spec
=============================================================================
