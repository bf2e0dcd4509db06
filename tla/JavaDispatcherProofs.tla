------------------------ MODULE JavaDispatcherProofs ------------------------
(***************************************************************************)
(* Proofs about the Java server.  The types hold for any number of         *)
(* sessions.  What is sent is in order while there has been one session:   *)
(* the sessions share two static fields, and handlers use them after       *)
(* another session has written them.                                       *)
(***************************************************************************)
EXTENDS JavaDispatcher, FiniteSetTheorems, TLAPS

-----------------------------------------------------------------------------
(* The inductive invariant, first what holds for all sessions.             *)

Started(id) == executors[id] # NoExecutor

\* What a handler uses was started, and a client that waits for a calculation has
\* asked for one.
UsesOK ==
    /\ threads # Null => Started(threads)
    /\ \A s \in Sessions :
          /\ handler[s].at = "await" => Started(handler[s].executor)
          /\ client[s] = "calculating" => calc[s] \in Ids

\* Nothing belongs to a session that has not been opened.
NewOK ==
    /\ \A s \in Sessions : session[s] = "new" =>
          /\ toServer[s] = <<>> /\ toClient[s] = <<>> /\ handler[s] = Idle
          /\ \A id \in Ids : Started(id) => executors[id].session # s
    /\ (\A s \in Sessions : session[s] = "new") =>
          lastId = 0 /\ threads = Null /\ posted = {} /\ \A id \in Ids : ~Started(id)

-----------------------------------------------------------------------------
(* And what holds while there has been one session.                        *)

IsStart(msg) == msg.op = "START"
Waits(s) == \E n \in DOMAIN toServer[s] : IsStart(toServer[s][n])

\* The calculation started last; the client has asked for one more if a START is
\* on its way.
LastStarted(s) == IF Waits(s) THEN lastId - 1 ELSE lastId

\* One START at most is on its way.  An ABORT is for the calculation that is the
\* last when it is read.
RequestsOK(s) ==
    /\ calc[s] = lastId
    /\ \A m, n \in DOMAIN toServer[s] : IsStart(toServer[s][m]) /\ IsStart(toServer[s][n]) => m = n
    /\ \A n \in DOMAIN toServer[s] :
          toServer[s][n].id = IF \E m \in DOMAIN toServer[s] : m <= n /\ IsStart(toServer[s][m])
                              THEN lastId ELSE LastStarted(s)
    /\ \A id \in Ids : Started(id) <=> id <= LastStarted(s)
    /\ session[s] # "closed" => threads = LastStarted(s)

EndOps == {"COMPLETED", "ABORTED"}
Ended(id) == \E op \in EndOps : EndMsg(op, id) \in posted

\* The handler works for the calculation started last.
HandlerOK(s) ==
    /\ session[s] = "closed" => handler[s] = Idle
    /\ handler[s].at # "idle" => handler[s].id = LastStarted(s)
    /\ handler[s].at = "await" => handler[s].executor = handler[s].id
    /\ handler[s].at = "start" => ~Ended(handler[s].id)

\* The executor has nothing to do.
Quiet(id) ==
    executors[id].queue = <<>> /\ executors[id].tasks = {} /\ executors[id].counting = 0

\* An end is sent when the executor has nothing to do any more, and the client
\* goes on when it has read one.
EndsOK(s) ==
    /\ \A id \in Ids : id < lastId => Ended(id)
    /\ client[s] = "waiting" /\ lastId \in Ids => Ended(lastId)
    /\ \A n \in DOMAIN toClient[s] : toClient[s][n] \in posted /\ toClient[s][n].op \in EndOps
    /\ \A id \in Ids : Ended(id) => Started(id) /\ Quiet(id)

StartedMsg(id, blk) == [op |-> "BLOCK_STARTED", id |-> id, block |-> blk]
CompletedMsg(id, blk) == [op |-> "BLOCK_COMPLETED", id |-> id, block |-> blk]
CompletedBlocks(id) == {blk \in Blocks : CompletedMsg(id, blk) \in posted}

\* The blocks of a calculation not sent as started come after blk.
Adding(id, blk) == \E s \in Sessions :
    handler[s].at = "start" /\ handler[s].id = id /\ handler[s].block = blk

\* Blocks are added to the queue and taken from it in order, and counted after
\* they were sent.
BlocksOK(id) ==
    /\ \A msg \in posted : msg.id = id => Started(id)
    /\ Started(id) =>
          /\ \A n \in DOMAIN executors[id].queue :
                /\ executors[id].queue[n].id = id
                /\ \A m \in DOMAIN executors[id].queue :
                      m < n => executors[id].queue[m].block < executors[id].queue[n].block
                /\ \A blk \in Blocks :
                      /\ StartedMsg(id, blk) \in posted => blk < executors[id].queue[n].block
                      /\ Adding(id, blk) => executors[id].queue[n].block < blk
          /\ \A task \in executors[id].tasks :
                /\ task.id = id /\ StartedMsg(id, task.block) \in posted
                /\ CompletedMsg(id, task.block) \notin posted
          /\ \A blk \in Blocks :
                /\ \A next \in Blocks : StartedMsg(id, blk) \in posted /\ Adding(id, next) => blk < next
                /\ CompletedMsg(id, blk) \in posted => StartedMsg(id, blk) \in posted
                /\ EndMsg("COMPLETED", id) \in posted => CompletedMsg(id, blk) \in posted
          /\ Cardinality(CompletedBlocks(id))
                = NumBlocks - executors[id].left + executors[id].counting

SessionOK(s) == RequestsOK(s) /\ HandlerOK(s) /\ EndsOK(s)

SoundOK ==
    /\ \A s \in Sessions : session[s] # "new" => SessionOK(s)
    /\ \A id \in Ids : BlocksOK(id)

OneInv == OneSession => SoundOK

JavaInv == TypeOK /\ UsesOK /\ NewOK /\ OneInv

-----------------------------------------------------------------------------
(* Executors and sequences.                                                *)

LEMMA AppendOne ==
  ASSUME NEW S, NEW s \in Seq(S), NEW e \in S
  PROVE  /\ Append(s, e) \in Seq(S)
         /\ Len(Append(s, e)) = Len(s) + 1
         /\ DOMAIN Append(s, e) = 1 .. Len(s) + 1
         /\ DOMAIN s = 1 .. Len(s)
         /\ Len(s) \in Nat
         /\ \A n \in 1 .. Len(s) : Append(s, e)[n] = s[n]
         /\ Append(s, e)[Len(s) + 1] = e
OBVIOUS

LEMMA TailOne ==
  ASSUME NEW S, NEW s \in Seq(S), s # <<>>
  PROVE  /\ Tail(s) \in Seq(S)
         /\ Head(s) \in S /\ Head(s) = s[1] /\ 1 \in DOMAIN s
         /\ Len(s) \in Nat \ {0}
         /\ DOMAIN s = 1 .. Len(s) /\ DOMAIN Tail(s) = 1 .. Len(s) - 1
         /\ \A n \in DOMAIN Tail(s) : n + 1 \in DOMAIN s /\ Tail(s)[n] = s[n + 1]
OBVIOUS

Put(id, e) == [executors EXCEPT ![id] = e]

\* One executor changes.
LEMMA ExecutorChanges ==
  ASSUME TypeOK, NEW id \in Ids, NEW e \in ExecutorState, WithinBounds(e),
         executors' = Put(id, e)
  PROVE  /\ executors' \in [Ids -> {NoExecutor} \cup ExecutorState]
         /\ executors'[id] = e
         /\ \A k \in Ids : k # id => executors'[k] = executors[k]
         /\ \A k \in Ids : executors'[k] # NoExecutor => WithinBounds(executors'[k])
         /\ \A k \in Ids : Started(k)' <=> Started(k) \/ k = id
<1>1. executors \in [Ids -> {NoExecutor} \cup ExecutorState]
  BY DEF TypeOK
<1>2. executors' \in [Ids -> {NoExecutor} \cup ExecutorState] /\ executors'[id] = e
      /\ \A k \in Ids : k # id => executors'[k] = executors[k]
  BY <1>1 DEF Put
<1>3. e # NoExecutor
  BY DEF NoExecutor, ExecutorState
<1> QED  BY <1>2, <1>3 DEF TypeOK, Started

\* The threads of an executor are counted.
LEMMA TasksFinite == IsFiniteSet(Task)
<1>1. IsFiniteSet(Ids) /\ IsFiniteSet(Blocks)
  BY FS_Interval, JavaDispatcherAssumption DEF Ids, Blocks
<1>2. IsFiniteSet(Ids \X Blocks)
  BY <1>1, FS_Product
<1> DEFINE f == [p \in Ids \X Blocks |-> [id |-> p[1], block |-> p[2]]]
<1>3. f \in Surjection(Ids \X Blocks, Task)
  <2>1. f \in [Ids \X Blocks -> Task]
    BY DEF Task
  <2>2. ASSUME NEW t \in Task
        PROVE  \E p \in Ids \X Blocks : f[p] = t
    <3>1. t.id \in Ids /\ t.block \in Blocks /\ t = [id |-> t.id, block |-> t.block]
      BY DEF Task
    <3>2. <<t.id, t.block>> \in Ids \X Blocks /\ f[<<t.id, t.block>>] = t
      BY <3>1
    <3> QED  BY <3>2
  <2> QED  BY <2>1, <2>2 DEF Surjection
<1> QED  BY <1>2, <1>3, FS_Surjection

LEMMA AddOne ==
  ASSUME NEW S, IsFiniteSet(S), NEW x
  PROVE  /\ Cardinality(S) \in Nat /\ Cardinality(S \cup {x}) \in Nat
         /\ Cardinality(S \cup {x}) <= Cardinality(S) + 1
         /\ x \notin S => Cardinality(S \cup {x}) = Cardinality(S) + 1
<1>1. /\ IsFiniteSet(S \cup {x})
      /\ Cardinality(S \cup {x}) = IF x \in S THEN Cardinality(S) ELSE Cardinality(S) + 1
  BY FS_AddElement
<1>2. Cardinality(S) \in Nat /\ Cardinality(S \cup {x}) \in Nat
  BY <1>1, FS_CardinalityType
<1> QED  BY <1>1, <1>2

LEMMA RemoveOne ==
  ASSUME NEW S, IsFiniteSet(S), NEW x \in S
  PROVE  /\ Cardinality(S) \in Nat /\ Cardinality(S \ {x}) \in Nat
         /\ Cardinality(S \ {x}) = Cardinality(S) - 1
<1>1. IsFiniteSet(S \ {x}) /\ Cardinality(S \ {x}) = Cardinality(S) - 1
  BY FS_RemoveElement
<1>2. Cardinality(S) \in Nat /\ Cardinality(S \ {x}) \in Nat
  BY <1>1, FS_CardinalityType
<1> QED  BY <1>1, <1>2

-----------------------------------------------------------------------------
(* What holds for all sessions.                                            *)

BaseInv == TypeOK /\ UsesOK /\ NewOK

LEMMA ExecutorHas ==
  ASSUME TypeOK, NEW id \in Ids, Started(id)
  PROVE  executors[id] \in ExecutorState /\ WithinBounds(executors[id])
BY DEF TypeOK, Started

\* An executor that was started changes, and the handlers use no other.
LEMMA BaseExecutor ==
  ASSUME BaseInv, NEW id \in Ids, Started(id), NEW e \in ExecutorState, WithinBounds(e),
         e.session = executors[id].session, executors' = Put(id, e),
         UNCHANGED <<clientVars, toServer, session, statics>>,
         posted' \subseteq Answer,
         toClient' \in [Sessions -> Seq(Answer)],
         handler' \in [Sessions -> HandlerState],
         \A s \in Sessions : session[s] = "new" =>
            toClient'[s] = toClient[s] /\ handler'[s] = handler[s],
         \A s \in Sessions : handler'[s].at = "await" => Started(handler'[s].executor)
  PROVE  BaseInv'
<1> USE DEF BaseInv, clientVars, statics
<1>1. /\ executors' \in [Ids -> {NoExecutor} \cup ExecutorState]
      /\ \A k \in Ids : executors'[k] # NoExecutor => WithinBounds(executors'[k])
      /\ \A k \in Ids : Started(k)' <=> Started(k)
      /\ \A k \in Ids : executors'[k] # executors[k] => k = id
      /\ executors'[id].session = executors[id].session
  BY ExecutorChanges
<1>2. TypeOK'
  BY <1>1 DEF TypeOK
<1>3. UsesOK'
  <2>1. threads \in {Null} \cup Ids
    BY DEF TypeOK
  <2>2. threads' # Null => Started(threads)'
    BY <1>1, <2>1 DEF UsesOK
  <2>3. ASSUME NEW s \in Sessions, handler'[s].at = "await"
        PROVE  executors'[handler'[s].executor] # NoExecutor
    <3>1. handler'[s] \in HandlerState
      OBVIOUS
    <3>2. handler'[s].executor \in Ids
      BY <2>3, <3>1 DEF HandlerState, Idle
    <3> QED  BY <1>1, <2>3, <3>2 DEF Started
  <2> QED  BY <2>2, <2>3 DEF UsesOK, Started
<1>4. NewOK'
  <2>1. ASSUME NEW s \in Sessions, session'[s] = "new"
        PROVE  /\ toServer'[s] = <<>> /\ toClient'[s] = <<>> /\ handler'[s] = Idle
               /\ \A k \in Ids : Started(k)' => executors'[k].session # s
    BY <1>1, <2>1 DEF NewOK
  <2>2. ~ \A s \in Sessions : session'[s] = "new"
    BY DEF NewOK
  <2> QED  BY <2>1, <2>2 DEF NewOK
<1> QED  BY <1>2, <1>3, <1>4

\* No executor changes, and nothing is sent.
LEMMA BaseOther ==
  ASSUME BaseInv, TypeOK', UNCHANGED <<executors, posted>>,
         NEW t \in Sessions, session[t] # "new", session'[t] # "new",
         \A s \in Sessions : s # t =>
            /\ session'[s] = session[s] /\ toServer'[s] = toServer[s] /\ toClient'[s] = toClient[s]
            /\ handler'[s] = handler[s] /\ client'[s] = client[s] /\ calc'[s] = calc[s],
         threads' # Null => Started(threads'),
         handler'[t].at = "await" => Started(handler'[t].executor),
         client'[t] = "calculating" => calc'[t] \in Ids
  PROVE  BaseInv'
<1>1. \A k : Started(k)' <=> executors[k] # NoExecutor
  BY DEF Started
<1>2. UsesOK'
  BY <1>1 DEF BaseInv, UsesOK, Started
<1>3. NewOK'
  BY <1>1 DEF BaseInv, NewOK, Started
<1> QED  BY <1>2, <1>3 DEF BaseInv

\* What the threads of an executor do: the executor of id becomes e.
Becomes(id, e) == executors' = Put(id, e) /\ e \in ExecutorState /\ WithinBounds(e)

LEMMA TaskBeginsBase ==
  ASSUME BaseInv, NEW id \in Ids, Started(id), TaskBegins(id)
  PROVE  /\ BaseInv'
         /\ executors[id].queue \in Seq(Task) /\ executors[id].queue # <<>>
         /\ Becomes(id, [executors[id] EXCEPT !.queue = Tail(@),
                            !.tasks = IF Sends(executors[id])
                                      THEN @ \cup {Head(executors[id].queue)} ELSE @])
<1> DEFINE ex == executors[id]
           task == Head(ex.queue)
           e == [ex EXCEPT !.queue = Tail(@), !.tasks = IF Sends(ex) THEN @ \cup {task} ELSE @]
<1>1. ex \in ExecutorState /\ WithinBounds(ex)
  BY ExecutorHas DEF BaseInv
<1>2. ex.queue \in Seq(Task) /\ ex.queue # <<>> /\ ex.tasks \subseteq Task /\ ex.counting \in Nat
      /\ ex.workers \in Nat /\ Cardinality(ex.tasks) + ex.counting < ex.workers
      /\ ex.left <= NumBlocks /\ ex.left \in Int
  BY <1>1, JavaDispatcherAssumption DEF TaskBegins, ExecutorState, WithinBounds
<1>3. task \in Task /\ Tail(ex.queue) \in Seq(Task)
  BY <1>2
<1>4. IsFiniteSet(ex.tasks) /\ Cardinality(ex.tasks) \in Nat
  BY <1>2, TasksFinite, FS_Subset, FS_CardinalityType
<1>5. Cardinality(ex.tasks \cup {task}) <= Cardinality(ex.tasks) + 1
      /\ Cardinality(ex.tasks \cup {task}) \in Nat
  BY <1>4, AddOne
<1>6. e \in ExecutorState
  BY <1>1, <1>2, <1>3 DEF ExecutorState
<1>7. WithinBounds(e)
  BY <1>1, <1>2, <1>4, <1>5 DEF WithinBounds, ExecutorState
<1>8. executors' = Put(id, e)
  <2>1. executors \in [Ids -> {NoExecutor} \cup ExecutorState]
    BY DEF BaseInv, TypeOK
  <2> QED  BY <1>1, <2>1 DEF TaskBegins, Put, ExecutorState
<1>9. posted' \subseteq Answer
  BY <1>3 DEF TaskBegins, BaseInv, TypeOK, Answer, BlockMsg, Task
<1>10. e.session = ex.session
  BY <1>1 DEF ExecutorState
<1>11. BaseInv'
  BY <1>6, <1>7, <1>8, <1>9, <1>10, BaseExecutor DEF TaskBegins, BaseInv, TypeOK, UsesOK
<1> QED  BY <1>2, <1>6, <1>7, <1>8, <1>11 DEF Becomes

\* A task ends: it was sent if sent.
LEMMA TaskEndsBase ==
  ASSUME BaseInv, NEW id \in Ids, Started(id), NEW task \in Task,
         TaskFails(id, task) \/ TaskCompletes(id, task)
  PROVE  /\ BaseInv'
         /\ task \in executors[id].tasks
         /\ Becomes(id, [executors[id] EXCEPT !.tasks = @ \ {task},
                            !.counting = IF TaskCompletes(id, task) THEN @ + 1 ELSE @])
<1> DEFINE ex == executors[id]
           more == IF TaskCompletes(id, task) THEN 1 ELSE 0
           e == [ex EXCEPT !.tasks = @ \ {task},
                           !.counting = IF TaskCompletes(id, task) THEN @ + 1 ELSE @]
<1>1. ex \in ExecutorState /\ WithinBounds(ex) /\ task \in ex.tasks
  BY ExecutorHas DEF BaseInv, TaskFails, TaskCompletes
<1>2. ex.tasks \subseteq Task /\ ex.counting \in Nat
      /\ ex.workers \in Nat /\ Cardinality(ex.tasks) + ex.counting <= ex.workers
      /\ ex.left <= NumBlocks /\ ex.left \in Int
  BY <1>1, JavaDispatcherAssumption DEF ExecutorState, WithinBounds
<1>3. IsFiniteSet(ex.tasks)
  BY <1>2, TasksFinite, FS_Subset
<1>4. Cardinality(ex.tasks) \in Nat /\ Cardinality(ex.tasks \ {task}) \in Nat
      /\ Cardinality(ex.tasks \ {task}) = Cardinality(ex.tasks) - 1
  BY <1>1, <1>3, RemoveOne
<1>5. e \in ExecutorState
  <2> DEFINE c == IF TaskCompletes(id, task) THEN ex.counting + 1 ELSE ex.counting
  <2>1. c \in Nat
    BY <1>2
  <2>2. e = [ex EXCEPT !.tasks = ex.tasks \ {task}, !.counting = c]
    OBVIOUS
  <2>3. \A n \in Nat : [ex EXCEPT !.tasks = ex.tasks \ {task}, !.counting = n] \in ExecutorState
    BY <1>1, <1>2 DEF ExecutorState
  <2> HIDE DEF c, e
  <2> QED  BY <2>1, <2>2, <2>3
<1>6. WithinBounds(e)
  BY <1>1, <1>2, <1>4 DEF WithinBounds, ExecutorState
<1>7. executors' = Put(id, e)
  <2>1. executors \in [Ids -> {NoExecutor} \cup ExecutorState]
    BY DEF BaseInv, TypeOK
  <2>2. CASE TaskCompletes(id, task)
    BY <1>1, <2>1, <2>2 DEF TaskCompletes, Put, ExecutorState
  <2>3. CASE ~TaskCompletes(id, task)
    <3>1. TaskFails(id, task)
      BY <2>3
    <3>2. executors' = [executors EXCEPT ![id] = [ex EXCEPT !.tasks = @ \ {task}]]
      BY <1>1, <2>1, <3>1 DEF TaskFails, ExecutorState
    <3>3. e = [ex EXCEPT !.tasks = @ \ {task}]
      BY <1>1, <2>3 DEF ExecutorState
    <3> QED  BY <3>2, <3>3 DEF Put
  <2> QED  BY <2>2, <2>3
<1>8. posted' \subseteq Answer
  BY DEF TaskFails, TaskCompletes, BaseInv, TypeOK, Answer, BlockMsg, Task
<1>9. e.session = ex.session
  BY <1>1 DEF ExecutorState
<1>10. UNCHANGED <<clientVars, toServer, toClient, session, statics, handler>>
  BY DEF TaskFails, TaskCompletes
<1>11. BaseInv'
  <2> HIDE DEF e
  <2> QED  BY <1>5, <1>6, <1>7, <1>8, <1>9, <1>10, BaseExecutor DEF BaseInv, TypeOK, UsesOK
<1> QED  BY <1>1, <1>5, <1>6, <1>7, <1>11 DEF Becomes

\* afterExecute ends calculation id.
Completes(id) == IsLast(executors[id].left - 1) /\ Sends(executors[id])

LEMMA AfterExecuteBase ==
  ASSUME BaseInv, NEW id \in Ids, Started(id), AfterExecute(id)
  PROVE  /\ BaseInv'
         /\ executors[id].counting > 0
         /\ Becomes(id, [executors[id] EXCEPT !.counting = @ - 1, !.left = @ - 1,
                            !.state = IF Completes(id) /\ @ = "running" THEN "shutdown" ELSE @])
         /\ posted' = posted \cup (IF Completes(id) THEN {EndMsg("COMPLETED", id)} ELSE {})
         /\ \A s \in Sessions :
               \/ toClient'[s] = toClient[s]
               \/ Completes(id) /\ toClient'[s] = Append(toClient[s], EndMsg("COMPLETED", id))
<1> DEFINE ex == executors[id]
           e == [ex EXCEPT !.counting = @ - 1, !.left = @ - 1,
                           !.state = IF Completes(id) /\ @ = "running" THEN "shutdown" ELSE @]
           msg == EndMsg("COMPLETED", id)
<1>1. ex \in ExecutorState /\ WithinBounds(ex) /\ ex.counting > 0
  BY ExecutorHas DEF BaseInv, AfterExecute
<1>2. ex.tasks \subseteq Task /\ ex.counting \in Nat /\ ex.session \in Sessions
      /\ ex.workers \in Nat /\ Cardinality(ex.tasks) + ex.counting <= ex.workers
      /\ ex.left <= NumBlocks /\ ex.left \in Int /\ NumBlocks \in Nat
  BY <1>1, JavaDispatcherAssumption DEF ExecutorState, WithinBounds
<1>3. IsFiniteSet(ex.tasks) /\ Cardinality(ex.tasks) \in Nat
  BY <1>2, TasksFinite, FS_Subset, FS_CardinalityType
<1>4. e \in ExecutorState
  <2> DEFINE st == IF Completes(id) /\ ex.state = "running" THEN "shutdown" ELSE ex.state
  <2>1. st \in {"running", "shutdown", "stop"}
    BY <1>1 DEF ExecutorState
  <2>2. e = [ex EXCEPT !.counting = ex.counting - 1, !.left = ex.left - 1, !.state = st]
    OBVIOUS
  <2>3. \A x \in {"running", "shutdown", "stop"}, c \in Nat, l \in Int :
           [ex EXCEPT !.counting = c, !.left = l, !.state = x] \in ExecutorState
    BY <1>1 DEF ExecutorState
  <2>4. ex.counting - 1 \in Nat /\ ex.left - 1 \in Int
    BY <1>1, <1>2
  <2> HIDE DEF st, e
  <2> QED  BY <2>1, <2>2, <2>3, <2>4
<1>5. WithinBounds(e)
  BY <1>1, <1>2, <1>3 DEF WithinBounds, ExecutorState
<1>6. executors' = Put(id, e)
  <2>1. executors \in [Ids -> {NoExecutor} \cup ExecutorState]
    BY DEF BaseInv, TypeOK
  <2> QED  BY <1>1, <2>1 DEF AfterExecute, Put, ExecutorState, Completes
<1>7. msg \in Answer
  BY DEF Answer, EndMsg
<1>8. /\ posted' = posted \cup (IF Completes(id) THEN {msg} ELSE {})
      /\ toClient' = IF Completes(id) THEN [toClient EXCEPT ![ex.session] = Append(@, msg)]
                                      ELSE toClient
      /\ UNCHANGED <<clientVars, toServer, session, statics, handler>>
  BY DEF AfterExecute, Completes
<1>9. toClient \in [Sessions -> Seq(Answer)] /\ posted \subseteq Answer
  BY DEF BaseInv, TypeOK
<1>10. toClient' \in [Sessions -> Seq(Answer)] /\ posted' \subseteq Answer
       /\ \A s \in Sessions : toClient'[s] # toClient[s] =>
             s = ex.session /\ Completes(id) /\ toClient'[s] = Append(toClient[s], msg)
  BY <1>2, <1>7, <1>8, <1>9
<1>11. session[ex.session] # "new"
  BY <1>2 DEF BaseInv, NewOK
<1>12. e.session = ex.session
  BY <1>1 DEF ExecutorState
<1>13. BaseInv'
  <2> HIDE DEF e
  <2> QED  BY <1>4, <1>5, <1>6, <1>8, <1>10, <1>11, <1>12, BaseExecutor
           DEF BaseInv, TypeOK, UsesOK
<1> QED  BY <1>1, <1>4, <1>5, <1>6, <1>8, <1>10, <1>13 DEF Becomes

-----------------------------------------------------------------------------
(* Sessions, handlers and clients.                                         *)

LEMMA OnOpenBase ==
  ASSUME BaseInv, NEW s \in Sessions, OnOpen(s)
  PROVE  BaseInv'
<1> USE DEF BaseInv, OnOpen
<1>1. TypeOK'
  <2>1. session' \in [Sessions -> {"new", "open", "closing", "closed"}]
    BY DEF TypeOK
  <2>2. client' \in [Sessions -> {"waiting", "calculating", "aborting", "gone"}]
    BY DEF TypeOK
  <2>3. calc' \in [Sessions -> 0..MaxCalc]
    BY DEF TypeOK
  <2> QED  BY <2>1, <2>2, <2>3 DEF TypeOK
<1>2. UsesOK'
  <2>1. ASSUME NEW t \in Sessions, client'[t] = "calculating"
        PROVE  calc'[t] \in Ids
    BY <2>1, JavaDispatcherAssumption DEF TypeOK, UsesOK, Ids
  <2> QED  BY <2>1 DEF UsesOK, Started
<1>3. NewOK'
  <2>1. session'[s] = "open" /\ \A t \in Sessions : session'[t] = "new" => session[t] = "new"
    BY DEF TypeOK
  <2> QED  BY <2>1 DEF NewOK, Started
<1> QED  BY <1>1, <1>2, <1>3

LEMMA OnCloseBase ==
  ASSUME BaseInv, NEW s \in Sessions, OnClose(s)
  PROVE  BaseInv'
<1>1. TypeOK'
  BY DEF BaseInv, OnClose, TypeOK, clientVars
<1>2. /\ session[s] = "closing" /\ session'[s] = "closed" /\ threads' \in {Null, threads}
      /\ \A t \in Sessions : t # s => session'[t] = session[t]
      /\ UNCHANGED <<client, calc, lastId, toServer, toClient, handler, executors, posted>>
  BY DEF BaseInv, OnClose, TypeOK, clientVars
<1> QED  BY <1>1, <1>2, BaseOther DEF BaseInv, UsesOK

LEMMA HandlesBase ==
  ASSUME BaseInv, NEW s \in Sessions, NEW op, Handles(s, op)
  PROVE  /\ session[s] = "open" /\ handler[s] = Idle
         /\ toServer[s] \in Seq(ClientMsg) /\ toServer[s] # <<>>
         /\ Head(toServer[s]) \in ClientMsg /\ Head(toServer[s]).op = op
         /\ toServer' \in [Sessions -> Seq(ClientMsg)]
         /\ toServer'[s] = Tail(toServer[s])
         /\ \A t \in Sessions : t # s => toServer'[t] = toServer[t]
<1>1. toServer \in [Sessions -> Seq(ClientMsg)] /\ toServer[s] # <<>>
  BY DEF BaseInv, TypeOK, Handles
<1>2. toServer[s] \in Seq(ClientMsg)
  BY <1>1
<1>3. Tail(toServer[s]) \in Seq(ClientMsg) /\ Head(toServer[s]) \in ClientMsg
  BY <1>1, <1>2, TailOne
<1> QED  BY <1>1, <1>2, <1>3 DEF Handles

LEMMA OnStartBase ==
  ASSUME BaseInv, NEW s \in Sessions, OnStart(s)
  PROVE  /\ BaseInv'
         /\ LET msg == Head(toServer[s]) IN
            /\ msg.id \in Ids /\ msg.workers \in WorkerCounts
            /\ Becomes(msg.id, NewExecutor(s, msg.workers))
            /\ handler' = [handler EXCEPT ![s] = [at |-> "start", id |-> msg.id, block |-> 1]]
<1> DEFINE msg == Head(toServer[s])
           e == NewExecutor(s, msg.workers)
<1>1. msg \in ClientMsg /\ msg.op = "START" /\ session[s] = "open"
      /\ toServer' \in [Sessions -> Seq(ClientMsg)]
      /\ \A t \in Sessions : t # s => toServer'[t] = toServer[t]
  BY HandlesBase DEF OnStart
<1>2. msg.id \in Ids /\ msg.workers \in WorkerCounts
  BY <1>1 DEF ClientMsg
<1>3. e \in ExecutorState
  BY <1>2, JavaDispatcherAssumption DEF NewExecutor, ExecutorState
<1>4. WithinBounds(e)
  <2>1. e.left = NumBlocks /\ e.tasks = {} /\ e.counting = 0 /\ e.workers = msg.workers
    BY DEF NewExecutor
  <2>2. Cardinality({}) = 0 /\ NumBlocks \in Nat /\ msg.workers \in Nat
    BY <1>2, JavaDispatcherAssumption, FS_EmptySet
  <2> HIDE DEF e
  <2> QED  BY <2>1, <2>2 DEF WithinBounds
<1>5. /\ executors' = Put(msg.id, e) /\ threads' = msg.id
      /\ handler' = [handler EXCEPT ![s] = [at |-> "start", id |-> msg.id, block |-> 1]]
      /\ UNCHANGED <<clientVars, toClient, session, currentSession, posted>>
  BY DEF OnStart, Put
<1>6. /\ executors' \in [Ids -> {NoExecutor} \cup ExecutorState]
      /\ \A k \in Ids : executors'[k] # NoExecutor => WithinBounds(executors'[k])
      /\ \A k \in Ids : Started(k)' <=> Started(k) \/ k = msg.id
      /\ executors'[msg.id] = e
      /\ \A k \in Ids : k # msg.id => executors'[k] = executors[k]
  <2> HIDE DEF e
  <2> QED  BY <1>2, <1>3, <1>4, <1>5, ExecutorChanges DEF BaseInv
<1>7. handler \in [Sessions -> HandlerState]
  BY DEF BaseInv, TypeOK
<1>8. [at |-> "start", id |-> msg.id, block |-> 1] \in HandlerState
  BY <1>2, JavaDispatcherAssumption DEF HandlerState, Blocks
<1>9. handler' \in [Sessions -> HandlerState] /\ handler'[s].at = "start"
      /\ \A t \in Sessions : t # s => handler'[t] = handler[t]
  BY <1>5, <1>7, <1>8
<1>10. TypeOK'
  BY <1>1, <1>2, <1>5, <1>6, <1>9 DEF BaseInv, TypeOK, clientVars
<1>11. UsesOK'
  <2>1. ASSUME NEW t \in Sessions, handler'[t].at = "await"
        PROVE  executors'[handler'[t].executor] # NoExecutor
    <3>1. t # s /\ handler'[t] = handler[t]
      BY <1>9, <2>1
    <3>2. handler[t].executor \in Ids
      BY <1>7, <2>1, <3>1 DEF HandlerState, Idle
    <3> QED  BY <1>6, <2>1, <3>1, <3>2 DEF BaseInv, UsesOK, Started
  <2> QED  BY <1>2, <1>5, <1>6, <2>1 DEF BaseInv, UsesOK, Started, clientVars
<1>12. NewOK'
  <2>1. ASSUME NEW t \in Sessions, session'[t] = "new"
        PROVE  /\ toServer'[t] = <<>> /\ toClient'[t] = <<>> /\ handler'[t] = Idle
               /\ \A k \in Ids : Started(k)' => executors'[k].session # t
    <3>1. t # s /\ session[t] = "new"
      BY <1>1, <1>5, <2>1
    <3>2. e.session = s
      BY DEF NewExecutor
    <3> HIDE DEF e
    <3>3. \A k \in Ids : Started(k)' => executors'[k].session # t
      BY <1>6, <3>1, <3>2 DEF BaseInv, NewOK
    <3> QED  BY <1>1, <1>5, <1>9, <3>1, <3>3 DEF BaseInv, NewOK
  <2> QED  BY <1>1, <1>5, <2>1 DEF NewOK
<1> HIDE DEF e
<1>13. BaseInv' /\ Becomes(msg.id, e)
  BY <1>3, <1>4, <1>5, <1>10, <1>11, <1>12 DEF BaseInv, Becomes
<1> QED  BY <1>2, <1>5, <1>13 DEF e

\* What a handler has: its session was opened.
LEMMA HandlerHas ==
  ASSUME BaseInv, NEW s \in Sessions, handler[s].at # "idle"
  PROVE  /\ handler \in [Sessions -> HandlerState]
         /\ session[s] # "new"
         /\ handler[s].id \in Ids
         /\ handler[s].at = "start" => handler[s].block \in Blocks
         /\ handler[s].at = "await" => handler[s].executor \in Ids
<1>1. handler \in [Sessions -> HandlerState]
  BY DEF BaseInv, TypeOK
<1>2. handler[s] \in HandlerState
  BY <1>1
<1>3. session[s] # "new"
  BY DEF BaseInv, NewOK, Idle
<1> QED  BY <1>1, <1>2, <1>3 DEF HandlerState, Idle

Accepts == threads # Null /\ executors[threads].state = "running"

LEMMA CalculateBlockBase ==
  ASSUME BaseInv, NEW s \in Sessions, CalculateBlock(s)
  PROVE  /\ BaseInv'
         /\ \/ handler'[s] = Idle
            \/ /\ handler[s].block + 1 \in Blocks
               /\ handler'[s] = [handler[s] EXCEPT !.block = handler[s].block + 1]
         /\ \A t \in Sessions : t # s => handler'[t] = handler[t]
         /\ IF Accepts
            THEN /\ threads \in Ids /\ Started(threads)
                 /\ Becomes(threads, [executors[threads] EXCEPT
                       !.queue = Append(@, [id |-> handler[s].id, block |-> handler[s].block])])
            ELSE UNCHANGED executors
<1> DEFINE task == [id |-> handler[s].id, block |-> handler[s].block]
           ex == executors[threads]
           e == [ex EXCEPT !.queue = Append(@, task)]
<1>1. /\ handler \in [Sessions -> HandlerState] /\ session[s] # "new"
      /\ handler[s].at = "start" /\ handler[s].id \in Ids /\ handler[s].block \in Blocks
  BY HandlerHas DEF CalculateBlock
<1>2. handler[s] \in HandlerState /\ task \in Task
  BY <1>1 DEF Task
<1>3. /\ \/ handler'[s] = Idle
         \/ /\ handler[s].block + 1 \in Blocks
            /\ handler'[s] = [handler[s] EXCEPT !.block = handler[s].block + 1]
      /\ \A t \in Sessions : t # s => handler'[t] = handler[t]
      /\ handler' \in [Sessions -> HandlerState]
      /\ handler'[s].at # "await"
  <2>1. handler[s].block = NumBlocks \/ handler[s].block + 1 \in Blocks
    BY <1>1, JavaDispatcherAssumption DEF Blocks
  <2>2. handler[s].block + 1 \in Blocks =>
           [handler[s] EXCEPT !.block = handler[s].block + 1] \in HandlerState
           /\ [handler[s] EXCEPT !.block = handler[s].block + 1].at = "start"
    BY <1>1, <1>2 DEF HandlerState, Idle
  <2>3. Idle \in HandlerState /\ Idle.at = "idle"
    BY DEF HandlerState, Idle
  <2>4. \/ handler' = [handler EXCEPT ![s] = Idle]
        \/ /\ handler[s].block # NumBlocks
           /\ handler' = [handler EXCEPT ![s] = [handler[s] EXCEPT !.block = handler[s].block + 1]]
    <3>1. CASE handler[s].block = NumBlocks
      BY <3>1 DEF CalculateBlock
    <3>2. CASE handler[s].block # NumBlocks /\ Accepts
      <4>1. handler' = [handler EXCEPT ![s] = IF handler[s].block = NumBlocks THEN Idle
                                              ELSE [handler[s] EXCEPT !.block = handler[s].block + 1]]
        BY <3>2 DEF CalculateBlock, Accepts
      <4>2. (IF handler[s].block = NumBlocks THEN Idle ELSE [handler[s] EXCEPT !.block = handler[s].block + 1])
                = [handler[s] EXCEPT !.block = handler[s].block + 1]
        BY <3>2
      <4> QED  BY <3>2, <4>1, <4>2
    <3>3. CASE ~Accepts
      BY <3>3 DEF CalculateBlock, Accepts
    <3> QED  BY <3>1, <3>2, <3>3
  <2>5. CASE handler' = [handler EXCEPT ![s] = Idle]
    <3>1. handler'[s] = Idle /\ \A t \in Sessions : t # s => handler'[t] = handler[t]
      BY <1>1, <2>5
    <3>2. handler' \in [Sessions -> HandlerState]
      BY <1>1, <2>3, <2>5
    <3> QED  BY <2>3, <3>1, <3>2
  <2>6. CASE /\ handler[s].block # NumBlocks
             /\ handler' = [handler EXCEPT ![s] = [handler[s] EXCEPT !.block = handler[s].block + 1]]
    <3> DEFINE h == [handler[s] EXCEPT !.block = handler[s].block + 1]
    <3>1. h \in HandlerState /\ h.at = "start" /\ handler[s].block + 1 \in Blocks
      BY <2>1, <2>2, <2>6
    <3>2. handler' = [handler EXCEPT ![s] = h]
      BY <2>6
    <3>3. h = [handler[s] EXCEPT !.block = handler[s].block + 1]
      OBVIOUS
    <3> HIDE DEF h
    <3>4. handler'[s] = h /\ handler' \in [Sessions -> HandlerState]
          /\ \A t \in Sessions : t # s => handler'[t] = handler[t]
      BY <1>1, <3>1, <3>2
    <3> QED  BY <3>1, <3>3, <3>4
  <2> QED  BY <2>4, <2>5, <2>6
<1>4. UNCHANGED <<clientVars, toServer, toClient, session, statics, posted>>
  BY DEF CalculateBlock
<1>5. CASE Accepts
  <2>1. threads \in Ids /\ Started(threads)
    BY <1>5 DEF Accepts, BaseInv, TypeOK, UsesOK
  <2>2. ex \in ExecutorState /\ WithinBounds(ex)
    BY <2>1, ExecutorHas DEF BaseInv
  <2>3. e \in ExecutorState
    <3>1. ex.queue \in Seq(Task)
      BY <2>2 DEF ExecutorState
    <3>2. Append(ex.queue, task) \in Seq(Task)
      BY <1>2, <3>1, AppendOne
    <3> HIDE DEF task
    <3> QED  BY <2>2, <3>2 DEF ExecutorState
  <2>4. WithinBounds(e)
    BY <2>2 DEF WithinBounds, ExecutorState
  <2>5. executors' = Put(threads, e)
    <3>1. executors \in [Ids -> {NoExecutor} \cup ExecutorState]
      BY DEF BaseInv, TypeOK
    <3>2. executors' = [executors EXCEPT ![threads].queue = Append(@, task)]
      BY <1>5 DEF Accepts, CalculateBlock
    <3> QED  BY <2>1, <2>2, <3>1, <3>2 DEF Put, ExecutorState
  <2>6. e.session = ex.session
    BY <2>2 DEF ExecutorState
  <2>7. PICK id \in Ids : id = threads
    BY <2>1
  <2>8. BaseInv'
    <3> HIDE DEF e
    <3>1. \A t \in Sessions : handler'[t].at = "await" => Started(handler'[t].executor)
      BY <1>3 DEF BaseInv, UsesOK
    <3>2. \A t \in Sessions : session[t] = "new" =>
             toClient'[t] = toClient[t] /\ handler'[t] = handler[t]
      BY <1>1, <1>3, <1>4
    <3>3. posted' \subseteq Answer /\ toClient' \in [Sessions -> Seq(Answer)]
      BY <1>4 DEF BaseInv, TypeOK
    <3> QED  BY <1>3, <1>4, <2>1, <2>3, <2>4, <2>5, <2>6, <2>7, <3>1, <3>2, <3>3, BaseExecutor
  <2> QED  BY <1>3, <1>5, <2>1, <2>3, <2>4, <2>5, <2>8 DEF Becomes
<1>6. CASE ~Accepts
  <2>1. executors' = executors
    BY <1>6 DEF Accepts, CalculateBlock
  <2>2. TypeOK'
    BY <1>3, <1>4, <2>1 DEF BaseInv, TypeOK, clientVars, statics
  <2>3. BaseInv'
    BY <1>1, <1>3, <1>4, <2>1, <2>2, BaseOther DEF BaseInv, UsesOK, clientVars, statics
  <2> QED  BY <1>3, <1>6, <2>1, <2>3
<1> QED  BY <1>5, <1>6

LEMMA OnAbortBase ==
  ASSUME BaseInv, NEW s \in Sessions, OnAbort(s)
  PROVE  /\ BaseInv'
         /\ \A t \in Sessions : t # s => handler'[t] = handler[t]
         /\ IF threads # Null
            THEN /\ threads \in Ids /\ Started(threads)
                 /\ Becomes(threads, [executors[threads] EXCEPT !.state = "stop", !.queue = <<>>])
                 /\ handler'[s] = [at |-> "stopped", id |-> Head(toServer[s]).id]
            ELSE UNCHANGED <<executors, handler>>
<1> DEFINE ex == executors[threads]
           e == [ex EXCEPT !.state = "stop", !.queue = <<>>]
           h == [at |-> "stopped", id |-> Head(toServer[s]).id]
<1>1. Head(toServer[s]) \in ClientMsg /\ session[s] = "open" /\ handler[s] = Idle
      /\ toServer' \in [Sessions -> Seq(ClientMsg)]
      /\ \A t \in Sessions : t # s => toServer'[t] = toServer[t]
  BY HandlesBase DEF OnAbort
<1>2. handler \in [Sessions -> HandlerState] /\ h \in HandlerState /\ h.at = "stopped"
  BY <1>1 DEF BaseInv, TypeOK, HandlerState, ClientMsg
<1>3. UNCHANGED <<clientVars, toClient, session, statics, posted>>
  BY DEF OnAbort
<1>4. CASE threads # Null
  <2>1. threads \in Ids /\ Started(threads)
    BY <1>4 DEF BaseInv, TypeOK, UsesOK
  <2>2. ex \in ExecutorState /\ WithinBounds(ex)
    BY <2>1, ExecutorHas DEF BaseInv
  <2>3. e \in ExecutorState
    <3>1. <<>> \in Seq(Task)
      OBVIOUS
    <3>2. \A q \in Seq(Task) : [ex EXCEPT !.state = "stop", !.queue = q] \in ExecutorState
      BY <2>2 DEF ExecutorState
    <3> QED  BY <3>1, <3>2
  <2>4. WithinBounds(e)
    BY <2>2 DEF WithinBounds, ExecutorState
  <2>5. executors' = Put(threads, e)
    <3>1. executors \in [Ids -> {NoExecutor} \cup ExecutorState]
      BY DEF BaseInv, TypeOK
    <3>2. executors' = [executors EXCEPT ![threads].state = "stop", ![threads].queue = <<>>]
      BY <1>4 DEF OnAbort
    <3> QED  BY <2>1, <2>2, <3>1, <3>2 DEF Put, ExecutorState
  <2>6. e.session = ex.session
    BY <2>2 DEF ExecutorState
  <2>7. handler' = [handler EXCEPT ![s] = h]
    BY <1>4 DEF OnAbort
  <2>8. handler'[s] = h /\ handler' \in [Sessions -> HandlerState]
        /\ \A t \in Sessions : t # s => handler'[t] = handler[t]
    BY <1>2, <2>7
  <2> HIDE DEF e, h
  <2>9. /\ executors' \in [Ids -> {NoExecutor} \cup ExecutorState]
        /\ \A k \in Ids : executors'[k] # NoExecutor => WithinBounds(executors'[k])
        /\ \A k \in Ids : Started(k)' <=> Started(k)
        /\ \A k \in Ids : executors'[k] # executors[k] => k = threads
        /\ executors'[threads] = e
    <3>1. PICK id \in Ids : id = threads
      BY <2>1
    <3> QED  BY <2>1, <2>3, <2>4, <2>5, <3>1, ExecutorChanges DEF BaseInv
  <2>10. TypeOK'
    BY <1>1, <1>3, <2>8, <2>9 DEF BaseInv, TypeOK, clientVars, statics
  <2>11. UsesOK'
    <3>1. ASSUME NEW t \in Sessions, handler'[t].at = "await"
          PROVE  executors'[handler'[t].executor] # NoExecutor
      <4>1. t # s /\ handler'[t] = handler[t]
        BY <1>2, <2>8, <3>1
      <4>2. handler[t].executor \in Ids /\ Started(handler[t].executor)
        BY <3>1, <4>1, HandlerHas DEF BaseInv, UsesOK
      <4> QED  BY <2>9, <4>1, <4>2 DEF Started
    <3> QED  BY <1>3, <2>1, <2>9, <3>1 DEF BaseInv, UsesOK, Started, clientVars, statics
  <2>12. NewOK'
    <3>1. ASSUME NEW t \in Sessions, session'[t] = "new"
          PROVE  /\ toServer'[t] = <<>> /\ toClient'[t] = <<>> /\ handler'[t] = Idle
                 /\ \A k \in Ids : Started(k)' => executors'[k].session # t
      <4>1. t # s /\ session[t] = "new"
        BY <1>1, <1>3, <3>1
      <4>2. \A k \in Ids : executors'[k].session = executors[k].session
        BY <2>6, <2>9
      <4>3. \A k \in Ids : Started(k)' => executors'[k].session # t
        BY <2>9, <4>1, <4>2 DEF BaseInv, NewOK
      <4> QED  BY <1>1, <1>3, <2>8, <4>1, <4>3 DEF BaseInv, NewOK
    <3> QED  BY <1>1, <1>3, <3>1 DEF NewOK
  <2> QED  BY <1>4, <2>1, <2>3, <2>4, <2>5, <2>8, <2>10, <2>11, <2>12 DEF BaseInv, Becomes, h, e
<1>5. CASE threads = Null
  <2>1. UNCHANGED <<executors, handler>>
    BY <1>5 DEF OnAbort
  <2>2. TypeOK'
    BY <1>1, <1>3, <2>1 DEF BaseInv, TypeOK, clientVars, statics
  <2>3. BaseInv'
    BY <1>1, <1>3, <2>1, <2>2, BaseOther DEF BaseInv, UsesOK, clientVars, statics
  <2> QED  BY <1>5, <2>1, <2>3
<1> QED  BY <1>4, <1>5

LEMMA AwaitTerminationBase ==
  ASSUME BaseInv, NEW s \in Sessions, AwaitTermination(s)
  PROVE  /\ BaseInv'
         /\ session[s] # "new"
         /\ handler'[s] = IF threads = Null THEN Idle
                          ELSE [at |-> "await", id |-> handler[s].id, executor |-> threads]
         /\ \A t \in Sessions : t # s => handler'[t] = handler[t]
<1> DEFINE h == IF threads = Null THEN Idle
                ELSE [at |-> "await", id |-> handler[s].id, executor |-> threads]
<1>1. /\ handler \in [Sessions -> HandlerState] /\ session[s] # "new" /\ handler[s].id \in Ids
  BY HandlerHas DEF AwaitTermination
<1>2. threads \in {Null} \cup Ids /\ (threads # Null => Started(threads))
  BY DEF BaseInv, TypeOK, UsesOK
<1>3. h \in HandlerState /\ (h.at = "await" => Started(h.executor))
  BY <1>1, <1>2 DEF HandlerState, Idle
<1>4. handler' = [handler EXCEPT ![s] = h]
      /\ UNCHANGED <<clientVars, toServer, toClient, session, statics, executors, posted>>
  BY DEF AwaitTermination
<1> HIDE DEF h
<1>5. handler'[s] = h /\ handler' \in [Sessions -> HandlerState]
      /\ \A t \in Sessions : t # s => handler'[t] = handler[t]
  BY <1>1, <1>3, <1>4
<1>6. TypeOK'
  BY <1>4, <1>5 DEF BaseInv, TypeOK, clientVars, statics
<1>7. BaseInv'
  BY <1>1, <1>2, <1>3, <1>4, <1>5, <1>6, BaseOther DEF BaseInv, UsesOK, clientVars, statics
<1> QED  BY <1>1, <1>5, <1>7 DEF h

LEMMA AbortedBase ==
  ASSUME BaseInv, NEW s \in Sessions, Aborted(s)
  PROVE  /\ BaseInv'
         /\ session[s] # "new"
         /\ handler'[s] = Idle
         /\ \A t \in Sessions : t # s => handler'[t] = handler[t]
         /\ posted' \in {posted, posted \cup {EndMsg("ABORTED", handler[s].id)}}
         /\ \A t \in Sessions :
               \/ toClient'[t] = toClient[t]
               \/ /\ EndMsg("ABORTED", handler[s].id) \in posted'
                  /\ toClient'[t] = Append(toClient[t], EndMsg("ABORTED", handler[s].id))
<1> DEFINE msg == EndMsg("ABORTED", handler[s].id)
<1>1. /\ handler \in [Sessions -> HandlerState] /\ session[s] # "new" /\ handler[s].id \in Ids
  BY HandlerHas DEF Aborted
<1>2. msg \in Answer
  BY <1>1 DEF Answer, EndMsg
<1>3. Idle \in HandlerState /\ Idle.at = "idle"
  BY DEF HandlerState, Idle
<1>4. handler' = [handler EXCEPT ![s] = Idle]
      /\ UNCHANGED <<clientVars, toServer, session, statics, executors>>
  BY DEF Aborted
<1>5. \/ posted' = posted /\ toClient' = toClient
      \/ posted' = posted \cup {msg} /\ toClient' = [toClient EXCEPT ![s] = Append(@, msg)]
  BY DEF Aborted
<1>6. handler'[s] = Idle /\ handler' \in [Sessions -> HandlerState]
      /\ \A t \in Sessions : t # s => handler'[t] = handler[t]
  BY <1>1, <1>3, <1>4
<1>7. toClient \in [Sessions -> Seq(Answer)] /\ posted \subseteq Answer
  BY DEF BaseInv, TypeOK
<1>8. /\ toClient' \in [Sessions -> Seq(Answer)] /\ posted' \subseteq Answer
      /\ \A t \in Sessions : toClient'[t] # toClient[t] =>
            t = s /\ msg \in posted' /\ toClient'[t] = Append(toClient[t], msg)
  <2>1. CASE posted' = posted /\ toClient' = toClient
    BY <1>7, <2>1
  <2>2. CASE posted' = posted \cup {msg} /\ toClient' = [toClient EXCEPT ![s] = Append(@, msg)]
    <3>1. Append(toClient[s], msg) \in Seq(Answer)
      BY <1>2, <1>7, AppendOne
    <3> HIDE DEF msg
    <3> QED  BY <1>2, <1>7, <2>2, <3>1
  <2> QED  BY <1>5, <2>1, <2>2
<1>9. TypeOK'
  BY <1>4, <1>6, <1>8 DEF BaseInv, TypeOK, clientVars, statics
<1>10. UsesOK'
  BY <1>3, <1>4, <1>6 DEF BaseInv, UsesOK, Started, clientVars, statics
<1>11. NewOK'
  BY <1>1, <1>4, <1>6, <1>8 DEF BaseInv, NewOK, Started, clientVars, statics
<1> QED  BY <1>1, <1>5, <1>6, <1>8, <1>9, <1>10, <1>11 DEF BaseInv

\* What a client writes and reads.
LEMMA ClientBase ==
  ASSUME BaseInv, NEW s \in Sessions, Client(s)
  PROVE  BaseInv' /\ session[s] # "new"
<1> USE DEF serverVars, statics
<1>1. ASSUME NEW count \in WorkerCounts, ClientStart(s, count)
      PROVE  BaseInv' /\ session[s] # "new"
  <2> DEFINE msg == [op |-> "START", id |-> lastId + 1, workers |-> count]
  <2>1. lastId \in Nat /\ lastId + 1 \in 0..MaxCalc /\ lastId + 1 \in Ids
    BY <1>1, JavaDispatcherAssumption DEF ClientStart, BaseInv, TypeOK, Ids
  <2>2. msg \in ClientMsg
    BY <1>1, <2>1 DEF ClientMsg
  <2>3. toServer \in [Sessions -> Seq(ClientMsg)]
    BY DEF BaseInv, TypeOK
  <2>4. Append(toServer[s], msg) \in Seq(ClientMsg)
    BY <2>2, <2>3, AppendOne
  <2>5. toServer' = [toServer EXCEPT ![s] = Append(toServer[s], msg)]
    BY <1>1 DEF ClientStart
  <2> HIDE DEF msg
  <2>6. toServer' \in [Sessions -> Seq(ClientMsg)]
        /\ \A t \in Sessions : t # s => toServer'[t] = toServer[t]
    BY <2>3, <2>4, <2>5
  <2>7. client' \in [Sessions -> {"waiting", "calculating", "aborting", "gone"}]
        /\ calc' \in [Sessions -> 0..MaxCalc] /\ calc'[s] = lastId + 1
        /\ \A t \in Sessions : t # s => client'[t] = client[t] /\ calc'[t] = calc[t]
    BY <1>1, <2>1 DEF ClientStart, BaseInv, TypeOK
  <2>8. TypeOK'
    BY <1>1, <2>1, <2>6, <2>7 DEF ClientStart, BaseInv, TypeOK
  <2>9. session[s] = "open" /\ UNCHANGED <<toClient, session, serverVars>>
    BY <1>1 DEF ClientStart
  <2> QED  BY <2>1, <2>6, <2>7, <2>8, <2>9, BaseOther DEF BaseInv, UsesOK
<1>2. ASSUME ClientAbort(s)
      PROVE  BaseInv' /\ session[s] # "new"
  <2> DEFINE msg == [op |-> "ABORT", id |-> calc[s]]
  <2>1. msg \in ClientMsg
    BY <1>2 DEF ClientAbort, BaseInv, UsesOK, ClientMsg
  <2>2. toServer \in [Sessions -> Seq(ClientMsg)]
    BY DEF BaseInv, TypeOK
  <2>3. Append(toServer[s], msg) \in Seq(ClientMsg)
    BY <2>1, <2>2, AppendOne
  <2>4. toServer' = [toServer EXCEPT ![s] = Append(toServer[s], msg)]
    BY <1>2 DEF ClientAbort
  <2> HIDE DEF msg
  <2>5. toServer' \in [Sessions -> Seq(ClientMsg)]
        /\ \A t \in Sessions : t # s => toServer'[t] = toServer[t]
    BY <2>2, <2>3, <2>4
  <2>6. client' \in [Sessions -> {"waiting", "calculating", "aborting", "gone"}]
        /\ client'[s] = "aborting" /\ \A t \in Sessions : t # s => client'[t] = client[t]
    BY <1>2 DEF ClientAbort, BaseInv, TypeOK
  <2>7. TypeOK'
    BY <1>2, <2>5, <2>6 DEF ClientAbort, BaseInv, TypeOK
  <2>8. session[s] = "open" /\ UNCHANGED <<calc, toClient, session, serverVars>>
    BY <1>2 DEF ClientAbort
  <2> QED  BY <2>5, <2>6, <2>7, <2>8, BaseOther DEF BaseInv, UsesOK
<1>3. ASSUME ClientReceive(s)
      PROVE  BaseInv' /\ session[s] # "new"
  <2>1. toClient \in [Sessions -> Seq(Answer)] /\ toClient[s] # <<>>
    BY <1>3 DEF ClientReceive, BaseInv, TypeOK
  <2>2. Tail(toClient[s]) \in Seq(Answer)
    BY <2>1
  <2>3. toClient' \in [Sessions -> Seq(Answer)]
        /\ \A t \in Sessions : t # s => toClient'[t] = toClient[t]
    BY <1>3, <2>1, <2>2 DEF ClientReceive
  <2>4. client' \in [Sessions -> {"waiting", "calculating", "aborting", "gone"}]
        /\ client'[s] \in {"waiting", client[s]} /\ \A t \in Sessions : t # s => client'[t] = client[t]
    BY <1>3 DEF ClientReceive, BaseInv, TypeOK
  <2>5. TypeOK'
    BY <1>3, <2>3, <2>4 DEF ClientReceive, BaseInv, TypeOK
  <2>6. session[s] # "new"
    BY <2>1 DEF BaseInv, NewOK
  <2>7. UNCHANGED <<calc, toServer, session, serverVars>>
    BY <1>3 DEF ClientReceive
  <2> QED  BY <2>3, <2>4, <2>5, <2>6, <2>7, BaseOther DEF BaseInv, UsesOK
<1>4. ASSUME ClientLeaves(s)
      PROVE  BaseInv' /\ session[s] # "new"
  <2>1. TypeOK'
    BY <1>4 DEF ClientLeaves, BaseInv, TypeOK
  <2>2. /\ session[s] = "open" /\ session'[s] = "closing" /\ client'[s] = "gone"
        /\ \A t \in Sessions : t # s => session'[t] = session[t] /\ client'[t] = client[t]
        /\ UNCHANGED <<calc, toServer, toClient, serverVars>>
    BY <1>4 DEF ClientLeaves, BaseInv, TypeOK
  <2> QED  BY <2>1, <2>2, BaseOther DEF BaseInv, UsesOK
<1> QED  BY <1>1, <1>2, <1>3, <1>4 DEF Client

-----------------------------------------------------------------------------
LEMMA BaseInit == Init => BaseInv
<1> SUFFICES ASSUME Init  PROVE BaseInv
  OBVIOUS
<1> USE DEF Init
<1>1. TypeOK
  BY JavaDispatcherAssumption DEF TypeOK, HandlerState, Null
<1>2. UsesOK /\ NewOK
  BY DEF UsesOK, NewOK, Started, Idle
<1> QED  BY <1>1, <1>2 DEF BaseInv

LEMMA BaseStep == BaseInv /\ [Next]_vars => BaseInv'
<1> SUFFICES ASSUME BaseInv, [Next]_vars  PROVE BaseInv'
  OBVIOUS
<1>1. ASSUME NEW s \in Sessions, OnOpen(s)
      PROVE  BaseInv'
  BY <1>1, OnOpenBase
<1>2. ASSUME NEW s \in Sessions, Handler(s)
      PROVE  BaseInv'
  BY <1>2, OnCloseBase, OnStartBase, CalculateBlockBase, OnAbortBase, AwaitTerminationBase,
     AbortedBase DEF Handler
<1>3. ASSUME NEW s \in Sessions, Client(s)
      PROVE  BaseInv'
  BY <1>3, ClientBase
<1>4. ASSUME NEW id \in Ids, Executor(id)
      PROVE  BaseInv'
  BY <1>4, TaskBeginsBase, TaskEndsBase, AfterExecuteBase DEF Executor, Started
<1>5. CASE UNCHANGED vars
  BY <1>5 DEF vars, clientVars, statics, BaseInv, TypeOK, UsesOK, NewOK, Started
<1> QED  BY <1>1, <1>2, <1>3, <1>4, <1>5 DEF Next

\* The types of all variables: handlers and executors are in the states the code
\* can be in, no more blocks are counted than there are, and an executor has no
\* more threads than the client asked for, in any number of sessions.
THEOREM JavaTypeCorrect == Spec => []TypeOK
<1>1. BaseInv => TypeOK
  BY DEF BaseInv
<1> QED  BY <1>1, BaseInit, BaseStep, PTL DEF Spec

-----------------------------------------------------------------------------
(* One session.                                                            *)

Opened == {s \in Sessions : session[s] # "new"}

LEMMA OpenedFinite == IsFiniteSet(Opened) /\ IsFiniteSet(Opened')
<1>1. IsFiniteSet(Sessions)
  BY FS_Interval, JavaDispatcherAssumption DEF Sessions
<1>2. Opened \in SUBSET Sessions /\ Opened' \in SUBSET Sessions
  BY DEF Opened
<1> QED  BY <1>1, <1>2, FS_Subset

LEMMA OnlyOne ==
  ASSUME OneSession, NEW s \in Sessions, session[s] # "new",
         NEW t \in Sessions, session[t] # "new"
  PROVE  s = t
<1>1. Cardinality(Opened) <= 1 /\ s \in Opened /\ t \in Opened
  BY DEF OneSession, Opened
<1>2. Cardinality(Opened \ {s}) = Cardinality(Opened) - 1 /\ IsFiniteSet(Opened \ {s})
      /\ Cardinality(Opened) \in Nat /\ Cardinality(Opened \ {s}) \in Nat
  BY <1>1, OpenedFinite, RemoveOne, FS_RemoveElement
<1>3. Opened \ {s} = {}
  BY <1>1, <1>2, FS_EmptySet
<1> QED  BY <1>1, <1>3

\* Sessions stay opened.
LEMMA StillOne ==
  ASSUME OneSession', \A s \in Sessions : session'[s] = "new" => session[s] = "new"
  PROVE  OneSession
<1>1. Cardinality(Opened') <= 1 /\ Opened \subseteq Opened'
  BY DEF OneSession, Opened
<1>2. Cardinality(Opened) <= Cardinality(Opened')
  BY <1>1, OpenedFinite, FS_Subset
<1>3. Cardinality(Opened) \in Nat /\ Cardinality(Opened') \in Nat
  BY OpenedFinite, FS_CardinalityType
<1>4. Cardinality(Opened) <= 1
  BY <1>1, <1>2, <1>3
<1> QED  BY <1>4 DEF OneSession, Opened

\* The blocks of a calculation, when nothing of it changes.
LEMMA SameBlocks ==
  ASSUME NEW id \in Ids, BlocksOK(id), executors'[id] = executors[id],
         \A msg \in posted' : msg.id = id => msg \in posted,
         posted \subseteq posted',
         \A blk : Adding(id, blk)' => Adding(id, blk)
  PROVE  BlocksOK(id)'
<1>1. Started(id)' <=> Started(id)
  BY DEF Started
<1>2. \A blk : /\ StartedMsg(id, blk) \in posted' <=> StartedMsg(id, blk) \in posted
               /\ CompletedMsg(id, blk) \in posted' <=> CompletedMsg(id, blk) \in posted
  BY DEF StartedMsg, CompletedMsg
<1>3. EndMsg("COMPLETED", id) \in posted' <=> EndMsg("COMPLETED", id) \in posted
  BY DEF EndMsg
<1>4. CompletedBlocks(id)' = CompletedBlocks(id)
  BY <1>2 DEF CompletedBlocks
<1> QED  BY <1>1, <1>2, <1>3, <1>4 DEF BlocksOK

LEMMA SameEnded ==
  ASSUME NEW id \in Ids, \A msg \in posted' : msg.id = id => msg \in posted,
         posted \subseteq posted'
  PROVE  Ended(id)' <=> Ended(id)
BY DEF Ended, EndMsg, EndOps

-----------------------------------------------------------------------------
(* What the client does.                                                   *)

LEMMA OneClientStart ==
  ASSUME JavaInv, SoundOK, OneSession', NEW s \in Sessions, NEW count \in WorkerCounts,
         ClientStart(s, count)
  PROVE  SoundOK'
<1> USE DEF serverVars, statics
<1> DEFINE msg == [op |-> "START", id |-> lastId + 1, workers |-> count]
           q == toServer[s]
<1>1. /\ session[s] = "open" /\ client[s] = "waiting" /\ lastId \in Nat /\ lastId + 1 \in Ids
      /\ client' = [client EXCEPT ![s] = "calculating"] /\ calc' = [calc EXCEPT ![s] = lastId + 1]
      /\ toServer' = [toServer EXCEPT ![s] = Append(q, msg)] /\ lastId' = lastId + 1
      /\ UNCHANGED <<toClient, session, currentSession, threads, handler, executors, posted>>
  BY JavaDispatcherAssumption DEF ClientStart, JavaInv, TypeOK, Ids
<1>2. /\ q \in Seq(ClientMsg) /\ msg \in ClientMsg /\ msg.op = "START"
      /\ client'[s] = "calculating" /\ calc'[s] = lastId + 1 /\ toServer'[s] = Append(q, msg)
  BY <1>1 DEF JavaInv, TypeOK, ClientMsg
<1>3. /\ DOMAIN toServer'[s] = 1..Len(q) + 1 /\ DOMAIN q = 1..Len(q) /\ Len(q) \in Nat
      /\ \A n \in 1..Len(q) : toServer'[s][n] = q[n]
      /\ toServer'[s][Len(q) + 1] = msg
  BY <1>2, AppendOne
<1>4. SessionOK(s)
  BY <1>1 DEF SoundOK
<1>5. ~Waits(s) /\ LastStarted(s) = lastId
  <2>1. CASE lastId \in Ids
    <3>1. Started(lastId)
      BY <1>1, <1>4, <2>1 DEF SessionOK, EndsOK
    <3>2. lastId <= LastStarted(s)
      BY <1>4, <2>1, <3>1 DEF SessionOK, RequestsOK
    <3> QED  BY <1>1, <3>2 DEF LastStarted
  <2>2. CASE lastId \notin Ids
    <3>1. ASSUME Waits(s)  PROVE FALSE
      <4>1. PICK n \in DOMAIN q : IsStart(toServer[s][n])
        BY <3>1 DEF Waits
      <4>2. q[n].id = lastId
        BY <1>3, <1>4, <4>1 DEF SessionOK, RequestsOK
      <4>3. q[n] \in ClientMsg
        BY <1>2, <1>3, <4>1
      <4> QED  BY <2>2, <4>2, <4>3 DEF ClientMsg
    <3> QED  BY <3>1 DEF LastStarted
  <2> QED  BY <2>1, <2>2
<1>6. /\ IsStart(toServer'[s][Len(q) + 1])
      /\ \A n \in 1..Len(q) : ~IsStart(toServer'[s][n])
  BY <1>2, <1>3, <1>5 DEF IsStart, Waits
<1>7. Waits(s)' /\ LastStarted(s)' = lastId
  BY <1>1, <1>3, <1>6 DEF Waits, LastStarted
<1>8. RequestsOK(s)'
  <2>1. \A m, n \in DOMAIN toServer'[s] : IsStart(toServer'[s][m]) /\ IsStart(toServer'[s][n]) => m = n
    BY <1>3, <1>6
  <2>2. ASSUME NEW n \in DOMAIN toServer'[s]
        PROVE  toServer'[s][n].id = IF \E m \in DOMAIN toServer'[s] : m <= n /\ IsStart(toServer'[s][m])
                                    THEN lastId' ELSE LastStarted(s)'
    <3>1. CASE n = Len(q) + 1
      BY <1>1, <1>2, <1>3, <1>6, <3>1
    <3>2. CASE n \in 1..Len(q)
      <4>1. ~ \E m \in DOMAIN toServer'[s] : m <= n /\ IsStart(toServer'[s][m])
        BY <1>3, <1>6, <3>2
      <4>2. toServer'[s][n].id = lastId
        BY <1>3, <1>4, <1>5, <3>2 DEF SessionOK, RequestsOK, Waits
      <4> QED  BY <1>7, <4>1, <4>2
    <3> QED  BY <1>3, <3>1, <3>2
  <2>3. \A id \in Ids : Started(id)' <=> id <= LastStarted(s)'
    BY <1>1, <1>4, <1>5, <1>7 DEF SessionOK, RequestsOK, Started
  <2> QED  BY <1>1, <1>2, <1>4, <1>5, <1>7, <2>1, <2>2, <2>3 DEF SessionOK, RequestsOK
<1>9. HandlerOK(s)' /\ EndsOK(s)'
  <2>1. \A id \in Ids : (Ended(id)' <=> Ended(id)) /\ (Quiet(id)' <=> Quiet(id))
                        /\ (Started(id)' <=> Started(id))
    BY <1>1 DEF Ended, Quiet, Started
  <2>2. HandlerOK(s)'
    BY <1>1, <1>4, <1>5, <1>7 DEF SessionOK, HandlerOK, Ended
  <2>3. \A id \in Ids : id < lastId' => Ended(id)'
    BY <1>1, <1>4, <2>1 DEF SessionOK, EndsOK, Ids
  <2> QED  BY <1>1, <1>2, <1>4, <2>1, <2>2, <2>3 DEF SessionOK, EndsOK
<1>10. \A t \in Sessions : session'[t] # "new" => t = s
  BY <1>1, OnlyOne, StillOne
<1>11. \A id \in Ids : BlocksOK(id)'
  BY <1>1, SameBlocks DEF SoundOK, Adding
<1> QED  BY <1>8, <1>9, <1>10, <1>11 DEF SoundOK, SessionOK

LEMMA OneClientAbort ==
  ASSUME JavaInv, SoundOK, OneSession', NEW s \in Sessions, ClientAbort(s)
  PROVE  SoundOK'
<1> USE DEF serverVars, statics
<1> DEFINE msg == [op |-> "ABORT", id |-> calc[s]]
           q == toServer[s]
<1>1. /\ session[s] = "open" /\ client' = [client EXCEPT ![s] = "aborting"]
      /\ toServer' = [toServer EXCEPT ![s] = Append(q, msg)] /\ calc[s] \in Ids
      /\ UNCHANGED <<calc, lastId, toClient, session, currentSession, threads, handler,
                     executors, posted>>
  BY DEF ClientAbort, JavaInv, UsesOK
<1>2. /\ q \in Seq(ClientMsg) /\ msg \in ClientMsg /\ msg.op = "ABORT"
      /\ client'[s] = "aborting" /\ toServer'[s] = Append(q, msg)
  BY <1>1 DEF JavaInv, TypeOK, ClientMsg
<1>3. /\ DOMAIN toServer'[s] = 1..Len(q) + 1 /\ DOMAIN q = 1..Len(q) /\ Len(q) \in Nat
      /\ \A n \in 1..Len(q) : toServer'[s][n] = q[n]
      /\ toServer'[s][Len(q) + 1] = msg
  BY <1>2, AppendOne
<1>4. SessionOK(s)
  BY <1>1 DEF SoundOK
<1>5. /\ ~IsStart(toServer'[s][Len(q) + 1])
      /\ \A n \in 1..Len(q) : IsStart(toServer'[s][n]) <=> IsStart(toServer[s][n])
  BY <1>2, <1>3 DEF IsStart
<1>6. (Waits(s)' <=> Waits(s)) /\ LastStarted(s)' = LastStarted(s)
  <2>1. Waits(s)' <=> Waits(s)
    BY <1>3, <1>5 DEF Waits
  <2> QED  BY <1>1, <2>1 DEF LastStarted
<1>7. RequestsOK(s)'
  <2>1. \A m, n \in DOMAIN toServer'[s] : IsStart(toServer'[s][m]) /\ IsStart(toServer'[s][n]) => m = n
    BY <1>3, <1>4, <1>5 DEF SessionOK, RequestsOK
  <2>2. ASSUME NEW n \in DOMAIN toServer'[s]
        PROVE  toServer'[s][n].id = IF \E m \in DOMAIN toServer'[s] : m <= n /\ IsStart(toServer'[s][m])
                                    THEN lastId' ELSE LastStarted(s)'
    <3>1. CASE n = Len(q) + 1
      <4>1. (\E m \in DOMAIN toServer'[s] : m <= n /\ IsStart(toServer'[s][m])) <=> Waits(s)'
        <5>1. \A m \in DOMAIN toServer'[s] : m <= n
          BY <1>3, <3>1
        <5> QED  BY <5>1 DEF Waits
      <4>2. toServer'[s][n].id = lastId
        BY <1>3, <1>4, <3>1 DEF SessionOK, RequestsOK
      <4> QED  BY <1>1, <1>6, <4>1, <4>2 DEF LastStarted
    <3>2. CASE n \in 1..Len(q)
      <4>1. (\E m \in DOMAIN toServer'[s] : m <= n /\ IsStart(toServer'[s][m]))
               <=> \E m \in DOMAIN toServer[s] : m <= n /\ IsStart(toServer[s][m])
        BY <1>3, <1>5, <3>2
      <4> QED  BY <1>1, <1>3, <1>4, <1>6, <3>2, <4>1 DEF SessionOK, RequestsOK
    <3> QED  BY <1>3, <3>1, <3>2
  <2> QED  BY <1>1, <1>4, <1>6, <2>1, <2>2 DEF SessionOK, RequestsOK, Started
<1>8. HandlerOK(s)' /\ EndsOK(s)'
  <2>1. \A id \in Ids : (Ended(id)' <=> Ended(id)) /\ (Quiet(id)' <=> Quiet(id))
                        /\ (Started(id)' <=> Started(id))
    BY <1>1 DEF Ended, Quiet, Started
  <2>2. HandlerOK(s)'
    BY <1>1, <1>4, <1>6 DEF SessionOK, HandlerOK, Ended
  <2> QED  BY <1>1, <1>2, <1>4, <2>1, <2>2 DEF SessionOK, EndsOK
<1>9. \A t \in Sessions : session'[t] # "new" => t = s
  BY <1>1, OnlyOne, StillOne
<1>10. \A id \in Ids : BlocksOK(id)'
  BY <1>1, SameBlocks DEF SoundOK, Adding
<1> QED  BY <1>7, <1>8, <1>9, <1>10 DEF SoundOK, SessionOK

\* Requests and handlers of a session that changes nothing of them.
LEMMA SameRequests ==
  ASSUME NEW s \in Sessions, SessionOK(s), UNCHANGED <<calc, lastId, toServer, threads, handler, posted>>,
         session'[s] \in {session[s], "closing"}, session'[s] = "closing" => session[s] # "closed",
         \A id \in Ids : Started(id)' <=> Started(id)
  PROVE  RequestsOK(s)' /\ HandlerOK(s)' /\ LastStarted(s)' = LastStarted(s)
<1>1. (Waits(s)' <=> Waits(s)) /\ LastStarted(s)' = LastStarted(s)
  BY DEF Waits, LastStarted
<1> QED  BY <1>1 DEF SessionOK, RequestsOK, HandlerOK, Ended

LEMMA OneClientReceive ==
  ASSUME JavaInv, SoundOK, OneSession', NEW s \in Sessions, ClientReceive(s)
  PROVE  SoundOK'
<1> USE DEF serverVars, statics
<1> DEFINE q == toClient[s]
<1>1. /\ q # <<>> /\ toClient' = [toClient EXCEPT ![s] = Tail(q)]
      /\ client' = [client EXCEPT ![s] = IF Head(q).id = calc[s] THEN "waiting" ELSE @]
      /\ UNCHANGED <<calc, lastId, toServer, session, currentSession, threads, handler,
                     executors, posted>>
  BY DEF ClientReceive
<1>2. toClient \in [Sessions -> Seq(Answer)] /\ client \in [Sessions -> {"waiting", "calculating", "aborting", "gone"}]
  BY DEF JavaInv, TypeOK
<1>3. /\ q \in Seq(Answer) /\ toClient'[s] = Tail(q)
      /\ client'[s] = "waiting" => client[s] = "waiting" \/ Head(q).id = calc[s]
  BY <1>1, <1>2
<1>4. Head(q) = q[1] /\ 1 \in DOMAIN q
      /\ \A n \in DOMAIN Tail(q) : n + 1 \in DOMAIN q /\ Tail(q)[n] = q[n + 1]
  BY <1>1, <1>3, TailOne
<1>5. session[s] # "new"
  BY <1>1 DEF JavaInv, NewOK
<1>6. SessionOK(s)
  BY <1>5 DEF SoundOK
<1>7. \A id \in Ids : (Ended(id)' <=> Ended(id)) /\ (Quiet(id)' <=> Quiet(id))
                      /\ (Started(id)' <=> Started(id))
  BY <1>1 DEF Ended, Quiet, Started
<1>8. RequestsOK(s)' /\ HandlerOK(s)'
  BY <1>1, <1>6, <1>7, SameRequests
<1>9. EndsOK(s)'
  <2>1. Head(q) \in posted /\ Head(q).op \in EndOps
    BY <1>4, <1>6 DEF SessionOK, EndsOK
  <2>2. Head(q) \in Answer /\ Head(q) = EndMsg(Head(q).op, Head(q).id)
    <3>1. Head(q) \in Answer
      BY <2>1 DEF JavaInv, TypeOK
    <3> QED  BY <2>1, <3>1 DEF Answer, EndMsg, EndOps
  <2>3. Ended(Head(q).id)
    BY <2>1, <2>2 DEF Ended
  <2>4. client'[s] = "waiting" /\ lastId' \in Ids => Ended(lastId)
    BY <1>1, <1>3, <1>6, <2>3 DEF SessionOK, EndsOK, RequestsOK
  <2>5. \A n \in DOMAIN toClient'[s] : toClient'[s][n] \in posted' /\ toClient'[s][n].op \in EndOps
    BY <1>1, <1>3, <1>4, <1>6 DEF SessionOK, EndsOK
  <2> QED  BY <1>1, <1>6, <1>7, <2>4, <2>5 DEF SessionOK, EndsOK
<1>10. \A t \in Sessions : session'[t] # "new" => t = s
  BY <1>1, <1>5, OnlyOne, StillOne
<1>11. \A id \in Ids : BlocksOK(id)'
  BY <1>1, SameBlocks DEF SoundOK, Adding
<1> QED  BY <1>8, <1>9, <1>10, <1>11 DEF SoundOK, SessionOK

LEMMA OneClientLeaves ==
  ASSUME JavaInv, SoundOK, OneSession', NEW s \in Sessions, ClientLeaves(s)
  PROVE  SoundOK'
<1> USE DEF serverVars, statics
<1>1. /\ session[s] = "open" /\ session' = [session EXCEPT ![s] = "closing"]
      /\ client' = [client EXCEPT ![s] = "gone"]
      /\ UNCHANGED <<calc, lastId, toServer, toClient, currentSession, threads, handler,
                     executors, posted>>
  BY DEF ClientLeaves
<1>2. /\ session'[s] = "closing" /\ client'[s] = "gone"
      /\ \A t \in Sessions : t # s => session'[t] = session[t]
  BY <1>1 DEF JavaInv, TypeOK
<1>3. SessionOK(s)
  BY <1>1 DEF SoundOK
<1>4. \A id \in Ids : (Ended(id)' <=> Ended(id)) /\ (Quiet(id)' <=> Quiet(id))
                      /\ (Started(id)' <=> Started(id))
  BY <1>1 DEF Ended, Quiet, Started
<1>5. RequestsOK(s)' /\ HandlerOK(s)'
  BY <1>1, <1>2, <1>3, <1>4, SameRequests
<1>6. EndsOK(s)'
  BY <1>1, <1>2, <1>3, <1>4 DEF SessionOK, EndsOK
<1>7. \A t \in Sessions : session'[t] # "new" => t = s
  BY <1>1, <1>2, OnlyOne, StillOne
<1>8. \A id \in Ids : BlocksOK(id)'
  BY <1>1, SameBlocks DEF SoundOK, Adding
<1> QED  BY <1>5, <1>6, <1>7, <1>8 DEF SoundOK, SessionOK

-----------------------------------------------------------------------------
(* Sessions open and close.                                                *)

\* Before the first session there is nothing.
LEMMA OneOnOpen ==
  ASSUME JavaInv, SoundOK, OneSession', NEW s \in Sessions, OnOpen(s)
  PROVE  SoundOK'
<1>1. session[s] = "new" /\ session'[s] = "open" /\ s \in Opened'
      /\ \A t \in Sessions : session[t] # "new" => t # s /\ session'[t] # "new"
  BY DEF OnOpen, JavaInv, TypeOK, Opened
<1>2. \A t \in Sessions : session'[t] # "new" => t = s
  <2> SUFFICES ASSUME NEW t \in Sessions, session'[t] # "new"  PROVE t = s
    OBVIOUS
  <2>1. Cardinality(Opened') <= 1 /\ t \in Opened'
    BY DEF OneSession, Opened
  <2>2. Cardinality(Opened' \ {s}) = Cardinality(Opened') - 1 /\ IsFiniteSet(Opened' \ {s})
        /\ Cardinality(Opened') \in Nat /\ Cardinality(Opened' \ {s}) \in Nat
    BY <1>1, OpenedFinite, RemoveOne, FS_RemoveElement
  <2>3. Opened' \ {s} = {}
    BY <2>1, <2>2, FS_EmptySet
  <2> QED  BY <2>1, <2>3
<1>3. \A t \in Sessions : session[t] = "new"
  BY <1>1, <1>2
<1>4. /\ lastId = 0 /\ threads = Null /\ posted = {} /\ \A id \in Ids : ~Started(id)
      /\ toServer[s] = <<>> /\ toClient[s] = <<>> /\ handler[s] = Idle
  BY <1>3 DEF JavaInv, NewOK
<1>5. /\ client'[s] = "waiting" /\ calc'[s] = 0
      /\ UNCHANGED <<lastId, toServer, toClient, threads, handler, executors, posted>>
  BY <1>4 DEF OnOpen, JavaInv, TypeOK
<1>6. ~Waits(s)' /\ LastStarted(s)' = 0
  BY <1>4, <1>5 DEF Waits, LastStarted
<1>7. RequestsOK(s)' /\ HandlerOK(s)' /\ EndsOK(s)'
  BY <1>1, <1>4, <1>5, <1>6 DEF RequestsOK, HandlerOK, EndsOK, Started, Ended, Idle, Null, Ids
<1>8. \A id \in Ids : BlocksOK(id)'
  BY <1>5, SameBlocks DEF SoundOK, Adding
<1> QED  BY <1>2, <1>7, <1>8 DEF SoundOK, SessionOK

LEMMA OneOnClose ==
  ASSUME JavaInv, SoundOK, OneSession', NEW s \in Sessions, OnClose(s)
  PROVE  SoundOK'
<1>1. /\ session[s] = "closing" /\ handler[s] = Idle
      /\ session' = [session EXCEPT ![s] = "closed"]
      /\ UNCHANGED <<client, calc, lastId, toServer, toClient, handler, executors, posted>>
  BY DEF OnClose, clientVars
<1>2. session'[s] = "closed" /\ \A t \in Sessions : t # s => session'[t] = session[t]
  BY <1>1 DEF JavaInv, TypeOK
<1>3. SessionOK(s)
  BY <1>1 DEF SoundOK
<1>4. \A id \in Ids : (Ended(id)' <=> Ended(id)) /\ (Quiet(id)' <=> Quiet(id))
                      /\ (Started(id)' <=> Started(id))
  BY <1>1 DEF Ended, Quiet, Started
<1>5. (Waits(s)' <=> Waits(s)) /\ LastStarted(s)' = LastStarted(s)
  BY <1>1 DEF Waits, LastStarted
<1>6. RequestsOK(s)' /\ HandlerOK(s)' /\ EndsOK(s)'
  BY <1>1, <1>2, <1>3, <1>4, <1>5 DEF SessionOK, RequestsOK, HandlerOK, EndsOK, Idle
<1>7. \A t \in Sessions : session'[t] # "new" => t = s
  BY <1>1, <1>2, OnlyOne, StillOne
<1>8. \A id \in Ids : BlocksOK(id)'
  BY <1>1, SameBlocks DEF SoundOK, Adding
<1> QED  BY <1>6, <1>7, <1>8 DEF SoundOK, SessionOK

-----------------------------------------------------------------------------
(* The handlers.                                                           *)

\* The blocks of a calculation, when its executor stays as it is: the handler
\* goes on to later blocks, and ABORTED is sent.
LEMMA LaterBlocks ==
  ASSUME NEW id \in Ids, BlocksOK(id), executors'[id] = executors[id],
         Started(id) => executors[id] \in ExecutorState,
         \A msg \in posted' : msg.id = id => msg \in posted \/ (Started(id) /\ msg.op = "ABORTED"),
         posted \subseteq posted',
         \A blk \in Blocks : Adding(id, blk)' => \E b \in Blocks : b <= blk /\ Adding(id, b)
  PROVE  BlocksOK(id)'
<1>1. Started(id)' <=> Started(id)
  BY DEF Started
<1>2. \A blk : /\ StartedMsg(id, blk) \in posted' <=> StartedMsg(id, blk) \in posted
               /\ CompletedMsg(id, blk) \in posted' <=> CompletedMsg(id, blk) \in posted
  BY DEF StartedMsg, CompletedMsg
<1>3. EndMsg("COMPLETED", id) \in posted' <=> EndMsg("COMPLETED", id) \in posted
  BY DEF EndMsg
<1>4. CompletedBlocks(id)' = CompletedBlocks(id)
  BY <1>2 DEF CompletedBlocks
<1>5. ASSUME Started(id), NEW n \in DOMAIN executors[id].queue, NEW blk \in Blocks, Adding(id, blk)'
      PROVE  executors[id].queue[n].block < blk
  <2>1. PICK b \in Blocks : b <= blk /\ Adding(id, b)
    BY <1>5
  <2>2. executors[id].queue[n].block < b
    BY <1>5, <2>1 DEF BlocksOK
  <2>3. executors[id].queue \in Seq(Task)
    BY <1>5 DEF ExecutorState
  <2>4. executors[id].queue[n] \in Task
    BY <1>5, <2>3
  <2>5. executors[id].queue[n].block \in Blocks
    BY <2>4 DEF Task
  <2> QED  BY <2>1, <2>2, <2>5 DEF Blocks
<1>6. ASSUME Started(id), NEW blk \in Blocks, StartedMsg(id, blk) \in posted,
             NEW next \in Blocks, Adding(id, next)'
      PROVE  blk < next
  <2>1. PICK b \in Blocks : b <= next /\ Adding(id, b)
    BY <1>6
  <2>2. blk < b
    BY <1>6, <2>1 DEF BlocksOK
  <2> QED  BY <2>1, <2>2 DEF Blocks
<1> QED  BY <1>1, <1>2, <1>3, <1>4, <1>5, <1>6 DEF BlocksOK

\* Only the opened session has a handler that runs.
LEMMA OneHandler ==
  ASSUME JavaInv, OneSession, NEW s \in Sessions, session[s] # "new"
  PROVE  \A t \in Sessions : t # s => session[t] = "new" /\ handler[t] = Idle
BY OnlyOne DEF JavaInv, NewOK

LEMMA JavaHasBase == JavaInv => BaseInv
BY DEF JavaInv, BaseInv

\* A session that does not close is the only one.
LEMMA OneSound ==
  ASSUME JavaInv, OneSession', NEW s \in Sessions, session[s] # "new", UNCHANGED session,
         SessionOK(s)', \A id \in Ids : BlocksOK(id)'
  PROVE  SoundOK'
BY OnlyOne, StillOne DEF SoundOK

LEMMA OneAwaitTermination ==
  ASSUME JavaInv, SoundOK, OneSession', NEW s \in Sessions, AwaitTermination(s)
  PROVE  SoundOK'
<1>1. /\ session[s] # "new"
      /\ handler'[s] = IF threads = Null THEN Idle
                       ELSE [at |-> "await", id |-> handler[s].id, executor |-> threads]
      /\ \A t \in Sessions : t # s => handler'[t] = handler[t]
  BY AwaitTerminationBase, JavaHasBase
<1>2. /\ handler[s].at = "stopped"
      /\ UNCHANGED <<client, calc, lastId, toServer, toClient, session, threads, executors, posted>>
  BY DEF AwaitTermination, clientVars, statics
<1>3. SessionOK(s) /\ session[s] # "closed" /\ threads = LastStarted(s) /\ handler[s].id = LastStarted(s)
  BY <1>1, <1>2 DEF SoundOK, SessionOK, RequestsOK, HandlerOK, Idle
<1>4. LastStarted(s)' = LastStarted(s) /\ (Waits(s)' <=> Waits(s))
  BY <1>2 DEF LastStarted, Waits
<1>5. \A id \in Ids : (Ended(id)' <=> Ended(id)) /\ (Quiet(id)' <=> Quiet(id))
                      /\ (Started(id)' <=> Started(id))
  BY <1>2 DEF Ended, Quiet, Started
<1>6. RequestsOK(s)' /\ HandlerOK(s)' /\ EndsOK(s)'
  BY <1>1, <1>2, <1>3, <1>4, <1>5 DEF SessionOK, RequestsOK, HandlerOK, EndsOK, Idle
<1>7. \A id \in Ids : \A blk : Adding(id, blk)' => Adding(id, blk)
  BY <1>1 DEF Adding, Idle
<1>8. \A id \in Ids : BlocksOK(id)'
  BY <1>2, <1>7, SameBlocks DEF SoundOK
<1> QED  BY <1>1, <1>2, <1>6, <1>8, OneSound DEF SessionOK

\* ABORTED is sent when the executor has nothing left to do.
LEMMA OneAborted ==
  ASSUME JavaInv, SoundOK, OneSession', NEW s \in Sessions, Aborted(s)
  PROVE  SoundOK'
<1> DEFINE id == handler[s].id
           msg == EndMsg("ABORTED", id)
<1>1. /\ session[s] # "new" /\ handler'[s] = Idle
      /\ \A t \in Sessions : t # s => handler'[t] = handler[t]
      /\ posted' \in {posted, posted \cup {msg}}
      /\ \/ toClient'[s] = toClient[s]
         \/ msg \in posted' /\ toClient'[s] = Append(toClient[s], msg)
  BY AbortedBase, JavaHasBase
<1>2. /\ handler[s].at = "await" /\ Terminated(handler[s].executor)
      /\ UNCHANGED <<client, calc, lastId, toServer, session, threads, executors>>
  BY DEF Aborted, Awaited, clientVars, statics
<1>3. /\ SessionOK(s) /\ session[s] # "closed" /\ id = LastStarted(s) /\ handler[s].executor = id
  BY <1>1, <1>2 DEF SoundOK, SessionOK, HandlerOK, Idle
<1>4. id \in Ids
  BY <1>2, HandlerHas, JavaHasBase
<1>5. Started(id) /\ Quiet(id)
  BY <1>2, <1>3, <1>4, JavaDispatcherAssumption
     DEF SessionOK, RequestsOK, Terminated, Quiet, Ids
<1>6. msg.id = id /\ msg.op = "ABORTED" /\ msg.op \in EndOps
  BY DEF EndMsg, EndOps
<1>7. \A k \in Ids : (Ended(k)' => Ended(k) \/ k = id) /\ (Ended(k) => Ended(k)')
  <2>1. \A op, k : EndMsg(op, k).id = k
    BY DEF EndMsg
  <2>2. \A k \in Ids : \A op : EndMsg(op, k) \in posted' => EndMsg(op, k) \in posted \/ k = id
    BY <1>1, <2>1
  <2> QED  BY <1>1, <2>2 DEF Ended
<1>8. \A k \in Ids : (Quiet(k)' <=> Quiet(k)) /\ (Started(k)' <=> Started(k))
  BY <1>2 DEF Quiet, Started
<1>9. LastStarted(s)' = LastStarted(s) /\ (Waits(s)' <=> Waits(s))
  BY <1>2 DEF LastStarted, Waits
<1>10. RequestsOK(s)' /\ HandlerOK(s)'
  BY <1>1, <1>2, <1>3, <1>8, <1>9 DEF SessionOK, RequestsOK, HandlerOK, Idle
<1>11. EndsOK(s)'
  <2>1. \A n \in DOMAIN toClient'[s] : toClient'[s][n] \in posted' /\ toClient'[s][n].op \in EndOps
    <3>1. toClient[s] \in Seq(Answer) /\ msg \in Answer
      BY <1>4 DEF JavaInv, TypeOK, Answer, EndMsg
    <3>2. \A n \in DOMAIN toClient[s] : toClient[s][n] \in posted' /\ toClient[s][n].op \in EndOps
      BY <1>1, <1>3 DEF SessionOK, EndsOK
    <3>3. CASE toClient'[s] = toClient[s]
      BY <3>2, <3>3
    <3>4. CASE msg \in posted' /\ toClient'[s] = Append(toClient[s], msg)
      <4> HIDE DEF msg
      <4>1. /\ DOMAIN toClient'[s] = 1..Len(toClient[s]) + 1 /\ DOMAIN toClient[s] = 1..Len(toClient[s])
            /\ Len(toClient[s]) \in Nat
            /\ \A n \in 1..Len(toClient[s]) : toClient'[s][n] = toClient[s][n]
            /\ toClient'[s][Len(toClient[s]) + 1] = msg
        BY <3>1, <3>4, AppendOne
      <4>2. \A n \in 1..Len(toClient[s]) + 1 : n \in 1..Len(toClient[s]) \/ n = Len(toClient[s]) + 1
        BY <4>1
      <4> QED  BY <1>6, <3>2, <3>4, <4>1, <4>2
    <3> QED  BY <1>1, <3>3, <3>4
  <2> QED  BY <1>2, <1>3, <1>5, <1>7, <1>8, <2>1 DEF SessionOK, EndsOK
<1>12. ASSUME NEW k \in Ids  PROVE BlocksOK(k)'
  <2>1. \A m \in posted' : m.id = k => m \in posted \/ (Started(k) /\ m.op = "ABORTED")
    BY <1>1, <1>5, <1>6
  <2>2. posted \subseteq posted'
    BY <1>1
  <2>3. \A blk \in Blocks : Adding(k, blk)' => \E b \in Blocks : b <= blk /\ Adding(k, b)
    <3>1. \A blk : Adding(k, blk)' => Adding(k, blk)
      BY <1>1 DEF Adding, Idle
    <3> QED  BY <3>1, JavaDispatcherAssumption DEF Blocks
  <2>4. Started(k) => executors[k] \in ExecutorState
    BY ExecutorHas DEF JavaInv
  <2> QED  BY <1>2, <2>1, <2>2, <2>3, <2>4, LaterBlocks DEF SoundOK
<1> QED  BY <1>1, <1>2, <1>10, <1>11, <1>12, OneSound DEF SessionOK

\* The executor of one calculation goes on.
LEMMA BecomesOne ==
  ASSUME TypeOK, NEW id \in Ids, Started(id), NEW e, Becomes(id, e)
  PROVE  /\ executors'[id] = e
         /\ \A k \in Ids : k # id => executors'[k] = executors[k]
         /\ \A k \in Ids : Started(k)' <=> Started(k)
<1>1. e \in ExecutorState /\ WithinBounds(e) /\ executors' = Put(id, e)
  BY DEF Becomes
<1> QED  BY <1>1, ExecutorChanges

\* A request is read from the front.
LEMMA HandlesOne ==
  ASSUME JavaInv, SoundOK, NEW s \in Sessions, NEW op, Handles(s, op)
  PROVE  /\ session[s] = "open" /\ handler[s] = Idle /\ SessionOK(s)
         /\ threads = LastStarted(s)
         /\ toServer'[s] = Tail(toServer[s]) /\ Head(toServer[s]) \in ClientMsg
         /\ Head(toServer[s]).op = op /\ 1 \in DOMAIN toServer[s]
         /\ Head(toServer[s]) = toServer[s][1]
         /\ \A n \in DOMAIN toServer'[s] :
               n + 1 \in DOMAIN toServer[s] /\ toServer'[s][n] = toServer[s][n + 1]
         /\ \A n \in DOMAIN toServer[s] :
               n = 1 \/ (n - 1 \in DOMAIN toServer'[s] /\ toServer'[s][n - 1] = toServer[s][n])
         /\ DOMAIN toServer[s] \subseteq Nat \ {0} /\ DOMAIN toServer'[s] \subseteq Nat \ {0}
<1>1. /\ session[s] = "open" /\ handler[s] = Idle
      /\ toServer[s] \in Seq(ClientMsg) /\ toServer[s] # <<>>
      /\ Head(toServer[s]) \in ClientMsg /\ Head(toServer[s]).op = op
      /\ toServer'[s] = Tail(toServer[s])
  BY HandlesBase, JavaHasBase
<1>2. SessionOK(s) /\ threads = LastStarted(s)
  BY <1>1 DEF SoundOK, SessionOK, RequestsOK
<1>3. /\ Head(toServer[s]) = toServer[s][1] /\ 1 \in DOMAIN toServer[s]
      /\ Len(toServer[s]) \in Nat \ {0}
      /\ DOMAIN toServer[s] = 1 .. Len(toServer[s]) /\ DOMAIN Tail(toServer[s]) = 1 .. Len(toServer[s]) - 1
      /\ \A n \in DOMAIN Tail(toServer[s]) :
            n + 1 \in DOMAIN toServer[s] /\ Tail(toServer[s])[n] = toServer[s][n + 1]
  BY <1>1, TailOne
<1>4. ASSUME NEW n \in DOMAIN toServer[s], n # 1
      PROVE  n - 1 \in DOMAIN toServer'[s] /\ toServer'[s][n - 1] = toServer[s][n]
  BY <1>1, <1>3, <1>4
<1> QED  BY <1>1, <1>2, <1>3, <1>4

LEMMA OneOnAbort ==
  ASSUME JavaInv, SoundOK, OneSession', NEW s \in Sessions, OnAbort(s)
  PROVE  SoundOK'
<1>1. Handles(s, "ABORT")
      /\ UNCHANGED <<client, calc, lastId, toClient, session, threads, posted>>
  BY DEF OnAbort, clientVars, statics
<1>2. /\ session[s] = "open" /\ handler[s] = Idle /\ SessionOK(s)
      /\ threads = LastStarted(s)
      /\ toServer'[s] = Tail(toServer[s]) /\ Head(toServer[s]) \in ClientMsg
      /\ Head(toServer[s]).op = "ABORT" /\ 1 \in DOMAIN toServer[s]
      /\ Head(toServer[s]) = toServer[s][1]
      /\ \A n \in DOMAIN toServer'[s] :
            n + 1 \in DOMAIN toServer[s] /\ toServer'[s][n] = toServer[s][n + 1]
      /\ \A n \in DOMAIN toServer[s] :
            n = 1 \/ (n - 1 \in DOMAIN toServer'[s] /\ toServer'[s][n - 1] = toServer[s][n])
      /\ DOMAIN toServer[s] \subseteq Nat \ {0} /\ DOMAIN toServer'[s] \subseteq Nat \ {0}
  BY <1>1, HandlesOne
<1>3. /\ \A t \in Sessions : t # s => handler'[t] = handler[t]
      /\ IF threads # Null
         THEN /\ threads \in Ids /\ Started(threads)
              /\ Becomes(threads, [executors[threads] EXCEPT !.state = "stop", !.queue = <<>>])
              /\ handler'[s] = [at |-> "stopped", id |-> Head(toServer[s]).id]
         ELSE UNCHANGED <<executors, handler>>
  BY OnAbortBase, JavaHasBase
<1>4. ~IsStart(toServer[s][1])
  BY <1>2 DEF IsStart
<1>5. Head(toServer[s]).id = LastStarted(s)
  BY <1>2, <1>4 DEF SessionOK, RequestsOK
<1>6. (Waits(s)' <=> Waits(s)) /\ LastStarted(s)' = LastStarted(s)
  <2>1. Waits(s)' => Waits(s)
    BY <1>2 DEF Waits
  <2>2. Waits(s) => Waits(s)'
    BY <1>2, <1>4 DEF Waits
  <2> QED  BY <1>1, <2>1, <2>2 DEF LastStarted
<1>7. \A k \in Ids : (Started(k)' <=> Started(k)) /\ (Quiet(k) => Quiet(k)') /\ (Ended(k)' <=> Ended(k))
  <2>1. CASE threads # Null
    <3>1. PICK id \in Ids : id = threads
      BY <1>3, <2>1
    <3>2. /\ executors'[id] = [executors[id] EXCEPT !.state = "stop", !.queue = <<>>]
          /\ \A k \in Ids : k # id => executors'[k] = executors[k]
          /\ \A k \in Ids : Started(k)' <=> Started(k)
      BY <1>3, <2>1, <3>1, BecomesOne DEF JavaInv
    <3>3. executors[id] \in ExecutorState
      BY <1>3, <2>1, <3>1, ExecutorHas DEF JavaInv
    <3>4. Quiet(id) => Quiet(id)'
      BY <3>2, <3>3 DEF Quiet, ExecutorState
    <3> QED  BY <1>1, <3>2, <3>4 DEF Quiet, Ended
  <2>2. CASE threads = Null
    BY <1>1, <1>3, <2>2 DEF Started, Quiet, Ended
  <2> QED  BY <2>1, <2>2
<1>8. RequestsOK(s)'
  <2>1. \A m, n \in DOMAIN toServer'[s] : IsStart(toServer'[s][m]) /\ IsStart(toServer'[s][n]) => m = n
    <3> SUFFICES ASSUME NEW m \in DOMAIN toServer'[s], NEW n \in DOMAIN toServer'[s],
                        IsStart(toServer'[s][m]), IsStart(toServer'[s][n])
                 PROVE  m = n
      OBVIOUS
    <3>1. /\ m \in Nat /\ n \in Nat /\ m + 1 \in DOMAIN toServer[s] /\ n + 1 \in DOMAIN toServer[s]
          /\ IsStart(toServer[s][m + 1]) /\ IsStart(toServer[s][n + 1])
      BY <1>2
    <3>2. m + 1 = n + 1
      BY <1>2, <3>1 DEF SessionOK, RequestsOK
    <3> QED  BY <3>1, <3>2
  <2>2. ASSUME NEW n \in DOMAIN toServer'[s]
        PROVE  toServer'[s][n].id = IF \E m \in DOMAIN toServer'[s] : m <= n /\ IsStart(toServer'[s][m])
                                    THEN lastId' ELSE LastStarted(s)'
    <3>1. n + 1 \in DOMAIN toServer[s] /\ toServer'[s][n] = toServer[s][n + 1]
      BY <1>2
    <3>2. (\E m \in DOMAIN toServer'[s] : m <= n /\ IsStart(toServer'[s][m]))
             => \E m \in DOMAIN toServer[s] : m <= n + 1 /\ IsStart(toServer[s][m])
      <4>1. ASSUME NEW m \in DOMAIN toServer'[s], m <= n, IsStart(toServer'[s][m])
            PROVE  m + 1 \in DOMAIN toServer[s] /\ m + 1 <= n + 1 /\ IsStart(toServer[s][m + 1])
        BY <1>2, <4>1
      <4> QED  BY <4>1
    <3>3. (\E m \in DOMAIN toServer[s] : m <= n + 1 /\ IsStart(toServer[s][m]))
             => \E m \in DOMAIN toServer'[s] : m <= n /\ IsStart(toServer'[s][m])
      <4>1. ASSUME NEW m \in DOMAIN toServer[s], m <= n + 1, IsStart(toServer[s][m])
            PROVE  m - 1 \in DOMAIN toServer'[s] /\ m - 1 <= n /\ IsStart(toServer'[s][m - 1])
        BY <1>2, <1>4, <4>1
      <4> QED  BY <4>1
    <3>4. toServer[s][n + 1].id = IF \E m \in DOMAIN toServer[s] : m <= n + 1 /\ IsStart(toServer[s][m])
                                  THEN lastId ELSE LastStarted(s)
      BY <1>2, <3>1 DEF SessionOK, RequestsOK
    <3> QED  BY <1>1, <1>6, <3>1, <3>2, <3>3, <3>4
  <2> QED  BY <1>1, <1>2, <1>6, <1>7, <2>1, <2>2 DEF SessionOK, RequestsOK
<1>9. HandlerOK(s)'
  BY <1>1, <1>2, <1>3, <1>5, <1>6 DEF HandlerOK, Idle
<1>10. EndsOK(s)'
  BY <1>1, <1>2, <1>7 DEF SessionOK, EndsOK
<1>11. \A k \in Ids : \A blk : Adding(k, blk)' => Adding(k, blk)
  BY <1>3 DEF Adding
<1>12. ASSUME NEW k \in Ids  PROVE BlocksOK(k)'
  <2>1. BlocksOK(k)
    BY DEF SoundOK
  <2>2. CASE threads # Null /\ k = threads
    <3>1. /\ executors'[k] = [executors[k] EXCEPT !.state = "stop", !.queue = <<>>]
          /\ Started(k) /\ Started(k)' /\ executors[k] \in ExecutorState
      BY <1>3, <2>2, BecomesOne, ExecutorHas DEF JavaInv
    <3>2. /\ executors'[k].queue = <<>> /\ executors'[k].tasks = executors[k].tasks
          /\ executors'[k].left = executors[k].left /\ executors'[k].counting = executors[k].counting
      BY <3>1 DEF ExecutorState
    <3>3. CompletedBlocks(k)' = CompletedBlocks(k)
      BY <1>1 DEF CompletedBlocks
    <3> QED  BY <1>1, <1>11, <2>1, <3>1, <3>2, <3>3 DEF BlocksOK
  <2>3. CASE ~(threads # Null /\ k = threads)
    <3>1. executors'[k] = executors[k]
      BY <1>3, <2>3, BecomesOne DEF JavaInv
    <3> QED  BY <1>1, <1>11, <2>1, <3>1, SameBlocks
  <2> QED  BY <2>2, <2>3
<1> QED  BY <1>1, <1>2, <1>8, <1>9, <1>10, <1>12, OneSound DEF SessionOK

\* A new calculation: nothing was sent of it, and the one before has ended.
LEMMA OneOnStart ==
  ASSUME JavaInv, SoundOK, OneSession', NEW s \in Sessions, OnStart(s)
  PROVE  SoundOK'
<1> DEFINE id == Head(toServer[s]).id
<1>1. Handles(s, "START")
      /\ UNCHANGED <<client, calc, lastId, toClient, session, posted>> /\ threads' = id
  BY DEF OnStart, clientVars
<1>2. /\ session[s] = "open" /\ handler[s] = Idle /\ SessionOK(s)
      /\ toServer'[s] = Tail(toServer[s]) /\ Head(toServer[s]) \in ClientMsg
      /\ Head(toServer[s]).op = "START" /\ 1 \in DOMAIN toServer[s]
      /\ Head(toServer[s]) = toServer[s][1]
      /\ \A n \in DOMAIN toServer'[s] :
            n + 1 \in DOMAIN toServer[s] /\ toServer'[s][n] = toServer[s][n + 1]
      /\ DOMAIN toServer[s] \subseteq Nat \ {0} /\ DOMAIN toServer'[s] \subseteq Nat \ {0}
  BY <1>1, HandlesOne
<1>3. /\ id \in Ids /\ Head(toServer[s]).workers \in WorkerCounts
      /\ Becomes(id, NewExecutor(s, Head(toServer[s]).workers))
      /\ handler' = [handler EXCEPT ![s] = [at |-> "start", id |-> id, block |-> 1]]
  BY OnStartBase, JavaHasBase
<1>4. /\ handler'[s] = [at |-> "start", id |-> id, block |-> 1]
      /\ \A t \in Sessions : t # s => handler'[t] = handler[t]
  BY <1>3 DEF JavaInv, TypeOK
<1>5. IsStart(toServer[s][1]) /\ Waits(s) /\ LastStarted(s) = lastId - 1
  BY <1>2 DEF IsStart, Waits, LastStarted
<1>6. id = lastId /\ lastId \in Ids
  BY <1>2, <1>3, <1>5 DEF SessionOK, RequestsOK
<1>7. ~Waits(s)' /\ LastStarted(s)' = lastId
  <2>1. ASSUME NEW n \in DOMAIN toServer'[s]  PROVE ~IsStart(toServer'[s][n])
    <3>1. n + 1 \in DOMAIN toServer[s] /\ toServer'[s][n] = toServer[s][n + 1] /\ n \in Nat \ {0}
      BY <1>2
    <3>2. IsStart(toServer[s][n + 1]) => n + 1 = 1
      BY <1>2, <1>5, <3>1 DEF SessionOK, RequestsOK
    <3> QED  BY <3>1, <3>2
  <2> QED  BY <1>1, <2>1 DEF Waits, LastStarted
<1>8. /\ executors'[id] = NewExecutor(s, Head(toServer[s]).workers)
      /\ \A k \in Ids : k # id => executors'[k] = executors[k]
      /\ \A k \in Ids : Started(k)' <=> Started(k) \/ k = id
  BY <1>3, ExecutorChanges DEF Becomes, JavaInv
<1>9. ~Started(id) /\ ~Ended(id)
  BY <1>2, <1>3, <1>5, <1>6 DEF SessionOK, RequestsOK, EndsOK, Ids
<1>10. \A k \in Ids : (Ended(k)' <=> Ended(k)) /\ (Ended(k) => Started(k)' /\ Quiet(k)')
  <2>1. \A k \in Ids : Ended(k) => Started(k) /\ Quiet(k)
    BY <1>2 DEF SessionOK, EndsOK
  <2> QED  BY <1>1, <1>8, <1>9, <2>1 DEF Ended, Quiet
<1>11. RequestsOK(s)'
  <2>1. ASSUME NEW n \in DOMAIN toServer'[s]  PROVE toServer'[s][n].id = lastId
    <3>1. n + 1 \in DOMAIN toServer[s] /\ toServer'[s][n] = toServer[s][n + 1] /\ 1 <= n + 1
      BY <1>2
    <3> QED  BY <1>2, <1>5, <3>1 DEF SessionOK, RequestsOK
  <2>2. \A k \in Ids : Started(k)' <=> k <= lastId
    <3>1. \A k \in Ids : Started(k) <=> k <= lastId - 1
      BY <1>2, <1>5 DEF SessionOK, RequestsOK
    <3> QED  BY <1>6, <1>8, <3>1 DEF Ids
  <2>3. \A n \in DOMAIN toServer'[s] : ~IsStart(toServer'[s][n])
    BY <1>7 DEF Waits
  <2> QED  BY <1>1, <1>2, <1>6, <1>7, <2>1, <2>2, <2>3 DEF SessionOK, RequestsOK
<1>12. HandlerOK(s)'
  BY <1>1, <1>2, <1>3, <1>4, <1>6, <1>7, <1>9, <1>10 DEF HandlerOK
<1>13. EndsOK(s)'
  BY <1>1, <1>2, <1>10 DEF SessionOK, EndsOK
<1>14. ASSUME NEW k \in Ids  PROVE BlocksOK(k)'
  <2>1. BlocksOK(k)
    BY DEF SoundOK
  <2>2. CASE k = id
    <3>1. \A msg \in posted : msg.id # id
      BY <1>9, <2>1, <2>2 DEF BlocksOK
    <3>2. /\ \A blk : StartedMsg(id, blk) \notin posted /\ CompletedMsg(id, blk) \notin posted
          /\ EndMsg("COMPLETED", id) \notin posted
      <4>1. \A blk : StartedMsg(id, blk).id = id /\ CompletedMsg(id, blk).id = id
        BY DEF StartedMsg, CompletedMsg
      <4>2. EndMsg("COMPLETED", id).id = id
        BY DEF EndMsg
      <4> QED  BY <3>1, <4>1, <4>2
    <3>3. CompletedBlocks(k)' = {}
      BY <1>1, <2>2, <3>2 DEF CompletedBlocks
    <3>4. Cardinality(CompletedBlocks(k)') = 0
      BY <3>3, FS_EmptySet
    <3>5. /\ executors'[k].queue = <<>> /\ executors'[k].tasks = {}
          /\ executors'[k].left = NumBlocks /\ executors'[k].counting = 0
      BY <1>8, <2>2 DEF NewExecutor
    <3>6. Started(k)'
      BY <1>8, <2>2
    <3> QED  BY <1>1, <2>2, <3>1, <3>2, <3>4, <3>5, <3>6, JavaDispatcherAssumption DEF BlocksOK
  <2>3. CASE k # id
    <3>1. \A blk : Adding(k, blk)' => Adding(k, blk)
      BY <1>4, <2>3 DEF Adding
    <3> QED  BY <1>1, <1>8, <2>1, <2>3, <3>1, SameBlocks
  <2> QED  BY <2>2, <2>3
<1> QED  BY <1>1, <1>2, <1>11, <1>12, <1>13, <1>14, OneSound DEF SessionOK

\* A handler adds the blocks in order.
LEMMA OneCalculateBlock ==
  ASSUME JavaInv, SoundOK, OneSession', NEW s \in Sessions, CalculateBlock(s)
  PROVE  SoundOK'
<1> DEFINE b == handler[s].block
<1>1. /\ \/ handler'[s] = Idle
         \/ b + 1 \in Blocks /\ handler'[s] = [handler[s] EXCEPT !.block = b + 1]
      /\ \A t \in Sessions : t # s => handler'[t] = handler[t]
      /\ IF Accepts
         THEN /\ threads \in Ids /\ Started(threads)
              /\ Becomes(threads, [executors[threads] EXCEPT
                    !.queue = Append(@, [id |-> handler[s].id, block |-> handler[s].block])])
         ELSE UNCHANGED executors
  BY CalculateBlockBase, JavaHasBase
<1>2. /\ handler[s].at = "start"
      /\ UNCHANGED <<client, calc, lastId, toServer, toClient, session, threads, posted>>
  BY DEF CalculateBlock, clientVars, statics
<1>3. session[s] # "new" /\ handler[s] \in HandlerState /\ handler[s].id \in Ids /\ b \in Blocks
  BY <1>2, HandlerHas, JavaHasBase
<1>4. /\ SessionOK(s) /\ session[s] # "closed" /\ handler[s].id = LastStarted(s)
      /\ threads = LastStarted(s) /\ ~Ended(LastStarted(s))
  BY <1>2, <1>3 DEF SoundOK, SessionOK, RequestsOK, HandlerOK, Idle
<1>5. LastStarted(s)' = LastStarted(s) /\ (Waits(s)' <=> Waits(s))
  BY <1>2 DEF LastStarted, Waits
<1>6. \/ handler'[s].at = "idle" /\ handler'[s] = Idle
      \/ /\ handler'[s].at = "start" /\ handler'[s].id = handler[s].id
         /\ b + 1 \in Blocks /\ handler'[s].block = b + 1
  <2>1. handler[s] \in [at : {"start"}, id : Ids, block : Blocks]
    BY <1>2, <1>3 DEF HandlerState, Idle
  <2> QED  BY <1>1, <2>1, <1>2 DEF Idle
<1>7. \A k \in Ids : (Started(k)' <=> Started(k)) /\ (Ended(k)' <=> Ended(k))
                     /\ (Ended(k) /\ Quiet(k) => Quiet(k)')
  <2>1. CASE Accepts
    <3>1. PICK id \in Ids : id = threads
      BY <1>1, <2>1
    <3>2. /\ \A k \in Ids : k # id => executors'[k] = executors[k]
          /\ \A k \in Ids : Started(k)' <=> Started(k)
      BY <1>1, <2>1, <3>1, BecomesOne DEF JavaInv
    <3>3. ~Ended(id)
      BY <1>4, <3>1
    <3> QED  BY <1>2, <3>2, <3>3 DEF Ended, Quiet
  <2>2. CASE ~Accepts
    BY <1>1, <1>2, <2>2 DEF Started, Ended, Quiet
  <2> QED  BY <2>1, <2>2
<1>8. RequestsOK(s)'
  BY <1>2, <1>4, <1>5, <1>7 DEF SessionOK, RequestsOK
<1>9. HandlerOK(s)'
  BY <1>2, <1>3, <1>4, <1>5, <1>6, <1>7 DEF HandlerOK
<1>10. EndsOK(s)'
  BY <1>2, <1>4, <1>7 DEF SessionOK, EndsOK
<1>11. \A k \in Ids, blk \in Blocks :
          Adding(k, blk)' => k = handler[s].id /\ blk = b + 1 /\ Adding(k, b)
  <2>1. \A t \in Sessions : t # s => handler'[t] = Idle
    BY <1>1, <1>3, OneHandler, StillOne, <1>2
  <2>2. \A t \in Sessions : handler'[t].at = "start" => t = s
    BY <2>1 DEF Idle
  <2> QED  BY <1>2, <1>6, <2>2 DEF Adding
<1>12. ASSUME NEW k \in Ids  PROVE BlocksOK(k)'
  <2>1. BlocksOK(k)
    BY DEF SoundOK
  <2>2. CASE Accepts /\ k = threads
    <3> DEFINE q == executors[k].queue
               task == [id |-> k, block |-> b]
    <3>1. /\ executors'[k] = [executors[k] EXCEPT !.queue = Append(q, task)]
          /\ Started(k) /\ Started(k)' /\ executors[k] \in ExecutorState
      BY <1>1, <1>4, <2>2, BecomesOne, ExecutorHas DEF JavaInv
    <3>2. /\ executors'[k].queue = Append(q, task) /\ executors'[k].tasks = executors[k].tasks
          /\ executors'[k].left = executors[k].left /\ executors'[k].counting = executors[k].counting
          /\ q \in Seq(Task) /\ task \in Task
      BY <1>3, <3>1 DEF ExecutorState, Task
    <3>3. /\ DOMAIN executors'[k].queue = 1..Len(q) + 1 /\ DOMAIN q = 1..Len(q) /\ Len(q) \in Nat
          /\ \A n \in 1..Len(q) : executors'[k].queue[n] = q[n] /\ q[n] \in Task
          /\ executors'[k].queue[Len(q) + 1] = task
      <4> HIDE DEF task
      <4> QED  BY <3>2, AppendOne
    <3>4. Adding(k, b)
      BY <1>2, <1>4, <2>2 DEF Adding
    <3>5. /\ \A n \in 1..Len(q) : q[n].id = k /\ q[n].block < b /\ q[n].block \in Blocks
          /\ \A blk \in Blocks : StartedMsg(k, blk) \in posted => blk < b
      BY <1>3, <2>1, <3>1, <3>3, <3>4 DEF BlocksOK, Task
    <3>6. CompletedBlocks(k)' = CompletedBlocks(k)
      BY <1>2 DEF CompletedBlocks
    <3>7. ASSUME NEW n \in DOMAIN executors'[k].queue
          PROVE  /\ executors'[k].queue[n].id = k
                 /\ \A m \in DOMAIN executors'[k].queue :
                       m < n => executors'[k].queue[m].block < executors'[k].queue[n].block
                 /\ \A blk \in Blocks :
                       /\ StartedMsg(k, blk) \in posted' => blk < executors'[k].queue[n].block
                       /\ Adding(k, blk)' => executors'[k].queue[n].block < blk
      <4>1. CASE n = Len(q) + 1
        <5>1. executors'[k].queue[n].id = k /\ executors'[k].queue[n].block = b
          BY <3>3, <4>1
        <5>2. \A m \in DOMAIN executors'[k].queue : m < n => executors'[k].queue[m].block < b
          BY <3>3, <3>5, <4>1
        <5>3. \A blk \in Blocks : /\ StartedMsg(k, blk) \in posted' => blk < b
                                  /\ Adding(k, blk)' => b < blk
          BY <1>2, <1>3, <1>11, <3>5 DEF Blocks
        <5> QED  BY <5>1, <5>2, <5>3
      <4>2. CASE n \in 1..Len(q)
        <5>1. executors'[k].queue[n].id = k /\ executors'[k].queue[n].block = q[n].block
          BY <3>3, <3>5, <4>2
        <5>2. \A m \in DOMAIN executors'[k].queue : m < n => executors'[k].queue[m].block < q[n].block
          <6>1. \A m \in DOMAIN executors'[k].queue : m < n => m \in 1..Len(q)
            BY <3>3, <4>2
          <6> QED  BY <2>1, <3>1, <3>3, <4>2, <6>1 DEF BlocksOK
        <5>3. \A blk \in Blocks : StartedMsg(k, blk) \in posted' => blk < q[n].block
          BY <1>2, <2>1, <3>1, <3>3, <4>2 DEF BlocksOK
        <5>4. \A blk \in Blocks : Adding(k, blk)' => q[n].block < blk
          BY <1>3, <1>11, <3>5, <4>2 DEF Blocks
        <5> QED  BY <5>1, <5>2, <5>3, <5>4
      <4> QED  BY <3>3, <4>1, <4>2
    <3>8. \A blk, next \in Blocks : StartedMsg(k, blk) \in posted' /\ Adding(k, next)' => blk < next
      BY <1>2, <1>3, <1>11, <3>5 DEF Blocks
    <3> QED  BY <1>2, <2>1, <3>1, <3>2, <3>6, <3>7, <3>8 DEF BlocksOK
  <2>3. CASE ~(Accepts /\ k = threads)
    <3>1. executors'[k] = executors[k]
      BY <1>1, <2>3, BecomesOne DEF JavaInv
    <3>2. \A blk \in Blocks : Adding(k, blk)' => \E c \in Blocks : c <= blk /\ Adding(k, c)
      BY <1>3, <1>11 DEF Blocks
    <3>3. Started(k) => executors[k] \in ExecutorState
      BY ExecutorHas DEF JavaInv
    <3> QED  BY <1>2, <2>1, <3>1, <3>2, <3>3, LaterBlocks
  <2> QED  BY <2>2, <2>3
<1> QED  BY <1>2, <1>3, <1>8, <1>9, <1>10, <1>12, OneSound DEF SessionOK

-----------------------------------------------------------------------------
(* The threads.                                                            *)

\* An executor that has something to do has not ended its calculation.
LEMMA Works ==
  ASSUME JavaInv, SoundOK, NEW id \in Ids, Started(id), ~Quiet(id)
  PROVE  /\ executors[id] \in ExecutorState /\ WithinBounds(executors[id])
         /\ ~Ended(id) /\ BlocksOK(id)
         /\ \E s \in Sessions : session[s] # "new" /\ SessionOK(s)
<1>1. executors[id] \in ExecutorState /\ WithinBounds(executors[id])
  BY ExecutorHas DEF JavaInv
<1>2. executors[id].session \in Sessions
  BY <1>1 DEF ExecutorState
<1>3. session[executors[id].session] # "new"
  BY <1>2 DEF JavaInv, NewOK
<1>4. SessionOK(executors[id].session)
  BY <1>2, <1>3 DEF SoundOK
<1>5. ~Ended(id)
  BY <1>4 DEF SessionOK, EndsOK
<1> QED  BY <1>1, <1>2, <1>3, <1>4, <1>5 DEF SoundOK

\* What a thread does leaves all but its executor and what was sent as it is.
LEMMA OneThread ==
  ASSUME JavaInv, SoundOK, OneSession', NEW id \in Ids, Started(id), NEW e, Becomes(id, e),
         UNCHANGED <<clientVars, toServer, session, statics, handler>>,
         posted \subseteq posted',
         \A msg \in posted' \ posted : msg.id = id,
         ~Quiet(id),
         Ended(id)' => Quiet(id)' /\ \A blk \in Blocks : ~Adding(id, blk),
         \A s \in Sessions : \A n \in DOMAIN toClient'[s] :
            \/ n \in DOMAIN toClient[s] /\ toClient'[s][n] = toClient[s][n]
            \/ toClient'[s][n] \in posted' /\ toClient'[s][n].op \in EndOps,
         BlocksOK(id)'
  PROVE  SoundOK'
<1> USE DEF clientVars, statics
<1>1. /\ executors'[id] = e /\ \A k \in Ids : k # id => executors'[k] = executors[k]
      /\ \A k \in Ids : Started(k)' <=> Started(k)
  BY BecomesOne DEF JavaInv
<1>2. ~Ended(id) /\ \E s \in Sessions : session[s] # "new" /\ SessionOK(s)
  BY Works
<1>3. PICK s \in Sessions : session[s] # "new" /\ SessionOK(s)
  BY <1>2
<1>4. LastStarted(s)' = LastStarted(s) /\ (Waits(s)' <=> Waits(s))
  BY DEF LastStarted, Waits
<1>5. \A k \in Ids : (Ended(k) => Ended(k)') /\ (k # id => (Ended(k)' <=> Ended(k)))
  <2>1. \A op, k : EndMsg(op, k).id = k
    BY DEF EndMsg
  <2>2. \A k \in Ids : \A op : k # id => (EndMsg(op, k) \in posted' <=> EndMsg(op, k) \in posted)
    BY <2>1
  <2> QED  BY <2>2 DEF Ended
<1>6. RequestsOK(s)'
  BY <1>1, <1>3, <1>4 DEF SessionOK, RequestsOK
<1>7. HandlerOK(s)'
  <2>1. ASSUME handler[s].at = "start", handler[s].id = id  PROVE ~Ended(id)'
    <3>1. handler[s].block \in Blocks /\ Adding(id, handler[s].block)
      BY <2>1, HandlerHas, JavaHasBase DEF Adding
    <3> QED  BY <3>1
  <2>2. handler[s].at = "start" => ~Ended(handler[s].id)'
    <3>1. CASE handler[s].at = "start" /\ handler[s].id # id
      <4>1. handler[s].id \in Ids
        BY <3>1, HandlerHas, JavaHasBase
      <4> QED  BY <1>3, <1>5, <3>1, <4>1 DEF SessionOK, HandlerOK
    <3> QED  BY <2>1, <3>1
  <2> QED  BY <1>3, <1>4, <2>2 DEF SessionOK, HandlerOK, Ended
<1>8. EndsOK(s)'
  <2>1. \A k \in Ids : Ended(k)' => Started(k)' /\ Quiet(k)'
    <3>1. \A k \in Ids : k # id => (Quiet(k)' <=> Quiet(k))
      BY <1>1 DEF Quiet
    <3> QED  BY <1>1, <1>3, <1>5, <3>1 DEF SessionOK, EndsOK
  <2>2. \A n \in DOMAIN toClient'[s] : toClient'[s][n] \in posted' /\ toClient'[s][n].op \in EndOps
    BY <1>3 DEF SessionOK, EndsOK
  <2> QED  BY <1>3, <1>5, <2>1, <2>2 DEF SessionOK, EndsOK
<1>9. ASSUME NEW k \in Ids, k # id  PROVE BlocksOK(k)'
  <2>1. \A msg \in posted' : msg.id = k => msg \in posted
    BY <1>9
  <2>2. \A blk : Adding(k, blk)' => Adding(k, blk)
    BY DEF Adding
  <2> QED  BY <1>1, <1>9, <2>1, <2>2, SameBlocks DEF SoundOK
<1> QED  BY <1>3, <1>6, <1>7, <1>8, <1>9, OneSound DEF SessionOK

LEMMA OneTaskBegins ==
  ASSUME JavaInv, SoundOK, OneSession', NEW id \in Ids, Started(id), TaskBegins(id)
  PROVE  SoundOK'
<1> DEFINE ex == executors[id]
           task == Head(ex.queue)
           e == [ex EXCEPT !.queue = Tail(@), !.tasks = IF Sends(ex) THEN @ \cup {task} ELSE @]
           msg == BlockMsg("BLOCK_STARTED", task)
<1>1. ex.queue \in Seq(Task) /\ ex.queue # <<>> /\ Becomes(id, e)
  BY TaskBeginsBase, JavaHasBase
<1>2. /\ UNCHANGED <<clientVars, toServer, toClient, session, statics, handler>>
      /\ posted' = IF Sends(ex) THEN posted \cup {msg} ELSE posted
  BY DEF TaskBegins
<1>3. ~Quiet(id)
  BY <1>1 DEF Quiet
<1>4. ex \in ExecutorState /\ ~Ended(id) /\ BlocksOK(id)
  BY <1>3, Works
<1>5. /\ executors'[id].queue = Tail(ex.queue)
      /\ executors'[id].tasks = IF Sends(ex) THEN ex.tasks \cup {task} ELSE ex.tasks
      /\ executors'[id].left = ex.left /\ executors'[id].counting = ex.counting
      /\ Started(id)'
  <2>1. executors'[id] = e /\ Started(id)'
    BY <1>1, BecomesOne DEF JavaInv
  <2> QED  BY <1>4, <2>1 DEF ExecutorState
<1>6. /\ task \in Task /\ task = ex.queue[1] /\ 1 \in DOMAIN ex.queue
      /\ DOMAIN ex.queue = 1..Len(ex.queue) /\ Len(ex.queue) \in Nat
      /\ \A n \in DOMAIN Tail(ex.queue) :
            n + 1 \in DOMAIN ex.queue /\ Tail(ex.queue)[n] = ex.queue[n + 1] /\ n \in Nat \ {0}
  <2>1. DOMAIN Tail(ex.queue) = 1..Len(ex.queue) - 1 /\ Len(ex.queue) \in Nat
    BY <1>1, TailOne
  <2> QED  BY <1>1, <2>1, TailOne
<1>7. task.id = id /\ task.block \in Blocks
  BY <1>4, <1>6 DEF BlocksOK, Task
<1>8. msg = StartedMsg(id, task.block) /\ msg.id = id
  BY <1>7 DEF BlockMsg, StartedMsg
<1>9. /\ \A blk : StartedMsg(id, blk) \in posted' => StartedMsg(id, blk) \in posted \/ blk = task.block
      /\ \A blk : CompletedMsg(id, blk) \in posted' <=> CompletedMsg(id, blk) \in posted
      /\ \A op \in EndOps : EndMsg(op, id) \in posted' <=> EndMsg(op, id) \in posted
  <2>1. \A blk : StartedMsg(id, blk) = msg => blk = task.block
    BY <1>8 DEF StartedMsg
  <2>2. \A blk : CompletedMsg(id, blk) # msg
    BY <1>8 DEF StartedMsg, CompletedMsg
  <2>3. \A op \in EndOps : EndMsg(op, id) # msg
    BY <1>8 DEF StartedMsg, EndMsg, EndOps
  <2> QED  BY <1>2, <2>1, <2>2, <2>3
<1>10. \A blk : Adding(id, blk)' <=> Adding(id, blk)
  BY <1>2 DEF Adding
<1>11. ~Ended(id)'
  BY <1>4, <1>9 DEF Ended
<1>12. BlocksOK(id)'
  <2>1. ASSUME NEW n \in DOMAIN executors'[id].queue
        PROVE  /\ executors'[id].queue[n].id = id
               /\ \A m \in DOMAIN executors'[id].queue :
                     m < n => executors'[id].queue[m].block < executors'[id].queue[n].block
               /\ \A blk \in Blocks :
                     /\ StartedMsg(id, blk) \in posted' => blk < executors'[id].queue[n].block
                     /\ Adding(id, blk)' => executors'[id].queue[n].block < blk
    <3>1. n + 1 \in DOMAIN ex.queue /\ executors'[id].queue[n] = ex.queue[n + 1] /\ n \in Nat \ {0}
      BY <1>5, <1>6
    <3>2. \A m \in DOMAIN ex.queue : m < n + 1 => ex.queue[m].block < ex.queue[n + 1].block
      BY <1>4, <3>1 DEF BlocksOK
    <3>3. task.block < ex.queue[n + 1].block
      BY <1>6, <3>1, <3>2
    <3>4. ASSUME NEW m \in DOMAIN executors'[id].queue, m < n
          PROVE  executors'[id].queue[m].block < executors'[id].queue[n].block
      <4>1. m + 1 \in DOMAIN ex.queue /\ executors'[id].queue[m] = ex.queue[m + 1] /\ m \in Nat
        BY <1>5, <1>6
      <4>2. m + 1 < n + 1
        BY <3>1, <3>4, <4>1
      <4> QED  BY <3>1, <3>2, <4>1, <4>2
    <3>5. ex.queue[n + 1].id = id /\ \A blk \in Blocks :
             /\ StartedMsg(id, blk) \in posted => blk < ex.queue[n + 1].block
             /\ Adding(id, blk) => ex.queue[n + 1].block < blk
      BY <1>4, <3>1 DEF BlocksOK
    <3> QED  BY <1>9, <1>10, <3>1, <3>3, <3>4, <3>5
  <2>2. CompletedMsg(id, task.block) \notin posted
    <3>1. StartedMsg(id, task.block) \notin posted
      BY <1>4, <1>6, <1>7 DEF BlocksOK, Blocks
    <3> QED  BY <1>4, <1>7, <3>1 DEF BlocksOK
  <2>3. \A t \in executors'[id].tasks :
           /\ t.id = id /\ StartedMsg(id, t.block) \in posted'
           /\ CompletedMsg(id, t.block) \notin posted'
    BY <1>2, <1>4, <1>5, <1>7, <1>8, <1>9, <2>2 DEF BlocksOK
  <2>4. ASSUME NEW blk \in Blocks
        PROVE  /\ \A next \in Blocks : StartedMsg(id, blk) \in posted' /\ Adding(id, next)' => blk < next
               /\ CompletedMsg(id, blk) \in posted' => StartedMsg(id, blk) \in posted'
               /\ EndMsg("COMPLETED", id) \in posted' => CompletedMsg(id, blk) \in posted'
    <3>1. \A next \in Blocks : Adding(id, next) => task.block < next
      BY <1>4, <1>6 DEF BlocksOK
    <3>2. \A next \in Blocks : StartedMsg(id, blk) \in posted /\ Adding(id, next) => blk < next
      BY <1>4 DEF BlocksOK
    <3>3. EndMsg("COMPLETED", id) \notin posted'
      BY <1>11 DEF Ended, EndOps
    <3> QED  BY <1>2, <1>4, <1>9, <1>10, <3>1, <3>2, <3>3 DEF BlocksOK
  <2>5. CompletedBlocks(id)' = CompletedBlocks(id)
    BY <1>9 DEF CompletedBlocks
  <2> QED  BY <1>4, <1>5, <2>1, <2>3, <2>4, <2>5 DEF BlocksOK
<1> HIDE DEF e, msg
<1> QED  BY <1>1, <1>2, <1>3, <1>8, <1>11, <1>12, OneThread

LEMMA OneTaskEnds ==
  ASSUME JavaInv, SoundOK, OneSession', NEW id \in Ids, Started(id), NEW task \in Task,
         TaskFails(id, task) \/ TaskCompletes(id, task)
  PROVE  SoundOK'
<1> DEFINE ex == executors[id]
           e == [ex EXCEPT !.tasks = @ \ {task},
                           !.counting = IF TaskCompletes(id, task) THEN @ + 1 ELSE @]
           msg == BlockMsg("BLOCK_COMPLETED", task)
<1>1. task \in ex.tasks /\ Becomes(id, e)
  BY TaskEndsBase, JavaHasBase
<1>2. /\ UNCHANGED <<clientVars, toServer, toClient, session, statics, handler>>
      /\ TaskCompletes(id, task) => posted' = posted \cup {msg}
      /\ ~TaskCompletes(id, task) => posted' = posted
  BY DEF TaskFails, TaskCompletes
<1>3. ~Quiet(id)
  BY <1>1 DEF Quiet
<1>4. ex \in ExecutorState /\ ~Ended(id) /\ BlocksOK(id)
  BY <1>3, Works
<1>5. /\ executors'[id].queue = ex.queue /\ executors'[id].tasks = ex.tasks \ {task}
      /\ executors'[id].left = ex.left /\ Started(id)'
      /\ executors'[id].counting = IF TaskCompletes(id, task) THEN ex.counting + 1 ELSE ex.counting
  <2>1. executors'[id] = e /\ Started(id)'
    BY <1>1, BecomesOne DEF JavaInv
  <2> QED  BY <1>4, <2>1 DEF ExecutorState
<1>6. /\ task.id = id /\ task.block \in Blocks /\ StartedMsg(id, task.block) \in posted
      /\ CompletedMsg(id, task.block) \notin posted
  BY <1>1, <1>4 DEF BlocksOK, Task
<1>7. msg = CompletedMsg(id, task.block) /\ msg.id = id
  BY <1>6 DEF BlockMsg, CompletedMsg
<1>8. /\ \A blk : StartedMsg(id, blk) \in posted' <=> StartedMsg(id, blk) \in posted
      /\ \A blk : CompletedMsg(id, blk) \in posted' => CompletedMsg(id, blk) \in posted \/ blk = task.block
      /\ \A op \in EndOps : EndMsg(op, id) \in posted' <=> EndMsg(op, id) \in posted
      /\ posted \subseteq posted'
  <2>1. \A blk : CompletedMsg(id, blk) = msg => blk = task.block
    BY <1>7 DEF CompletedMsg
  <2>2. \A blk : StartedMsg(id, blk) # msg
    BY <1>7 DEF StartedMsg, CompletedMsg
  <2>3. \A op \in EndOps : EndMsg(op, id) # msg
    BY <1>7 DEF CompletedMsg, EndMsg, EndOps
  <2> QED  BY <1>2, <2>1, <2>2, <2>3
<1>9. \A blk : Adding(id, blk)' <=> Adding(id, blk)
  BY <1>2 DEF Adding
<1>10. ~Ended(id)'
  BY <1>4, <1>8 DEF Ended
<1>11. Cardinality(CompletedBlocks(id)') = NumBlocks - ex.left + executors'[id].counting
  <2>1. /\ Cardinality(CompletedBlocks(id)) = NumBlocks - ex.left + ex.counting
        /\ ex.left \in Int /\ ex.counting \in Nat
    BY <1>3, <1>4 DEF BlocksOK, ExecutorState
  <2>2. CASE TaskCompletes(id, task)
    <3>1. IsFiniteSet(CompletedBlocks(id))
      <4>1. IsFiniteSet(Blocks) /\ CompletedBlocks(id) \subseteq Blocks
        BY FS_Interval, JavaDispatcherAssumption DEF Blocks, CompletedBlocks
      <4> QED  BY <4>1, FS_Subset
    <3>2. task.block \notin CompletedBlocks(id)
      BY <1>6 DEF CompletedBlocks
    <3>3. CompletedBlocks(id)' = CompletedBlocks(id) \cup {task.block}
      BY <1>2, <1>6, <1>7, <1>8, <2>2 DEF CompletedBlocks
    <3>4. Cardinality(CompletedBlocks(id) \cup {task.block}) = Cardinality(CompletedBlocks(id)) + 1
      BY <3>1, <3>2, AddOne
    <3> QED  BY <1>5, <2>1, <2>2, <3>3, <3>4, JavaDispatcherAssumption
  <2>3. CASE ~TaskCompletes(id, task)
    <3>1. CompletedBlocks(id)' = CompletedBlocks(id)
      BY <1>2, <2>3 DEF CompletedBlocks
    <3> QED  BY <1>5, <2>1, <2>3, <3>1
  <2> QED  BY <2>2, <2>3
<1>12. BlocksOK(id)'
  <2>1. ASSUME NEW t \in executors'[id].tasks
        PROVE  /\ t.id = id /\ StartedMsg(id, t.block) \in posted'
               /\ CompletedMsg(id, t.block) \notin posted'
    <3>1. t \in ex.tasks /\ t # task /\ t \in Task
      BY <1>4, <1>5 DEF ExecutorState
    <3>2. t.id = id /\ StartedMsg(id, t.block) \in posted /\ CompletedMsg(id, t.block) \notin posted
      BY <1>4, <3>1 DEF BlocksOK
    <3>3. t.block # task.block
      BY <1>6, <3>1, <3>2 DEF Task
    <3> QED  BY <1>8, <3>2, <3>3
  <2>2. ASSUME NEW blk \in Blocks
        PROVE  /\ \A next \in Blocks : StartedMsg(id, blk) \in posted' /\ Adding(id, next)' => blk < next
               /\ CompletedMsg(id, blk) \in posted' => StartedMsg(id, blk) \in posted'
               /\ EndMsg("COMPLETED", id) \in posted' => CompletedMsg(id, blk) \in posted'
    <3>1. EndMsg("COMPLETED", id) \notin posted'
      BY <1>10 DEF Ended, EndOps
    <3> QED  BY <1>4, <1>6, <1>8, <1>9, <3>1 DEF BlocksOK
  <2>3. \A n \in DOMAIN ex.queue :
           /\ ex.queue[n].id = id
           /\ \A m \in DOMAIN ex.queue : m < n => ex.queue[m].block < ex.queue[n].block
           /\ \A blk \in Blocks : /\ StartedMsg(id, blk) \in posted' => blk < ex.queue[n].block
                                  /\ Adding(id, blk)' => ex.queue[n].block < blk
    BY <1>4, <1>8, <1>9 DEF BlocksOK
  <2> QED  BY <1>5, <1>11, <2>1, <2>2, <2>3 DEF BlocksOK
<1> HIDE DEF e, msg
<1> QED  BY <1>1, <1>2, <1>3, <1>7, <1>10, <1>12, OneThread

\* The last block is counted when all were sent and no thread has another.
LEMMA OneAfterExecute ==
  ASSUME JavaInv, SoundOK, OneSession', NEW id \in Ids, Started(id), AfterExecute(id)
  PROVE  SoundOK'
<1> DEFINE ex == executors[id]
           e == [ex EXCEPT !.counting = @ - 1, !.left = @ - 1,
                           !.state = IF Completes(id) /\ @ = "running" THEN "shutdown" ELSE @]
           msg == EndMsg("COMPLETED", id)
<1>1. /\ ex.counting > 0 /\ Becomes(id, e)
      /\ posted' = posted \cup (IF Completes(id) THEN {msg} ELSE {})
      /\ \A s \in Sessions :
            \/ toClient'[s] = toClient[s]
            \/ Completes(id) /\ toClient'[s] = Append(toClient[s], msg)
  BY AfterExecuteBase, JavaHasBase
<1>2. UNCHANGED <<clientVars, toServer, session, statics, handler>>
  BY DEF AfterExecute
<1>3. ~Quiet(id)
  BY <1>1 DEF Quiet
<1>4. ex \in ExecutorState /\ ~Ended(id) /\ BlocksOK(id)
  BY <1>3, Works
<1>5. /\ executors'[id].queue = ex.queue /\ executors'[id].tasks = ex.tasks
      /\ executors'[id].left = ex.left - 1 /\ executors'[id].counting = ex.counting - 1
      /\ Started(id)'
  <2>1. executors'[id] = e /\ Started(id)'
    BY <1>1, BecomesOne DEF JavaInv
  <2> QED  BY <1>4, <2>1 DEF ExecutorState
<1>6. /\ Cardinality(CompletedBlocks(id)) = NumBlocks - ex.left + ex.counting
      /\ ex.left \in Int /\ ex.counting \in Nat
  BY <1>4 DEF BlocksOK, ExecutorState
<1>7. \A blk : /\ StartedMsg(id, blk) \in posted' <=> StartedMsg(id, blk) \in posted
               /\ CompletedMsg(id, blk) \in posted' <=> CompletedMsg(id, blk) \in posted
  BY <1>1 DEF StartedMsg, CompletedMsg, EndMsg
<1>8. \A blk : Adding(id, blk)' <=> Adding(id, blk)
  BY <1>2 DEF Adding
<1>9. msg.id = id /\ msg.op \in EndOps
  BY DEF EndMsg, EndOps
<1>10. ASSUME Completes(id)
       PROVE  /\ \A blk \in Blocks : CompletedMsg(id, blk) \in posted
              /\ ex.counting = 1
  <2>1. ex.left = 1
    BY <1>6, <1>10 DEF Completes, IsLast
  <2>2. IsFiniteSet(Blocks) /\ Cardinality(Blocks) = NumBlocks
    <3>1. IsFiniteSet(Blocks) /\ Cardinality(Blocks) = NumBlocks - 1 + 1
      BY FS_Interval, JavaDispatcherAssumption DEF Blocks
    <3> QED  BY <3>1, JavaDispatcherAssumption
  <2>3. CompletedBlocks(id) \subseteq Blocks
    BY DEF CompletedBlocks
  <2>4. Cardinality(CompletedBlocks(id)) <= Cardinality(Blocks)
        /\ (CompletedBlocks(id) # Blocks => Cardinality(CompletedBlocks(id)) < Cardinality(Blocks))
    <3>1. /\ Cardinality(CompletedBlocks(id)) <= Cardinality(Blocks)
          /\ Cardinality(CompletedBlocks(id)) = Cardinality(Blocks) => CompletedBlocks(id) = Blocks
          /\ Cardinality(CompletedBlocks(id)) \in Nat
      BY <2>2, <2>3, FS_Subset, FS_CardinalityType
    <3> QED  BY <2>2, <3>1, JavaDispatcherAssumption
  <2>5. CompletedBlocks(id) = Blocks /\ ex.counting = 1
    BY <1>1, <1>6, <2>1, <2>2, <2>4, JavaDispatcherAssumption
  <2> QED  BY <2>5 DEF CompletedBlocks
<1>11. ASSUME Completes(id)
       PROVE  Quiet(id)' /\ \A blk \in Blocks : ~Adding(id, blk)
  <2>1. \A blk \in Blocks : CompletedMsg(id, blk) \in posted /\ StartedMsg(id, blk) \in posted
    BY <1>4, <1>10, <1>11 DEF BlocksOK
  <2>2. ex.queue \in Seq(Task) /\ ex.tasks \subseteq Task
    BY <1>4 DEF ExecutorState
  <2>3. ex.queue = <<>>
    <3>1. ASSUME ex.queue # <<>>  PROVE FALSE
      <4>1. 1 \in DOMAIN ex.queue /\ ex.queue[1] \in Task
        BY <2>2, <3>1
      <4>2. ex.queue[1].block \in Blocks
        BY <4>1 DEF Task
      <4>3. StartedMsg(id, ex.queue[1].block) \in posted
        BY <2>1, <4>2
      <4>4. ex.queue[1].block < ex.queue[1].block
        BY <1>4, <4>1, <4>2, <4>3 DEF BlocksOK
      <4> QED  BY <4>2, <4>4 DEF Blocks
    <3> QED  BY <3>1
  <2>4. ex.tasks = {}
    BY <1>4, <2>1, <2>2 DEF BlocksOK, Task
  <2>5. \A blk \in Blocks : ~Adding(id, blk)
    BY <1>4, <2>1 DEF BlocksOK, Blocks
  <2> QED  BY <1>5, <1>10, <1>11, <2>3, <2>4, <2>5 DEF Quiet
<1>12. Ended(id)' => Completes(id)
  BY <1>1, <1>4 DEF Ended
<1>13. BlocksOK(id)'
  <2>1. CompletedBlocks(id)' = CompletedBlocks(id)
    BY <1>7 DEF CompletedBlocks
  <2>2. Cardinality(CompletedBlocks(id)') = NumBlocks - executors'[id].left + executors'[id].counting
    BY <1>5, <1>6, <2>1, JavaDispatcherAssumption
  <2>3. ASSUME NEW blk \in Blocks
        PROVE  /\ \A next \in Blocks : StartedMsg(id, blk) \in posted' /\ Adding(id, next)' => blk < next
               /\ CompletedMsg(id, blk) \in posted' => StartedMsg(id, blk) \in posted'
               /\ EndMsg("COMPLETED", id) \in posted' => CompletedMsg(id, blk) \in posted'
    <3>1. EndMsg("COMPLETED", id) \in posted' => Ended(id)'
      BY DEF Ended, EndOps
    <3> QED  BY <1>4, <1>7, <1>8, <1>10, <1>12, <3>1 DEF BlocksOK
  <2>4. \A n \in DOMAIN ex.queue :
           /\ ex.queue[n].id = id
           /\ \A m \in DOMAIN ex.queue : m < n => ex.queue[m].block < ex.queue[n].block
           /\ \A blk \in Blocks : /\ StartedMsg(id, blk) \in posted' => blk < ex.queue[n].block
                                  /\ Adding(id, blk)' => ex.queue[n].block < blk
    BY <1>4, <1>7, <1>8 DEF BlocksOK
  <2>5. \A t \in ex.tasks : /\ t.id = id /\ StartedMsg(id, t.block) \in posted'
                            /\ CompletedMsg(id, t.block) \notin posted'
    BY <1>4, <1>7 DEF BlocksOK
  <2> QED  BY <1>5, <2>2, <2>3, <2>4, <2>5 DEF BlocksOK
<1>14. ASSUME NEW s \in Sessions, NEW n \in DOMAIN toClient'[s]
       PROVE  \/ n \in DOMAIN toClient[s] /\ toClient'[s][n] = toClient[s][n]
              \/ toClient'[s][n] \in posted' /\ toClient'[s][n].op \in EndOps
  <2>1. CASE toClient'[s] = toClient[s]
    BY <1>14, <2>1
  <2>2. CASE Completes(id) /\ toClient'[s] = Append(toClient[s], msg)
    <3>1. toClient[s] \in Seq(Answer) /\ msg \in Answer
      BY DEF JavaInv, TypeOK, Answer, EndMsg
    <3>2. msg \in posted'
      BY <1>1, <2>2
    <3> HIDE DEF msg
    <3>3. /\ DOMAIN toClient'[s] = 1..Len(toClient[s]) + 1 /\ DOMAIN toClient[s] = 1..Len(toClient[s])
          /\ Len(toClient[s]) \in Nat
          /\ \A m \in 1..Len(toClient[s]) : toClient'[s][m] = toClient[s][m]
          /\ toClient'[s][Len(toClient[s]) + 1] = msg
      BY <2>2, <3>1, AppendOne
    <3>4. n \in 1..Len(toClient[s]) \/ n = Len(toClient[s]) + 1
      BY <1>14, <3>3
    <3> QED  BY <1>9, <3>2, <3>3, <3>4
  <2> QED  BY <1>1, <2>1, <2>2
<1>15. posted \subseteq posted' /\ \A m \in posted' \ posted : m.id = id
  BY <1>1, <1>9
<1> HIDE DEF e, msg
<1> QED  BY <1>1, <1>2, <1>3, <1>11, <1>12, <1>13, <1>14, <1>15, OneThread

-----------------------------------------------------------------------------
\* A session that was opened stays opened or is closed.
LEMMA OpenedStay ==
  ASSUME BaseInv, [Next]_vars, NEW s \in Sessions, session'[s] = "new"
  PROVE  session[s] = "new"
<1>1. session \in [Sessions -> {"new", "open", "closing", "closed"}]
  BY DEF BaseInv, TypeOK
<1>2. ASSUME NEW t \in Sessions, OnOpen(t) \/ Handler(t) \/ Client(t)
      PROVE  session[s] = "new"
  <2>1. CASE OnOpen(t)
    BY <1>1, <2>1 DEF OnOpen
  <2>2. CASE Handler(t)
    BY <1>1, <2>2 DEF Handler, OnClose, OnStart, CalculateBlock, OnAbort, AwaitTermination, Aborted
  <2>3. CASE Client(t)
    BY <1>1, <2>3 DEF Client, ClientStart, ClientAbort, ClientReceive, ClientLeaves
  <2> QED  BY <1>2, <2>1, <2>2, <2>3
<1>3. ASSUME NEW id \in Ids, Executor(id)
      PROVE  session[s] = "new"
  BY <1>3 DEF Executor, TaskBegins, TaskFails, TaskCompletes, AfterExecute
<1>4. CASE UNCHANGED vars
  BY <1>4 DEF vars
<1> QED  BY <1>2, <1>3, <1>4 DEF Next

LEMMA JavaInit == Init => JavaInv
<1> SUFFICES ASSUME Init  PROVE JavaInv
  OBVIOUS
<1>1. TypeOK /\ UsesOK /\ NewOK
  BY BaseInit DEF BaseInv
<1>2. SoundOK
  BY DEF Init, SoundOK, BlocksOK, Started
<1> QED  BY <1>1, <1>2 DEF JavaInv, OneInv

LEMMA JavaStep == JavaInv /\ [Next]_vars => JavaInv'
<1> SUFFICES ASSUME JavaInv, [Next]_vars  PROVE JavaInv'
  OBVIOUS
<1>1. TypeOK' /\ UsesOK' /\ NewOK'
  BY BaseStep, JavaHasBase DEF BaseInv
<1>2. ASSUME OneSession'  PROVE SoundOK'
  <2>1. \A s \in Sessions : session'[s] = "new" => session[s] = "new"
    BY OpenedStay, JavaHasBase
  <2>2. SoundOK
    BY <1>2, <2>1, StillOne DEF JavaInv, OneInv
  <2>3. ASSUME NEW s \in Sessions, OnOpen(s)
        PROVE  SoundOK'
    BY <1>2, <2>2, <2>3, OneOnOpen
  <2>4. ASSUME NEW s \in Sessions, Handler(s)
        PROVE  SoundOK'
    BY <1>2, <2>2, <2>4, OneOnClose, OneOnStart, OneCalculateBlock, OneOnAbort,
       OneAwaitTermination, OneAborted DEF Handler
  <2>5. ASSUME NEW s \in Sessions, Client(s)
        PROVE  SoundOK'
    BY <1>2, <2>2, <2>5, OneClientStart, OneClientAbort, OneClientReceive, OneClientLeaves
       DEF Client
  <2>6. ASSUME NEW id \in Ids, Executor(id)
        PROVE  SoundOK'
    BY <1>2, <2>2, <2>6, OneTaskBegins, OneTaskEnds, OneAfterExecute DEF Executor, Started
  <2>7. CASE UNCHANGED vars
    <3> USE DEF vars, clientVars, statics
    <3>1. \A id \in Ids : (Ended(id)' <=> Ended(id)) /\ (Quiet(id)' <=> Quiet(id))
                          /\ (Started(id)' <=> Started(id))
      BY <2>7 DEF Ended, Quiet, Started
    <3>2. ASSUME NEW s \in Sessions, session'[s] # "new"  PROVE SessionOK(s)'
      <4>1. SessionOK(s)
        BY <2>2, <2>7, <3>2 DEF SoundOK
      <4>2. LastStarted(s)' = LastStarted(s) /\ (Waits(s)' <=> Waits(s))
        BY <2>7 DEF LastStarted, Waits
      <4>3. RequestsOK(s)' /\ EndsOK(s)'
        BY <2>7, <3>1, <4>1, <4>2 DEF SessionOK, RequestsOK, EndsOK
      <4>4. HandlerOK(s)'
        BY <2>7, <4>1, <4>2 DEF SessionOK, HandlerOK, Ended
      <4> QED  BY <4>3, <4>4 DEF SessionOK
    <3>3. \A id \in Ids : BlocksOK(id)'
      BY <2>2, <2>7, SameBlocks DEF SoundOK, Adding
    <3> QED  BY <3>2, <3>3 DEF SoundOK
  <2> QED  BY <2>3, <2>4, <2>5, <2>6, <2>7 DEF Next
<1> QED  BY <1>1, <1>2 DEF JavaInv, OneInv

LEMMA JavaInvariant == Spec => []JavaInv
BY JavaInit, JavaStep, PTL DEF Spec

\* In one session COMPLETED is sent when every block was, whichever thread counts
\* the last, and start() never replaces an executor that has anything left to do.
THEOREM JavaAnswersSound == Spec => []AnswersAreSound
<1>1. JavaInv => AnswersAreSound
  <2> SUFFICES ASSUME JavaInv, OneSession
               PROVE  AnswersAreSound
    BY DEF AnswersAreSound, CompletedIsComplete, StartFindsNoTasks
  <2>1. SoundOK
    BY DEF JavaInv, OneInv
  <2>2. CompletedIsComplete
    <3> SUFFICES ASSUME NEW id \in Ids, EndMsg("COMPLETED", id) \in posted,
                        NEW blk \in Blocks, NEW op \in {"BLOCK_STARTED", "BLOCK_COMPLETED"}
                 PROVE  BlockMsg(op, [id |-> id, block |-> blk]) \in posted
      BY DEF CompletedIsComplete
    <3>1. BlocksOK(id) /\ Started(id)
      BY <2>1 DEF SoundOK, BlocksOK, EndMsg
    <3>2. CompletedMsg(id, blk) \in posted /\ StartedMsg(id, blk) \in posted
      BY <3>1 DEF BlocksOK
    <3> QED  BY <3>2 DEF StartedMsg, CompletedMsg, BlockMsg
  <2>3. StartFindsNoTasks
    <3> SUFFICES ASSUME NEW s \in Sessions, session[s] = "open", toServer[s] # <<>>,
                        Head(toServer[s]).op = "START", NEW id \in Ids, Started(id)
                 PROVE  Quiet(id)
      BY DEF StartFindsNoTasks, Started, Quiet
    <3>1. SessionOK(s)
      BY <2>1 DEF SoundOK
    <3>2. 1 \in DOMAIN toServer[s] /\ IsStart(toServer[s][1])
      BY TailOne DEF JavaInv, TypeOK, IsStart
    <3>3. id <= lastId - 1
      BY <3>1, <3>2 DEF SessionOK, RequestsOK, LastStarted, Waits
    <3>4. id < lastId
      BY <3>3, JavaDispatcherAssumption DEF JavaInv, TypeOK, Ids
    <3> QED  BY <3>1, <3>4 DEF SessionOK, EndsOK
  <2> QED  BY <2>2, <2>3 DEF AnswersAreSound
<1> QED  BY <1>1, JavaInvariant, PTL

\* In one session nothing of a calculation is sent after its ABORTED: the threads
\* of its executor have ended, and the handler adds no block to it any more.
THEOREM JavaNothingAfterAborted == Spec => NothingAfterAborted
<1>1. ASSUME JavaInv, [Next]_vars, OneSession, NEW id \in Ids, EndMsg("ABORTED", id) \in posted,
             NEW msg \in posted' \ posted
      PROVE  msg.id # id
  <2>1. SoundOK
    BY <1>1 DEF JavaInv, OneInv
  <2>2. \E s \in Sessions : session[s] # "new"
    BY <1>1 DEF JavaInv, NewOK
  <2>3. Quiet(id)
    BY <1>1, <2>1, <2>2 DEF SoundOK, SessionOK, EndsOK, Ended, EndOps
  <2>4. posted' # posted
    BY <1>1
  <2>5. ASSUME NEW s \in Sessions, OnOpen(s) \/ Client(s)
        PROVE  FALSE
    BY <2>4, <2>5 DEF OnOpen, Client, ClientStart, ClientAbort, ClientReceive, ClientLeaves, serverVars
  <2>6. ASSUME NEW s \in Sessions, Handler(s)
        PROVE  msg.id # id
    <3>1. Aborted(s)
      BY <2>4, <2>6 DEF Handler, OnClose, OnStart, CalculateBlock, OnAbort, AwaitTermination
    <3>2. msg = EndMsg("ABORTED", handler[s].id)
      BY <1>1, <3>1, AbortedBase, JavaHasBase
    <3> QED  BY <1>1, <3>2 DEF EndMsg
  <2>7. ASSUME NEW k \in Ids, Executor(k)
        PROVE  msg.id # id
    <3>1. Started(k) /\ BlocksOK(k)
      BY <2>1, <2>7 DEF Executor, Started, SoundOK
    <3>2. ASSUME TaskBegins(k)  PROVE msg.id = k /\ ~Quiet(k)
      <4>1. executors[k].queue \in Seq(Task) /\ executors[k].queue # <<>>
        BY <1>1, <3>1, <3>2, TaskBeginsBase, JavaHasBase
      <4>2. Head(executors[k].queue).id = k
        BY <3>1, <4>1, TailOne DEF BlocksOK
      <4>3. msg = BlockMsg("BLOCK_STARTED", Head(executors[k].queue))
        BY <1>1, <3>2 DEF TaskBegins
      <4> QED  BY <4>1, <4>2, <4>3 DEF BlockMsg, Quiet
    <3>3. ASSUME NEW task \in Task, TaskFails(k, task) \/ TaskCompletes(k, task)
          PROVE  msg.id = k /\ ~Quiet(k)
      <4>1. task \in executors[k].tasks
        BY <3>3 DEF TaskFails, TaskCompletes
      <4>2. msg = BlockMsg("BLOCK_COMPLETED", task)
        BY <1>1, <3>3 DEF TaskFails, TaskCompletes
      <4>3. task.id = k
        BY <3>1, <4>1 DEF BlocksOK
      <4> QED  BY <4>1, <4>2, <4>3 DEF BlockMsg, Quiet
    <3>4. ASSUME AfterExecute(k)  PROVE msg.id = k /\ ~Quiet(k)
      <4>1. msg = EndMsg("COMPLETED", k) /\ executors[k].counting > 0
        BY <1>1, <3>1, <3>4, AfterExecuteBase, JavaHasBase
      <4> QED  BY <4>1 DEF EndMsg, Quiet
    <3> QED  BY <2>3, <2>7, <3>2, <3>3, <3>4 DEF Executor
  <2>8. ~ UNCHANGED vars
    BY <2>4 DEF vars
  <2> QED  BY <1>1, <2>5, <2>6, <2>7, <2>8 DEF Next
<1>2. JavaInv /\ [Next]_vars =>
         [OneSession => \A id \in Ids : EndMsg("ABORTED", id) \in posted =>
             \A msg \in posted' \ posted : msg.id # id]_vars
  BY <1>1
<1> QED  BY <1>2, JavaInvariant, PTL DEF Spec, NothingAfterAborted
=============================================================================
