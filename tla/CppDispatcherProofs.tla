------------------------ MODULE CppDispatcherProofs ------------------------
(***************************************************************************)
(* Proofs about the C++ server: the types, which say that the count of     *)
(* blocks never wraps, and that what is sent is complete and in order.     *)
(***************************************************************************)
EXTENDS CppDispatcher, FiniteSetTheorems, TLAPS

-----------------------------------------------------------------------------
(* The inductive invariant: the protocol.                                  *)

IsStart(msg) == msg.op = "START"
HasStart(msgs) == \E n \in DOMAIN msgs : IsStart(msgs[n])
OneStart(msgs) == \A m, n \in DOMAIN msgs : IsStart(msgs[m]) /\ IsStart(msgs[n]) => m = n

\* A START has been sent and not yet handled.
Pending == HasStart(toServer) \/ HasStart(queue) \/ HasStart(handling)

Calculators == {i \in DOMAIN workers : workers[i].at = "calculating"}

\* No block is left of the last calculation, but for what waits to be sent.
Idle == blocks = <<>> /\ Calculators = {}

\* One START at most is pending, that of the last calculation.
StartsOK ==
    /\ OneStart(toServer) /\ OneStart(queue)
    /\ HasStart(toServer) => ~HasStart(queue) /\ ~HasStart(handling)
    /\ HasStart(queue) => ~HasStart(handling)
    /\ \A n \in DOMAIN toServer : IsStart(toServer[n]) => toServer[n].id = lastId
    /\ \A n \in DOMAIN queue : IsStart(queue[n]) => queue[n].id = lastId
    /\ \A n \in DOMAIN handling : IsStart(handling[n]) => handling[n].id = lastId

\* When it is handled nothing is under way of the calculation before: the client
\* has read its end.
RequestsOK ==
    /\ id <= lastId
    /\ Pending => Idle /\ id < lastId
    /\ client = "waiting" => Idle /\ ~Pending
    /\ client \in {"calculating", "aborting"} => lastId \in Ids
    /\ \A n \in DOMAIN answers : IsEnd(answers[n]) /\ answers[n].id = lastId => Idle

BlockOps == {"BLOCK_STARTED", "BLOCK_COMPLETED"}

\* Nothing is sent once the session ends, and blocks are ahead of the next START.
QueueOK ==
    /\ main = "receive" <=> socket = "open"
    /\ thread = "join" <=> handling # <<>>
    /\ handling # <<>> => blocks = <<>>
    /\ \A n, k \in DOMAIN queue : IsStart(queue[n]) /\ queue[k].op \in BlockOps => k < n
    /\ HasStart(handling) => \A k \in DOMAIN queue : queue[k].op \notin BlockOps

\* Nothing sent is of a calculation after i, nor of an earlier one than what is
\* before it.
Ordered(msgs, i) ==
    \A n \in DOMAIN msgs : msgs[n].id <= i /\ \A k \in 1..n : msgs[k].id <= msgs[n].id

\* All that is under way is of the calculation started last.
IdsOK ==
    /\ \A n \in DOMAIN queue : queue[n].op \in BlockOps => queue[n].id = id
    /\ \A n \in DOMAIN blocks : blocks[n].id = id
    /\ \A i \in Calculators : workers[i].block.id = id
    /\ Ordered(answers, id)

QueuedCompleted == {n \in DOMAIN queue : queue[n].op = "BLOCK_COMPLETED"}
Outstanding == Len(blocks) + Cardinality(Calculators) + Cardinality(QueuedCompleted)

\* The count is never less than what is outstanding, although blocks that were
\* aborted are not outstanding any more.
CountOK ==
    /\ Outstanding <= blockCount
    /\ id = 0 => blockCount = 0
    /\ id # 0 => blockCount <= NumBlocks[id]
    /\ main = "receive" /\ ~abort => blockCount = Outstanding

-----------------------------------------------------------------------------
(* And the blocks.                                                         *)

Msg(op, i, blk) == [op |-> op, id |-> i, block |-> blk]
Said(msgs, op, i, blk) == \E n \in DOMAIN msgs : msgs[n] = Msg(op, i, blk)
Reported(sent, queued, i, op, blk) == Said(sent, op, i, blk) \/ Said(queued, op, i, blk)

\* No block is sent twice, and all of them before COMPLETED, which is sent once.
Sound(msgs) ==
    /\ \A m, n \in DOMAIN msgs :
          msgs[n].op \in BlockOps \cup {"COMPLETED"} /\ msgs[m] = msgs[n] => m = n
    /\ \A n \in DOMAIN msgs : msgs[n].op = "COMPLETED" =>
          \A op \in BlockOps, blk \in Blocks(msgs[n].id) : Said(msgs, op, msgs[n].id, blk)

\* What is sent still reaches the client.
Live == main = "receive" /\ ~Broken

CompletedBlocks == {blk \in Blocks(id) : Said(answers, "BLOCK_COMPLETED", id, blk)}

\* The blocks are taken in order, each is with one worker, and is reported once as
\* started and then once as completed.
ReportsOK ==
    /\ \A n \in DOMAIN blocks :
          /\ \A m \in DOMAIN blocks : m < n => blocks[m].block < blocks[n].block
          /\ \A blk \in Blocks(id) :
                Reported(answers, queue, id, "BLOCK_STARTED", blk) => blk < blocks[n].block
    /\ \A i \in Calculators :
          /\ Reported(answers, queue, id, "BLOCK_STARTED", workers[i].block.block)
          /\ ~Reported(answers, queue, id, "BLOCK_COMPLETED", workers[i].block.block)
          /\ \A j \in Calculators : workers[j].block = workers[i].block => j = i
    /\ \A n \in DOMAIN queue : queue[n].op \in BlockOps =>
          /\ \A m \in DOMAIN queue : queue[m] = queue[n] => m = n
          /\ ~Said(answers, queue[n].op, id, queue[n].block)
    /\ \A n \in DOMAIN queue : queue[n].op = "BLOCK_COMPLETED" =>
          \/ Said(answers, "BLOCK_STARTED", id, queue[n].block)
          \/ \E m \in DOMAIN queue : m < n /\ queue[m] = Msg("BLOCK_STARTED", id, queue[n].block)
    /\ \A blk \in Blocks(id) :
          Said(answers, "BLOCK_COMPLETED", id, blk) => Said(answers, "BLOCK_STARTED", id, blk)
    /\ id # 0 => Cardinality(CompletedBlocks) = NumBlocks[id] - blockCount

CppInv ==
    /\ TypeOK
    /\ StartsOK /\ RequestsOK /\ QueueOK /\ IdsOK /\ CountOK
    /\ Sound(answers)      \* whatever happens to the session
    /\ Live /\ id # 0 => ReportsOK

-----------------------------------------------------------------------------
(* Sequences and sets.                                                     *)

LEMMA AppendOne ==
  ASSUME NEW S, NEW s \in Seq(S), NEW e \in S
  PROVE  /\ Append(s, e) \in Seq(S)
         /\ Len(Append(s, e)) = Len(s) + 1
         /\ DOMAIN Append(s, e) = 1 .. Len(s) + 1
         /\ DOMAIN s = 1 .. Len(s)
         /\ Len(s) \in Nat
         /\ \A n \in 1 .. Len(s) : Append(s, e)[n] = s[n]
         /\ Append(s, e)[Len(s) + 1] = e
OBVIOUS

LEMMA TailOne ==
  ASSUME NEW S, NEW s \in Seq(S), s # <<>>
  PROVE  /\ Tail(s) \in Seq(S)
         /\ Head(s) \in S /\ Head(s) = s[1] /\ 1 \in DOMAIN s
         /\ Len(s) \in Nat \ {0} /\ Len(Tail(s)) = Len(s) - 1
         /\ DOMAIN s = 1 .. Len(s) /\ DOMAIN Tail(s) = 1 .. Len(s) - 1
         /\ \A n \in DOMAIN Tail(s) : n + 1 \in DOMAIN s /\ Tail(s)[n] = s[n + 1]
OBVIOUS

LEMMA AddOne ==
  ASSUME NEW S, IsFiniteSet(S), NEW x, x \notin S
  PROVE  /\ IsFiniteSet(S \cup {x})
         /\ Cardinality(S) \in Nat
         /\ Cardinality(S \cup {x}) = Cardinality(S) + 1
BY FS_AddElement, FS_CardinalityType

LEMMA RemoveOne ==
  ASSUME NEW S, IsFiniteSet(S), NEW x \in S
  PROVE  /\ IsFiniteSet(S \ {x})
         /\ Cardinality(S) \in Nat /\ Cardinality(S \ {x}) \in Nat
         /\ Cardinality(S \ {x}) = Cardinality(S) - 1
<1>1. IsFiniteSet(S \ {x}) /\ Cardinality(S \ {x}) = Cardinality(S) - 1
  BY FS_RemoveElement
<1> QED  BY <1>1, FS_CardinalityType

\* The places of some of the elements of a sequence.
LEMMA PlacesFinite ==
  ASSUME NEW S, NEW s \in Seq(S), NEW P \in SUBSET (DOMAIN s)
  PROVE  IsFiniteSet(P) /\ Cardinality(P) \in Nat
<1>1. DOMAIN s = 1..Len(s) /\ Len(s) \in Nat
  OBVIOUS
<1>2. IsFiniteSet(1..Len(s))
  BY <1>1, FS_Interval
<1> QED  BY <1>1, <1>2, FS_Subset, FS_CardinalityType

\* The count wraps at 2^CountWidth; it does not if it is not zero.
LEMMA CountDown ==
  ASSUME NEW i \in Ids, NEW c \in Nat, 0 < c, c <= NumBlocks[i]
  PROVE  (c + 2^CountWidth - 1) % 2^CountWidth = c - 1
<1>1. 2^CountWidth \in Nat \ {0} /\ c < 2^CountWidth
  BY CppDispatcherAssumption DEF Ids
<1>2. \A M \in Nat \ {0} : c < M => (c + M - 1) % M = c - 1
  <2> SUFFICES ASSUME NEW M \in Nat \ {0}, c < M
               PROVE  (c + M - 1) % M = c - 1
    OBVIOUS
  <2>1. (c - 1) \in 0..M - 1 /\ c + M - 1 = M + (c - 1)
    OBVIOUS
  <2> QED  BY <2>1
<1> QED  BY <1>1, <1>2

-----------------------------------------------------------------------------
(* How the queue changes: messages move by d places.                       *)

QueueMsg == ClientMsg \cup Answer \cup {NoMessage}

Moves(d, ops) ==
    /\ \A n \in DOMAIN queue' : queue'[n].op \in ops =>
          n + d \in DOMAIN queue /\ queue'[n] = queue[n + d]
    /\ \A n \in DOMAIN queue : queue[n].op \in ops =>
          n - d \in DOMAIN queue' /\ queue'[n - d] = queue[n]

LEMMA MovesSame ==
  ASSUME TypeOK, queue' = queue, NEW ops
  PROVE  Moves(0, ops)
<1>1. DOMAIN queue \subseteq Nat
  BY DEF TypeOK
<1> QED  BY <1>1 DEF Moves

LEMMA MovesAppend ==
  ASSUME TypeOK, NEW msg \in QueueMsg, queue' = Append(queue, msg), NEW ops, msg.op \notin ops
  PROVE  Moves(0, ops)
<1>1. queue \in Seq(QueueMsg)
  BY DEF TypeOK, QueueMsg
<1>2. /\ DOMAIN queue' = 1..Len(queue) + 1 /\ DOMAIN queue = 1..Len(queue) /\ Len(queue) \in Nat
      /\ \A n \in 1..Len(queue) : queue'[n] = queue[n]
      /\ queue'[Len(queue) + 1] = msg
  BY <1>1, AppendOne
<1>3. ASSUME NEW n \in DOMAIN queue', queue'[n].op \in ops
      PROVE  n \in DOMAIN queue /\ queue'[n] = queue[n] /\ n + 0 = n
  BY <1>2, <1>3
<1>4. ASSUME NEW n \in DOMAIN queue
      PROVE  n \in DOMAIN queue' /\ queue'[n] = queue[n] /\ n - 0 = n
  BY <1>2
<1> QED  BY <1>3, <1>4 DEF Moves

LEMMA MovesTail ==
  ASSUME TypeOK, queue # <<>>, queue' = Tail(queue), NEW ops, Head(queue).op \notin ops
  PROVE  Moves(1, ops)
<1>1. queue \in Seq(QueueMsg)
  BY DEF TypeOK, QueueMsg
<1>2. /\ Head(queue) = queue[1] /\ Len(queue) \in Nat \ {0}
      /\ DOMAIN queue = 1 .. Len(queue) /\ DOMAIN queue' = 1 .. Len(queue) - 1
      /\ \A n \in DOMAIN queue' : n + 1 \in DOMAIN queue /\ queue'[n] = queue[n + 1]
  BY <1>1, TailOne
<1>3. ASSUME NEW n \in DOMAIN queue, queue[n].op \in ops
      PROVE  n - 1 \in DOMAIN queue' /\ queue'[n - 1] = queue[n]
  <2>1. n \in 2..Len(queue)
    BY <1>2, <1>3
  <2>2. n - 1 \in DOMAIN queue' /\ (n - 1) + 1 = n
    BY <1>2, <2>1
  <2> QED  BY <1>2, <2>2
<1> QED  BY <1>2, <1>3 DEF Moves

\* The blocks completed on the queue are as many as before.
LEMMA MovesCount ==
  ASSUME TypeOK, NEW d \in {0, 1}, NEW ops, "BLOCK_COMPLETED" \in ops, Moves(d, ops),
         queue' \in Seq(QueueMsg)
  PROVE  Cardinality(QueuedCompleted') = Cardinality(QueuedCompleted)
<1> DEFINE f == [n \in QueuedCompleted |-> n - d]
<1>1. queue \in Seq(QueueMsg) /\ DOMAIN queue \subseteq Nat
  BY DEF TypeOK, QueueMsg
<1>2. QueuedCompleted \in SUBSET (DOMAIN queue) /\ QueuedCompleted' \in SUBSET (DOMAIN queue')
  BY DEF QueuedCompleted
<1>3. IsFiniteSet(QueuedCompleted)
  BY <1>1, <1>2, PlacesFinite
<1>4. f \in [QueuedCompleted -> QueuedCompleted']
  BY DEF Moves, QueuedCompleted
<1>5. \A m, n \in QueuedCompleted : f[m] = f[n] => m = n
  BY <1>1, <1>2
<1>6. \A n \in QueuedCompleted' : \E m \in QueuedCompleted : f[m] = n
  <2> SUFFICES ASSUME NEW n \in QueuedCompleted'
               PROVE  n + d \in QueuedCompleted /\ f[n + d] = n
    OBVIOUS
  <2>1. n \in DOMAIN queue' /\ queue'[n].op = "BLOCK_COMPLETED" /\ n \in Nat
    BY DEF QueuedCompleted
  <2>2. n + d \in QueuedCompleted
    BY <2>1 DEF Moves, QueuedCompleted
  <2> QED  BY <2>1, <2>2
<1>7. f \in Bijection(QueuedCompleted, QueuedCompleted')
  BY <1>4, <1>5, <1>6 DEF Bijection, Injection, Surjection, IsInjective
<1> QED  BY <1>3, <1>7, FS_Bijection DEF ExistsBijection

-----------------------------------------------------------------------------
(* What does not touch blocks: their messages move on the queue, some are  *)
(* dropped, and ABORTED may be sent.                                       *)

LEMMA EndAnswer ==
  ASSUME NEW op \in {"COMPLETED", "ABORTED"}, NEW i \in {0} \cup Ids
  PROVE  EndMsg(op, i) \in Answer
<1>1. EndMsg(op, i) \in [op : {"COMPLETED", "ABORTED"}, id : {0} \cup Ids]
  BY DEF EndMsg
<1>2. \A S, T : T \subseteq S \cup T
  OBVIOUS
<1>3. [op : {"COMPLETED", "ABORTED"}, id : {0} \cup Ids] \subseteq Answer
  BY <1>2, Zenon DEF Answer
<1> QED  BY <1>1, <1>3, Zenon

LEMMA BlockAnswer ==
  ASSUME NEW op \in BlockOps, NEW blk \in Block
  PROVE  /\ BlockMsg(op, blk) \in Answer
         /\ blk.id \in Ids /\ blk.block \in Blocks(blk.id)
         /\ BlockMsg(op, blk) = Msg(op, blk.id, blk.block)
<1>1. PICK i \in Ids : blk \in [id : {i}, block : Blocks(i)]
  BY DEF Block
<1>2. BlockMsg(op, blk) \in [op : {"BLOCK_STARTED", "BLOCK_COMPLETED"}, id : {i}, block : Blocks(i)]
  BY <1>1 DEF BlockMsg, BlockOps
<1>3. BlockMsg(op, blk) \in Answer
  BY <1>2, Zenon DEF Answer
<1>4. blk.id = i /\ blk.block \in Blocks(i)
  BY <1>1
<1> QED  BY <1>3, <1>4 DEF BlockMsg, Msg

\* One answer more, of the same calculation.
LEMMA SendOne ==
  ASSUME NEW msgs \in Seq(Answer), NEW i \in Nat, Ordered(msgs, i), Sound(msgs),
         NEW msg \in Answer, msg.id = i,
         msg.op \in BlockOps \cup {"COMPLETED"} => \A n \in DOMAIN msgs : msgs[n] # msg,
         msg.op = "COMPLETED" => \A op \in BlockOps, blk \in Blocks(i) : Said(msgs, op, i, blk)
  PROVE  /\ Append(msgs, msg) \in Seq(Answer)
         /\ Ordered(Append(msgs, msg), i) /\ Sound(Append(msgs, msg))
         /\ \A op, j, blk : Said(Append(msgs, msg), op, j, blk)
                               <=> Said(msgs, op, j, blk) \/ Msg(op, j, blk) = msg
         /\ \A n \in DOMAIN Append(msgs, msg) :
               (n \in DOMAIN msgs /\ Append(msgs, msg)[n] = msgs[n]) \/ Append(msgs, msg)[n] = msg
<1> DEFINE more == Append(msgs, msg)
<1>1. /\ more \in Seq(Answer) /\ Len(msgs) \in Nat
      /\ DOMAIN msgs = 1..Len(msgs) /\ DOMAIN more = 1..Len(msgs) + 1
      /\ \A n \in 1..Len(msgs) : more[n] = msgs[n]
      /\ more[Len(msgs) + 1] = msg
  BY AppendOne
<1> HIDE DEF more
<1>2. \A n \in DOMAIN more : n \in DOMAIN msgs \/ n = Len(msgs) + 1
  BY <1>1
<1>3. \A n \in DOMAIN msgs : n \in DOMAIN more /\ more[n] = msgs[n]
  BY <1>1
<1>4. \A op, j, blk : Said(more, op, j, blk) <=> Said(msgs, op, j, blk) \/ Msg(op, j, blk) = msg
  <2>1. Len(msgs) + 1 \in DOMAIN more
    BY <1>1
  <2> QED  BY <1>1, <1>2, <1>3, <2>1 DEF Said
<1>5. Ordered(more, i)
  <2>1. ASSUME NEW n \in DOMAIN more  PROVE more[n].id <= i
    BY <1>1, <1>2 DEF Ordered
  <2>2. ASSUME NEW n \in DOMAIN more, NEW k \in 1..n  PROVE more[k].id <= more[n].id
    <3>1. CASE n \in DOMAIN msgs
      <4>1. k \in DOMAIN msgs
        BY <1>1, <3>1
      <4> QED  BY <1>3, <3>1, <4>1 DEF Ordered
    <3>2. CASE n = Len(msgs) + 1
      <4>1. k \in DOMAIN more /\ more[n].id = i
        BY <1>1, <3>2
      <4> QED  BY <2>1, <4>1
    <3> QED  BY <1>2, <3>1, <3>2
  <2> QED  BY <2>1, <2>2 DEF Ordered
<1>6. Sound(more)
  <2>1. ASSUME NEW m \in DOMAIN more, NEW n \in DOMAIN more,
               more[n].op \in BlockOps \cup {"COMPLETED"}, more[m] = more[n]
        PROVE  m = n
    BY <1>1, <1>2, <1>3, <2>1 DEF Sound
  <2>2. ASSUME NEW n \in DOMAIN more, more[n].op = "COMPLETED",
               NEW op \in BlockOps, NEW blk \in Blocks(more[n].id)
        PROVE  Said(more, op, more[n].id, blk)
    BY <1>1, <1>2, <1>3, <1>4, <2>2 DEF Sound
  <2> QED  BY <2>1, <2>2 DEF Sound
<1>7. \A n \in DOMAIN more : (n \in DOMAIN msgs /\ more[n] = msgs[n]) \/ more[n] = msg
  BY <1>1, <1>2
<1> QED  BY <1>1, <1>4, <1>5, <1>6, <1>7 DEF more

\* An answer that is about no block and is no COMPLETED changes little.
LEMMA SentAborted ==
  ASSUME CppInv, id' = id,
         \/ answers' = answers
         \/ EndMsg("ABORTED", id) \in Answer /\ answers' = Append(answers, EndMsg("ABORTED", id))
  PROVE  /\ Sound(answers') /\ Ordered(answers', id')
         /\ \A op \in BlockOps : \A i, blk : Said(answers', op, i, blk) <=> Said(answers, op, i, blk)
<1> DEFINE msg == EndMsg("ABORTED", id)
<1>1. answers \in Seq(Answer) /\ id \in Nat /\ Sound(answers) /\ Ordered(answers, id)
  BY CppDispatcherAssumption DEF CppInv, IdsOK, TypeOK, Ids
<1>2. CASE answers' = answers
  BY <1>1, <1>2
<1>3. CASE msg \in Answer /\ answers' = Append(answers, msg)
  <2>1. msg.op = "ABORTED" /\ msg.id = id
    BY DEF EndMsg
  <2>2. \A op, i, blk : Msg(op, i, blk).op = op
    BY DEF Msg
  <2> HIDE DEF msg
  <2>3. /\ Sound(answers') /\ Ordered(answers', id)
         /\ \A op, i, blk : Said(answers', op, i, blk)
                               <=> Said(answers, op, i, blk) \/ Msg(op, i, blk) = msg
    <3>1. msg.op \notin BlockOps \cup {"COMPLETED"}
      BY <2>1 DEF BlockOps
    <3> QED  BY <1>1, <1>3, <2>1, <3>1, SendOne
  <2>4. \A op \in BlockOps : \A i, blk : Msg(op, i, blk) # msg
    BY <2>1, <2>2 DEF BlockOps
  <2> QED  BY <2>3, <2>4
<1> QED  BY <1>2, <1>3

LEMMA KeepBlocks ==
  ASSUME CppInv, TypeOK', NEW d \in {0, 1}, Moves(d, BlockOps),
         blocks' \in {blocks, <<>>}, UNCHANGED <<id, blockCount>>,
         Calculators' \subseteq Calculators, \A i \in Calculators' : workers'[i] = workers[i],
         \/ answers' = answers
         \/ EndMsg("ABORTED", id) \in Answer /\ answers' = Append(answers, EndMsg("ABORTED", id)),
         main' = "receive" /\ ~abort' =>
            main = "receive" /\ ~abort /\ blocks' = blocks /\ Calculators' = Calculators,
         Live' => Live
  PROVE  IdsOK' /\ CountOK' /\ Sound(answers)' /\ (Live' /\ id' # 0 => ReportsOK')
<1>1. /\ Sound(answers') /\ Ordered(answers', id')
      /\ \A op \in BlockOps : \A i, blk : Said(answers', op, i, blk) <=> Said(answers, op, i, blk)
  BY SentAborted
<1>2. /\ \A n \in DOMAIN queue' : queue'[n].op \in BlockOps =>
            n + d \in DOMAIN queue /\ queue'[n] = queue[n + d]
      /\ \A n \in DOMAIN queue : queue[n].op \in BlockOps =>
            n - d \in DOMAIN queue' /\ queue'[n - d] = queue[n]
      /\ DOMAIN queue \subseteq Nat /\ DOMAIN queue' \subseteq Nat
  <2>1. queue \in Seq(QueueMsg) /\ queue' \in Seq(QueueMsg)
    BY DEF CppInv, TypeOK, QueueMsg
  <2> QED  BY <2>1 DEF Moves
<1>3. \A n \in DOMAIN blocks' : n \in DOMAIN blocks /\ blocks'[n] = blocks[n]
  OBVIOUS
<1>4. IdsOK'
  <2>1. \A n \in DOMAIN queue' : queue'[n].op \in BlockOps => queue'[n].id = id
    BY <1>2 DEF CppInv, IdsOK
  <2>2. \A n \in DOMAIN blocks' : blocks'[n].id = id
    BY <1>3 DEF CppInv, IdsOK
  <2>3. \A i \in Calculators' : workers'[i].block.id = id
    BY DEF CppInv, IdsOK
  <2> QED  BY <1>1, <2>1, <2>2, <2>3 DEF IdsOK
<1>5. /\ Cardinality(QueuedCompleted') = Cardinality(QueuedCompleted)
      /\ Cardinality(Calculators') <= Cardinality(Calculators) /\ Len(blocks') <= Len(blocks)
      /\ Cardinality(QueuedCompleted) \in Nat /\ Cardinality(Calculators) \in Nat
      /\ Cardinality(Calculators') \in Nat /\ Len(blocks) \in Nat /\ Len(blocks') \in Nat
  <2>1. queue \in Seq(QueueMsg) /\ queue' \in Seq(QueueMsg)
    BY DEF CppInv, TypeOK, QueueMsg
  <2>2. Cardinality(QueuedCompleted') = Cardinality(QueuedCompleted)
    BY <2>1, MovesCount DEF BlockOps, CppInv
  <2>3. Cardinality(QueuedCompleted) \in Nat
    BY <2>1, PlacesFinite DEF QueuedCompleted
  <2>4. IsFiniteSet(Calculators)
    BY PlacesFinite DEF CppInv, TypeOK, Calculators
  <2>5. Cardinality(Calculators') <= Cardinality(Calculators) /\ Cardinality(Calculators) \in Nat
        /\ Cardinality(Calculators') \in Nat
    BY <2>4, FS_Subset, FS_CardinalityType
  <2>6. blocks \in Seq(Block) /\ <<>> \in Seq(Block) /\ Len(<<>>) = 0
    BY DEF CppInv, TypeOK
  <2>7. Len(blocks) \in Nat /\ Len(blocks') \in Nat /\ Len(blocks') <= Len(blocks)
    BY <2>6
  <2> QED  BY <2>2, <2>3, <2>5, <2>7
<1>6. CountOK'
  <2>1. Outstanding' <= Outstanding /\ Outstanding \in Nat /\ Outstanding' \in Nat
    BY <1>5 DEF Outstanding
  <2>2. blockCount \in Nat
    BY DEF CppInv, TypeOK
  <2>3. Outstanding' <= blockCount'
    BY <2>1, <2>2 DEF CppInv, CountOK
  <2>4. main' = "receive" /\ ~abort' => blockCount' = Outstanding'
    BY <1>5 DEF CppInv, CountOK, Outstanding
  <2> QED  BY <2>3, <2>4 DEF CppInv, CountOK
<1>7. ASSUME Live', id' # 0  PROVE ReportsOK'
  <2>1. ReportsOK
    BY <1>7 DEF CppInv
  <2>2. \A op \in BlockOps : \A blk : Said(queue', op, id, blk) <=> Said(queue, op, id, blk)
    <3>1. \A op, blk : Msg(op, id, blk).op = op
      BY DEF Msg
    <3> QED  BY <1>2, <3>1 DEF Said
  <2>3. \A op \in BlockOps : \A blk :
           Reported(answers', queue', id, op, blk) <=> Reported(answers, queue, id, op, blk)
    BY <1>1, <2>2 DEF Reported
  <2>4. \A n \in DOMAIN blocks' :
           /\ \A m \in DOMAIN blocks' : m < n => blocks'[m].block < blocks'[n].block
           /\ \A blk \in Blocks(id)' :
                 Reported(answers', queue', id, "BLOCK_STARTED", blk) => blk < blocks'[n].block
    BY <1>3, <2>1, <2>3 DEF ReportsOK, Blocks, BlockOps
  <2>5. \A i \in Calculators' :
           /\ Reported(answers', queue', id, "BLOCK_STARTED", workers'[i].block.block)
           /\ ~Reported(answers', queue', id, "BLOCK_COMPLETED", workers'[i].block.block)
           /\ \A j \in Calculators' : workers'[j].block = workers'[i].block => j = i
    BY <2>1, <2>3 DEF ReportsOK, BlockOps
  <2>6. ASSUME NEW n \in DOMAIN queue', queue'[n].op \in BlockOps
        PROVE  /\ \A m \in DOMAIN queue' : queue'[m] = queue'[n] => m = n
               /\ ~Said(answers', queue'[n].op, id, queue'[n].block)
    <3>1. n + d \in DOMAIN queue /\ queue'[n] = queue[n + d]
      BY <1>2, <2>6
    <3>2. ASSUME NEW m \in DOMAIN queue', queue'[m] = queue'[n]  PROVE m = n
      <4>1. m + d \in DOMAIN queue /\ queue'[m] = queue[m + d]
        BY <1>2, <2>6, <3>2
      <4>2. m + d = n + d
        BY <2>1, <2>6, <3>1, <3>2, <4>1 DEF ReportsOK
      <4>3. m \in Nat /\ n \in Nat
        BY <1>2
      <4> QED  BY <4>2, <4>3
    <3>3. ~Said(answers, queue[n + d].op, id, queue[n + d].block)
      BY <2>1, <2>6, <3>1 DEF ReportsOK
    <3> QED  BY <1>1, <2>6, <3>1, <3>2, <3>3
  <2>7. ASSUME NEW n \in DOMAIN queue', queue'[n].op = "BLOCK_COMPLETED"
        PROVE  \/ Said(answers', "BLOCK_STARTED", id, queue'[n].block)
               \/ \E m \in DOMAIN queue' :
                     m < n /\ queue'[m] = Msg("BLOCK_STARTED", id, queue'[n].block)
    <3>1. n + d \in DOMAIN queue /\ queue'[n] = queue[n + d]
      BY <1>2, <2>7 DEF BlockOps
    <3>2. CASE Said(answers, "BLOCK_STARTED", id, queue[n + d].block)
      BY <1>1, <3>1, <3>2 DEF BlockOps
    <3>3. CASE \E m \in DOMAIN queue :
                  m < n + d /\ queue[m] = Msg("BLOCK_STARTED", id, queue[n + d].block)
      <4>1. PICK m \in DOMAIN queue :
                  m < n + d /\ queue[m] = Msg("BLOCK_STARTED", id, queue[n + d].block)
        BY <3>3
      <4>2. queue[m].op \in BlockOps
        BY <4>1 DEF Msg, BlockOps
      <4>3. m - d \in DOMAIN queue' /\ queue'[m - d] = queue[m] /\ m \in Nat /\ n \in Nat
        BY <1>2, <4>2
      <4>4. m - d < n
        BY <4>1, <4>3
      <4> QED  BY <3>1, <4>1, <4>3, <4>4
    <3> QED  BY <2>1, <2>7, <3>1, <3>2, <3>3 DEF ReportsOK
  <2>8. \A blk \in Blocks(id) :
           Said(answers', "BLOCK_COMPLETED", id, blk) => Said(answers', "BLOCK_STARTED", id, blk)
    BY <1>1, <2>1 DEF ReportsOK, BlockOps
  <2>9. CompletedBlocks' = CompletedBlocks
    BY <1>1 DEF CompletedBlocks, BlockOps, Blocks
  <2> QED  BY <2>1, <2>4, <2>5, <2>6, <2>7, <2>8, <2>9 DEF ReportsOK, Blocks
<1> QED  BY <1>1, <1>4, <1>6, <1>7

-----------------------------------------------------------------------------
(* What does not touch the protocol: no START is sent or handled, and what *)
(* is idle remains so.                                                     *)

LEMMA KeepProtocol ==
  ASSUME CppInv, TypeOK', NEW d \in {0, 1}, NEW e \in {0, 1},
         \A n \in DOMAIN queue' : IsStart(queue'[n]) \/ queue'[n].op \in BlockOps =>
            \/ n + d \in DOMAIN queue /\ queue'[n] = queue[n + d]
            \/ queue'[n].op \in BlockOps /\ ~Pending,
         \A n \in DOMAIN toServer' : IsStart(toServer'[n]) =>
            n + e \in DOMAIN toServer /\ toServer'[n] = toServer[n + e],
         handling' = handling \/ handling' = <<>> \/ ~HasStart(handling'),
         UNCHANGED <<id, lastId>>,
         \/ client' = client
         \/ client' \in {"gone", "vanished"}
         \/ client = "calculating" /\ client' = "aborting",
         Idle => Idle',
         \A n \in DOMAIN answers' : IsEnd(answers'[n]) =>
            (n \in DOMAIN answers /\ answers'[n] = answers[n]) \/ Idle',
         main' = "receive" <=> socket' = "open",
         thread' = "join" <=> handling' # <<>>,
         handling' # <<>> => blocks' = <<>>
  PROVE  StartsOK' /\ RequestsOK' /\ QueueOK'
<1>1. /\ DOMAIN queue \subseteq Nat /\ DOMAIN queue' \subseteq Nat
      /\ DOMAIN toServer \subseteq Nat /\ DOMAIN toServer' \subseteq Nat
  <2>1. /\ queue \in Seq(QueueMsg) /\ queue' \in Seq(QueueMsg)
        /\ toServer \in Seq(ClientMsg \cup [op : {"CLOSE", "ERROR", "END"}])
        /\ toServer' \in Seq(ClientMsg \cup [op : {"CLOSE", "ERROR", "END"}])
    BY DEF CppInv, TypeOK, QueueMsg
  <2> QED  BY <2>1
<1>2. \A msg : ~(IsStart(msg) /\ msg.op \in BlockOps)
  BY DEF IsStart, BlockOps
<1>3. \A n \in DOMAIN queue' : IsStart(queue'[n]) =>
         n + d \in DOMAIN queue /\ queue'[n] = queue[n + d] /\ IsStart(queue[n + d])
  BY <1>2
<1>4. \A n \in DOMAIN toServer' : IsStart(toServer'[n]) =>
         n + e \in DOMAIN toServer /\ toServer'[n] = toServer[n + e] /\ IsStart(toServer[n + e])
  OBVIOUS
<1>5. /\ HasStart(queue') => HasStart(queue)
      /\ HasStart(toServer') => HasStart(toServer)
      /\ HasStart(handling') => HasStart(handling) /\ handling' = handling
  BY <1>3, <1>4 DEF HasStart
<1>6. Pending' => Pending
  BY <1>5 DEF Pending
<1>7. StartsOK'
  <2>1. OneStart(toServer')
    BY <1>1, <1>4 DEF OneStart, CppInv, StartsOK
  <2>2. OneStart(queue')
    BY <1>1, <1>3 DEF OneStart, CppInv, StartsOK
  <2>3. \A n \in DOMAIN handling' : IsStart(handling'[n]) => handling'[n].id = lastId'
    BY <1>5 DEF HasStart, CppInv, StartsOK
  <2> QED  BY <1>3, <1>4, <1>5, <2>1, <2>2, <2>3 DEF CppInv, StartsOK
<1>8. RequestsOK'
  BY <1>6 DEF CppInv, RequestsOK
<1>9. QueueOK'
  <2>1. ASSUME NEW n \in DOMAIN queue', NEW k \in DOMAIN queue',
               IsStart(queue'[n]), queue'[k].op \in BlockOps
        PROVE  k < n
    <3>1. n + d \in DOMAIN queue /\ IsStart(queue[n + d]) /\ Pending
      BY <1>3, <2>1 DEF Pending, HasStart
    <3>2. k + d \in DOMAIN queue /\ queue'[k] = queue[k + d]
      BY <2>1, <3>1
    <3>3. k + d < n + d
      BY <2>1, <3>1, <3>2 DEF CppInv, QueueOK
    <3> QED  BY <1>1, <3>3
  <2>2. ASSUME HasStart(handling'), NEW k \in DOMAIN queue', queue'[k].op \in BlockOps
        PROVE  FALSE
    <3>1. HasStart(handling) /\ Pending
      BY <1>5, <2>2 DEF Pending
    <3>2. k + d \in DOMAIN queue /\ queue'[k] = queue[k + d]
      BY <2>2, <3>1
    <3> QED  BY <2>2, <3>1, <3>2 DEF CppInv, QueueOK
  <2> QED  BY <2>1, <2>2 DEF QueueOK
<1> QED  BY <1>7, <1>8, <1>9

\* Send sends what it is given, or nothing once the session has ended.
LEMMA SendCases ==
  ASSUME CppInv, NEW msgs, Send(msgs), crashed = "no"
  PROVE  /\ crashed' \in {"no", "lost", "closed"}
         /\ (Live /\ answers' = answers \o msgs) \/ (~Live /\ answers' = answers)
BY DEF Send, SendThrows, Live, CppInv, QueueOK

\* The messages of the queue other than the first move up.
LEMMA PopMoves ==
  ASSUME TypeOK, NEW ops, Pop(ops)
  PROVE  /\ crashed = "no" /\ thread = "pop"
         /\ queue # <<>> /\ queue' = Tail(queue) /\ queue \in Seq(QueueMsg) /\ queue' \in Seq(QueueMsg)
         /\ Head(queue) = queue[1] /\ 1 \in DOMAIN queue /\ DOMAIN queue \subseteq Nat
         /\ Head(queue) \in QueueMsg /\ Head(queue).op \in ops
         /\ \A n \in DOMAIN queue' : n + 1 \in DOMAIN queue /\ queue'[n] = queue[n + 1]
         /\ \A n \in DOMAIN queue : n = 1 \/ (n - 1 \in DOMAIN queue' /\ queue'[n - 1] = queue[n])
<1>1. queue \in Seq(QueueMsg)
  BY DEF TypeOK, QueueMsg
<1>2. queue # <<>> /\ queue' = Tail(queue) /\ crashed = "no" /\ thread = "pop" /\ Head(queue).op \in ops
  BY DEF Pop, ThreadAt
<1>3. /\ queue' \in Seq(QueueMsg) /\ Head(queue) \in QueueMsg /\ Head(queue) = queue[1]
      /\ 1 \in DOMAIN queue /\ Len(queue) \in Nat \ {0}
      /\ DOMAIN queue = 1 .. Len(queue) /\ DOMAIN queue' = 1 .. Len(queue) - 1
      /\ \A n \in DOMAIN queue' : n + 1 \in DOMAIN queue /\ queue'[n] = queue[n + 1]
  BY <1>1, <1>2, TailOne
<1>4. ASSUME NEW n \in DOMAIN queue, n # 1
      PROVE  n - 1 \in DOMAIN queue' /\ queue'[n - 1] = queue[n]
  <2>1. n - 1 \in DOMAIN queue' /\ (n - 1) + 1 = n
    BY <1>3, <1>4
  <2> QED  BY <1>3, <2>1
<1> QED  BY <1>1, <1>2, <1>3, <1>4

-----------------------------------------------------------------------------
(* The steps that do not touch blocks.                                     *)

LEMMA CppInit ==
  ASSUME Init
  PROVE  CppInv
<1>1. TypeOK
  <2>1. \A S : <<>> \in Seq(S)
    OBVIOUS
  <2>2. 0 \in 0..Len(<<>>) /\ 0 \in 0..MaxCalc /\ 0 \in 0..MaxSessions
    BY CppDispatcherAssumption
  <2>3. 0 \in {0} \cup Ids /\ 0 \in {0} \cup UNION {0..NumBlocks[i] : i \in Ids}
    OBVIOUS
  <2>4. handling \in {<<>>} \cup {<<msg>> : msg \in ClientMsg}
    BY DEF Init
  <2> QED  BY <2>1, <2>2, <2>3, <2>4 DEF Init, TypeOK
<1>2. Calculators = {} /\ QueuedCompleted = {} /\ Cardinality({}) = 0
  BY FS_EmptySet DEF Init, Calculators, QueuedCompleted
<1>3. ~Pending
  BY DEF Init, Pending, HasStart
<1>4. StartsOK /\ RequestsOK /\ QueueOK
  BY <1>2, <1>3 DEF Init, StartsOK, OneStart, HasStart, RequestsOK, Idle, QueueOK
<1>5. IdsOK /\ CountOK
  BY <1>2 DEF Init, IdsOK, Ordered, CountOK, Outstanding
<1>6. Sound(answers) /\ id = 0
  BY DEF Init, Sound
<1> QED  BY <1>1, <1>4, <1>5, <1>6 DEF CppInv

LEMMA OnNoMessageStep ==
  ASSUME CppInv, OnNoMessage
  PROVE  CppInv'
<1>1. TypeOK
  BY DEF CppInv
<1> DEFINE h == Head(queue)
<1>2. Pop({"NONE"})
  BY DEF OnNoMessage
<1>3. /\ thread = "pop" /\ queue # <<>> /\ queue' = Tail(queue) /\ queue' \in Seq(QueueMsg)
      /\ Head(queue).op = "NONE"
      /\ \A n \in DOMAIN queue' : n + 1 \in DOMAIN queue /\ queue'[n] = queue[n + 1]
  BY <1>1, <1>2, PopMoves
<1>4. /\ thread' \in {"exited", "pop"}
      /\ UNCHANGED <<clientVars, sessionVars, main, handling, dispatcherVars, crashed>>
  BY DEF OnNoMessage, LoopAgain
<1>5. TypeOK'
  BY <1>1, <1>3, <1>4 DEF TypeOK, QueueMsg, clientVars, sessionVars, wireVars, dispatcherVars
<1>6. Moves(1, BlockOps)
  BY <1>1, <1>3, MovesTail DEF BlockOps
<1>7. Calculators' = Calculators /\ Idle' = Idle /\ Live' = Live
  BY <1>4 DEF Calculators, Idle, Live, Broken, dispatcherVars, sessionVars, wireVars
<1>8. IdsOK' /\ CountOK' /\ Sound(answers)' /\ (Live' /\ id' # 0 => ReportsOK')
  BY <1>4, <1>5, <1>6, <1>7, KeepBlocks DEF dispatcherVars, sessionVars, wireVars
<1>9. StartsOK' /\ RequestsOK' /\ QueueOK'
  <2>1. /\ main' = "receive" <=> socket' = "open"
        /\ thread' = "join" <=> handling' # <<>>
        /\ handling' # <<>> => blocks' = <<>>
    BY <1>3, <1>4 DEF CppInv, QueueOK, sessionVars, wireVars, dispatcherVars
  <2>2. \A n \in DOMAIN toServer : n + 0 = n
    BY DEF CppInv, TypeOK
  <2> QED  BY <1>3, <1>4, <1>5, <1>7, <2>1, <2>2, KeepProtocol
           DEF clientVars, sessionVars, wireVars, dispatcherVars
<1> QED  BY <1>5, <1>8, <1>9 DEF CppInv

\* Neither the queue nor what the client has sent changes.
LEMMA QuietStep ==
  ASSUME CppInv, TypeOK',
         UNCHANGED <<queue, toServer, id, blockCount, lastId, client>>,
         handling' \in {handling, <<>>}, blocks' \in {blocks, <<>>},
         Calculators' \subseteq Calculators, \A i \in Calculators' : workers'[i] = workers[i],
         \/ answers' = answers
         \/ /\ EndMsg("ABORTED", id) \in Answer
            /\ answers' = Append(answers, EndMsg("ABORTED", id))
            /\ Idle',
         main' = "receive" => main = "receive",
         main' = "receive" /\ ~abort' =>
            main = "receive" /\ ~abort /\ blocks' = blocks /\ Calculators' = Calculators,
         main' = "receive" <=> socket' = "open",
         thread' = "join" <=> handling' # <<>>
  PROVE  CppInv'
<1>1. TypeOK
  BY DEF CppInv
<1>2. Moves(0, BlockOps)
  BY <1>1, MovesSame
<1>3. Live' => Live
  BY DEF Live, Broken
<1>4. IdsOK' /\ CountOK' /\ Sound(answers)' /\ (Live' /\ id' # 0 => ReportsOK')
  BY <1>2, <1>3, KeepBlocks
<1>5. Idle => Idle'
  BY DEF Idle
<1>6. /\ \A n \in DOMAIN queue : n + 0 = n
      /\ \A n \in DOMAIN toServer : n + 0 = n
  <2>1. queue \in Seq(QueueMsg) /\ toServer \in Seq(ClientMsg \cup [op : {"CLOSE", "ERROR", "END"}])
    BY <1>1 DEF TypeOK, QueueMsg
  <2> QED  BY <2>1
<1>7. \A n \in DOMAIN answers' : IsEnd(answers'[n]) =>
            (n \in DOMAIN answers /\ answers'[n] = answers[n]) \/ Idle'
  OBVIOUS
<1>8. handling' # <<>> => blocks' = <<>>
  BY DEF CppInv, QueueOK
<1>9. StartsOK' /\ RequestsOK' /\ QueueOK'
  BY <1>5, <1>6, <1>7, <1>8, KeepProtocol
<1> QED  BY <1>4, <1>9 DEF CppInv

LEMMA MainQuietStep ==
  ASSUME CppInv, MainClosed \/ MainAbort \/ MainClear \/ MainJoin \/ MainJoinThread \/ DataRace
  PROVE  CppInv'
<1> USE DEF clientVars, sessionVars, wireVars, threadVars, dispatcherVars
<1>1. TypeOK /\ QueueOK
  BY DEF CppInv
<1>2. CASE MainClosed
  <2>1. TypeOK'
    BY <1>1, <1>2 DEF MainClosed, TypeOK
  <2>2. Calculators' = Calculators
    BY <1>2 DEF MainClosed, Calculators
  <2> QED  BY <1>1, <1>2, <2>1, <2>2, QuietStep DEF MainClosed, QueueOK
<1>3. CASE MainAbort
  <2>1. TypeOK'
    BY <1>1, <1>3 DEF MainAbort, TypeOK
  <2>2. Calculators' = Calculators
    BY <1>3 DEF MainAbort, Calculators
  <2>3. main = "abort" /\ main' = "clear"
    BY <1>3 DEF MainAbort, MainAt
  <2> QED  BY <1>1, <1>3, <2>1, <2>2, <2>3, QuietStep DEF MainAbort, QueueOK
<1>4. CASE MainClear
  <2>1. TypeOK'
    BY <1>1, <1>4 DEF MainClear, TypeOK, ClearedBlocks
  <2>2. Calculators' = Calculators
    BY <1>4 DEF MainClear, Calculators
  <2>3. main = "clear" /\ main' = "join" /\ blocks' = <<>>
    BY <1>4 DEF MainClear, MainAt, ClearedBlocks
  <2> QED  BY <1>1, <1>4, <2>1, <2>2, <2>3, QuietStep DEF MainClear, QueueOK
<1>5. CASE MainJoin
  <2>1. TypeOK'
    BY <1>1, <1>5 DEF MainJoin, TypeOK
  <2>2. Calculators' = {}
    BY <1>5 DEF MainJoin, Calculators
  <2>3. main = "join" /\ main' = "destroy"
    BY <1>5 DEF MainJoin, MainAt
  <2> QED  BY <1>1, <1>5, <2>1, <2>2, <2>3, QuietStep DEF MainJoin, QueueOK
<1>6. CASE MainJoinThread
  <2>1. TypeOK'
    BY <1>1, <1>6 DEF MainJoinThread, TypeOK
  <2>2. Calculators' = Calculators
    BY <1>6 DEF MainJoinThread, Calculators
  <2>3. main = "joinThread" /\ main' = "accept"
    BY <1>6 DEF MainJoinThread, MainAt
  <2> QED  BY <1>1, <1>6, <2>1, <2>2, <2>3, QuietStep DEF MainJoinThread, QueueOK
<1>7. CASE DataRace
  <2>1. TypeOK'
    BY <1>1, <1>7 DEF DataRace, TypeOK
  <2>2. Calculators' = Calculators
    BY <1>7 DEF DataRace, Calculators
  <2> QED  BY <1>1, <1>7, <2>1, <2>2, QuietStep DEF DataRace, QueueOK
<1> QED  BY <1>2, <1>3, <1>4, <1>5, <1>6, <1>7

\* A worker returns: it has found no block, or sees that it shall abort.
LEMMA WorkerReturnsStep ==
  ASSUME CppInv, NEW i \in DOMAIN workers,
         \/ WorkerPop(i) /\ blocks = <<>>
         \/ WorkerAborts(i)
  PROVE  CppInv'
<1> USE DEF clientVars, sessionVars, wireVars, threadVars, dispatcherVars
<1>1. TypeOK /\ QueueOK
  BY DEF CppInv
<1>2. /\ UNCHANGED <<clientVars, sessionVars, main, threadVars, queue,
                     id, blockCount, abort, destroy, blocks, crashed>>
      /\ workers' = [workers EXCEPT ![i] = Returned]
      /\ i \in Calculators => abort
  BY DEF WorkerPop, WorkerAborts, WorkerAt, SeesAbort, Calculators
<1>3. TypeOK'
  BY <1>1, <1>2 DEF TypeOK
<1>4. /\ DOMAIN workers' = DOMAIN workers
      /\ \A j \in DOMAIN workers : workers'[j] = IF j = i THEN Returned ELSE workers[j]
  BY <1>1, <1>2 DEF TypeOK
<1>5. Returned.at # "calculating"
  BY DEF Returned
<1>6. Calculators' = Calculators \ {i}
  BY <1>4, <1>5 DEF Calculators
<1> QED  BY <1>1, <1>2, <1>3, <1>4, <1>6, QuietStep DEF QueueOK

LEMMA ThreadAbortedStep ==
  ASSUME CppInv, ThreadAborted
  PROVE  CppInv'
<1> USE DEF clientVars, sessionVars, wireVars, threadVars, dispatcherVars
<1> DEFINE msg == EndMsg("ABORTED", id)
<1>1. TypeOK /\ QueueOK
  BY DEF CppInv
<1>2. /\ crashed = "no" /\ thread = "join" /\ workers' = <<>> /\ Send(<<msg>>)
      /\ thread' \in {"exited", "pop"} /\ handling' = <<>>
      /\ UNCHANGED <<clientVars, wireVars, socket, main, queue,
                     id, blockCount, abort, destroy, blocks>>
      /\ AllReturned
  BY DEF ThreadAborted, ThreadAt, LoopAgain
<1>3. crashed' \in {"no", "lost", "closed"} /\ answers' \in {answers, answers \o <<msg>>}
  BY <1>2, SendCases
<1>4. msg \in Answer /\ answers \in Seq(Answer)
  BY <1>1, EndAnswer DEF TypeOK
<1> HIDE DEF msg
<1>5. answers' = answers \/ (answers' = Append(answers, msg) /\ Len(answers') = Len(answers) + 1)
  BY <1>3, <1>4
<1>6. TypeOK'
  <2>1. answers' \in Seq(Answer)
    BY <1>4, <1>5
  <2>2. received' \in 0..Len(answers')
    BY <1>1, <1>2, <1>4, <1>5 DEF TypeOK
  <2>3. workers' \in Seq({NewWorker, Returned} \cup {Calculating(blk) : blk \in Block})
    BY <1>2
  <2> QED  BY <1>1, <1>2, <1>3, <2>1, <2>2, <2>3 DEF TypeOK
<1>7. Calculators = {} /\ Calculators' = {}
  BY <1>2 DEF AllReturned, Returned, Calculators
<1>8. blocks = <<>> /\ Idle'
  BY <1>1, <1>2, <1>7 DEF QueueOK, Idle
<1> QED  BY <1>1, <1>2, <1>4, <1>5, <1>6, <1>7, <1>8, QuietStep DEF QueueOK, msg

\* main reads what the client sent: a request is queued, anything else is the end.
LEMMA MainReceiveStep ==
  ASSUME CppInv, MainReceive
  PROVE  CppInv'
<1> USE DEF clientVars, sessionVars, wireVars, threadVars, dispatcherVars
<1> DEFINE h == Head(toServer)
           Sent == ClientMsg \cup [op : {"CLOSE", "ERROR", "END"}]
<1>1. TypeOK /\ QueueOK /\ StartsOK /\ RequestsOK
  BY DEF CppInv
<1>2. /\ main = "receive" /\ toServer # <<>> /\ toServer' = Tail(toServer)
      /\ kept' \in 0..Len(toServer) - 1 /\ h.op \notin {"ERROR", "END"}
      /\ UNCHANGED <<clientVars, answers, handling, dispatcherVars, crashed>>
  <2>1. /\ main = "receive" /\ Len(toServer) > kept /\ toServer' = Tail(toServer)
        /\ UNCHANGED <<clientVars, answers, handling, dispatcherVars, crashed>>
    BY DEF MainReceive, MainAt
  <2>2. PICK k \in 0..Len(toServer) - 1 : MayKeep(k) /\ kept' = k
    BY DEF MainReceive
  <2>3. Len(toServer) \in Nat /\ kept \in Nat
    BY <1>1 DEF TypeOK
  <2>4. toServer # <<>> /\ 1 \in 1..k + 1
    BY <2>1, <2>2, <2>3
  <2>5. h.op \notin {"ERROR", "END"}
    BY <2>2, <2>4 DEF MayKeep
  <2> QED  BY <2>1, <2>2, <2>4, <2>5
<1>3. /\ toServer \in Seq(Sent) /\ toServer' \in Seq(Sent) /\ h \in Sent /\ h = toServer[1]
      /\ 1 \in DOMAIN toServer /\ DOMAIN toServer \subseteq Nat /\ DOMAIN toServer' \subseteq Nat
      /\ \A n \in DOMAIN toServer' : n + 1 \in DOMAIN toServer /\ toServer'[n] = toServer[n + 1]
      /\ \A n \in DOMAIN toServer :
            n = 1 \/ (n - 1 \in DOMAIN toServer' /\ toServer'[n - 1] = toServer[n])
  <2>1. toServer \in Seq(Sent)
    BY <1>1 DEF TypeOK
  <2>2. /\ toServer' \in Seq(Sent) /\ h \in Sent /\ h = toServer[1] /\ 1 \in DOMAIN toServer
        /\ Len(toServer) \in Nat \ {0}
        /\ DOMAIN toServer = 1 .. Len(toServer) /\ DOMAIN toServer' = 1 .. Len(toServer) - 1
        /\ \A n \in DOMAIN toServer' : n + 1 \in DOMAIN toServer /\ toServer'[n] = toServer[n + 1]
    BY <1>2, <2>1, TailOne
  <2>3. ASSUME NEW n \in DOMAIN toServer, n # 1
        PROVE  n - 1 \in DOMAIN toServer' /\ toServer'[n - 1] = toServer[n]
    <3>1. n - 1 \in DOMAIN toServer' /\ (n - 1) + 1 = n
      BY <2>2, <2>3
    <3> QED  BY <2>2, <3>1
  <2> QED  BY <2>1, <2>2, <2>3
<1>4. Calculators' = Calculators /\ Idle' = Idle
  BY <1>2 DEF Calculators, Idle
<1>5. kept' \in 0..Len(toServer') /\ \A n \in DOMAIN queue : n + 0 = n
  <2>1. Len(toServer') = Len(toServer) - 1
    BY <1>2, <1>3
  <2> QED  BY <1>1, <1>2, <2>1 DEF TypeOK
<1>6. CASE h.op \notin {"START", "ABORT"}
  <2>1. main' = "closing" /\ socket' = "closed" /\ UNCHANGED <<queue, thread>>
    BY <1>6 DEF MainReceive
  <2>2. TypeOK'
    BY <1>1, <1>2, <1>3, <1>5, <2>1 DEF TypeOK
  <2>3. Moves(0, BlockOps)
    BY <1>1, <2>1, MovesSame
  <2>4. IdsOK' /\ CountOK' /\ Sound(answers)' /\ (Live' /\ id' # 0 => ReportsOK')
    BY <1>2, <1>4, <2>1, <2>2, <2>3, KeepBlocks DEF Live
  <2>5. StartsOK' /\ RequestsOK' /\ QueueOK'
    BY <1>1, <1>2, <1>3, <1>4, <1>5, <2>1, <2>2, KeepProtocol DEF QueueOK
  <2> QED  BY <2>2, <2>4, <2>5 DEF CppInv
<1>7. CASE h.op \in {"START", "ABORT"}
  <2>1. /\ UNCHANGED <<main, socket>> /\ queue' = Append(queue, h)
        /\ thread' = IF thread = "none" THEN "pop" ELSE thread
    BY <1>7 DEF MainReceive
  <2>2. h \in ClientMsg /\ h \in QueueMsg /\ h.op \notin BlockOps
    BY <1>3, <1>7 DEF QueueMsg, BlockOps
  <2>3. /\ queue \in Seq(QueueMsg) /\ queue' \in Seq(QueueMsg)
        /\ DOMAIN queue = 1 .. Len(queue) /\ DOMAIN queue' = 1 .. Len(queue) + 1
        /\ Len(queue) \in Nat /\ queue'[Len(queue) + 1] = h
        /\ \A n \in 1 .. Len(queue) : queue'[n] = queue[n]
    <3>1. queue \in Seq(QueueMsg)
      BY <1>1 DEF TypeOK, QueueMsg
    <3> QED  BY <2>1, <2>2, <3>1, AppendOne
  <2>4. TypeOK'
    BY <1>1, <1>2, <1>3, <1>5, <2>1, <2>3 DEF TypeOK, QueueMsg
  <2>5. Moves(0, BlockOps)
    BY <1>1, <2>1, <2>2, MovesAppend
  <2>6. Live' => Live
    <3>1. Broken => Broken'
      BY <1>2, <1>3 DEF Broken
    <3> QED  BY <2>1, <3>1 DEF Live
  <2>7. IdsOK' /\ CountOK' /\ Sound(answers)' /\ (Live' /\ id' # 0 => ReportsOK')
    BY <1>2, <1>4, <2>1, <2>4, <2>5, <2>6, KeepBlocks
  <2>8. \A n \in DOMAIN queue' : n \in DOMAIN queue \/ (n = Len(queue) + 1 /\ queue'[n] = h)
    BY <2>3
  <2>9. CASE h.op # "START"
    <3>1. \A n \in DOMAIN queue' : IsStart(queue'[n]) \/ queue'[n].op \in BlockOps =>
             n + 0 \in DOMAIN queue /\ queue'[n] = queue[n + 0]
      BY <1>5, <2>2, <2>3, <2>8, <2>9 DEF IsStart
    <3>2. StartsOK' /\ RequestsOK' /\ QueueOK'
      BY <1>1, <1>2, <1>3, <1>4, <2>1, <2>4, <3>1, KeepProtocol DEF QueueOK
    <3> QED  BY <2>4, <2>7, <3>2 DEF CppInv
  <2>10. CASE h.op = "START"
    <3>1. IsStart(h) /\ HasStart(toServer) /\ h.id = lastId /\ Pending
      BY <1>1, <1>3, <2>10 DEF IsStart, HasStart, Pending, StartsOK
    <3>2. ~HasStart(queue) /\ ~HasStart(handling)
      BY <1>1, <3>1 DEF StartsOK
    <3>3. ~HasStart(toServer')
      <4> SUFFICES ASSUME NEW n \in DOMAIN toServer', IsStart(toServer'[n])  PROVE FALSE
        BY DEF HasStart
      <4>1. n + 1 \in DOMAIN toServer /\ IsStart(toServer[n + 1]) /\ IsStart(toServer[1]) /\ n \in Nat
        BY <1>3, <3>1
      <4>2. n + 1 = 1
        BY <1>1, <1>3, <4>1 DEF StartsOK, OneStart
      <4>3. n = 0
        BY <4>1, <4>2
      <4> QED  BY <1>3, <4>3
    <3>4. \A n \in DOMAIN queue' : IsStart(queue'[n]) => n = Len(queue) + 1
      BY <2>3, <2>8, <3>2 DEF HasStart
    <3>5. ~HasStart(handling')
      BY <1>2, <3>2
    <3>6. StartsOK'
      BY <1>1, <1>2, <2>3, <3>1, <3>3, <3>4, <3>5 DEF StartsOK, OneStart, HasStart
    <3>7. RequestsOK'
      BY <1>1, <1>2, <1>4, <3>1 DEF RequestsOK
    <3>8. \A n, k \in DOMAIN queue' : IsStart(queue'[n]) /\ queue'[k].op \in BlockOps => k < n
      BY <2>2, <2>3, <2>8, <3>4
    <3>9. QueueOK'
      BY <1>1, <1>2, <2>1, <3>5, <3>8 DEF QueueOK
    <3> QED  BY <2>4, <2>7, <3>6, <3>7, <3>9 DEF CppInv
  <2> QED  BY <2>9, <2>10
<1> QED  BY <1>6, <1>7

\* The session fails: what was on its way is lost.
LEMMA MainReceiveFailsStep ==
  ASSUME CppInv, MainReceiveFails
  PROVE  CppInv'
<1> USE DEF clientVars, sessionVars, wireVars, threadVars, dispatcherVars
<1>1. TypeOK /\ QueueOK
  BY DEF CppInv
<1>2. /\ main' = "closing" /\ socket' = "closed" /\ toServer' = <<>> /\ kept' = 0
      /\ UNCHANGED <<clientVars, answers, threadVars, queue, dispatcherVars, crashed>>
  BY DEF MainReceiveFails
<1>3. TypeOK'
  <2>1. \A S : <<>> \in Seq(S)
    OBVIOUS
  <2>2. 0 \in 0..Len(<<>>)
    OBVIOUS
  <2> QED  BY <1>1, <1>2, <2>1, <2>2 DEF TypeOK
<1>4. Calculators' = Calculators /\ Idle' = Idle
  BY <1>2 DEF Calculators, Idle
<1>5. Moves(0, BlockOps)
  BY <1>1, <1>2, MovesSame
<1>6. IdsOK' /\ CountOK' /\ Sound(answers)' /\ (Live' /\ id' # 0 => ReportsOK')
  BY <1>2, <1>3, <1>4, <1>5, KeepBlocks DEF Live
<1>7. DOMAIN toServer' = {} /\ \A n \in DOMAIN queue : n + 0 = n
  BY <1>1, <1>2 DEF TypeOK
<1>8. StartsOK' /\ RequestsOK' /\ QueueOK'
  BY <1>1, <1>2, <1>3, <1>4, <1>7, KeepProtocol DEF QueueOK
<1> QED  BY <1>3, <1>6, <1>8 DEF CppInv

-----------------------------------------------------------------------------
(* The client.                                                             *)

\* One request more on its way.
LEMMA OneRequest ==
  ASSUME TypeOK, NEW msg \in ClientMsg \cup [op : {"CLOSE", "ERROR", "END"}],
         toServer' = Append(toServer, msg)
  PROVE  /\ toServer' \in Seq(ClientMsg \cup [op : {"CLOSE", "ERROR", "END"}])
         /\ DOMAIN toServer = 1 .. Len(toServer) /\ DOMAIN toServer' = 1 .. Len(toServer) + 1
         /\ Len(toServer) \in Nat /\ toServer'[Len(toServer) + 1] = msg
         /\ kept \in 0..Len(toServer')
         /\ \A n \in DOMAIN toServer : n \in DOMAIN toServer' /\ toServer'[n] = toServer[n] /\ n + 0 = n
         /\ \A n \in DOMAIN toServer' :
               n \in DOMAIN toServer \/ (n = Len(toServer) + 1 /\ toServer'[n] = msg)
<1>1. toServer \in Seq(ClientMsg \cup [op : {"CLOSE", "ERROR", "END"}])
  BY DEF TypeOK
<1>2. Len(toServer) \in Nat /\ Len(toServer') = Len(toServer) + 1
  BY <1>1
<1>3. kept \in 0..Len(toServer')
  BY <1>2 DEF TypeOK
<1> QED  BY <1>1, <1>3, AppendOne

\* What a client does leaves the blocks alone.
LEMMA ClientKeepsBlocks ==
  ASSUME CppInv, TypeOK', UNCHANGED serverVars,
         \A n \in DOMAIN toServer : n \in DOMAIN toServer' /\ toServer'[n] = toServer[n]
  PROVE  IdsOK' /\ CountOK' /\ Sound(answers)' /\ (Live' /\ id' # 0 => ReportsOK')
<1> USE DEF serverVars, dispatcherVars
<1>1. Moves(0, BlockOps)
  BY MovesSame DEF CppInv
<1>2. Calculators' = Calculators
  BY DEF Calculators
<1>3. Live' => Live
  BY DEF Live, Broken
<1> QED  BY <1>1, <1>2, <1>3, KeepBlocks

LEMMA ClientStopsStep ==
  ASSUME CppInv,
         \/ ClientAbort
         \/ \E op \in {"CLOSE", "ERROR", "END"} : ClientLeaves(op)
         \/ ClientHangsUp
  PROVE  CppInv'
<1> USE DEF serverVars, threadVars, dispatcherVars
<1>1. TypeOK /\ QueueOK /\ RequestsOK
  BY DEF CppInv
<1>2. /\ UNCHANGED <<lastId, known, received, sessions, serverVars>>
      /\ client' \in {"gone", "vanished"} \/ (client = "calculating" /\ client' = "aborting")
      /\ \E msg \in ClientMsg \cup [op : {"CLOSE", "ERROR", "END"}] :
            msg.op # "START" /\ toServer' = Append(toServer, msg)
  <2>1. CASE ClientAbort
    <3>1. client = "calculating" /\ lastId \in Ids
      BY <1>1, <2>1 DEF ClientAbort, RequestsOK
    <3>2. [op |-> "ABORT", id |-> lastId] \in ClientMsg
      BY <3>1 DEF ClientMsg
    <3> QED  BY <2>1, <3>2 DEF ClientAbort
  <2>2. CASE \E op \in {"CLOSE", "ERROR", "END"} : ClientLeaves(op)
    <3>1. PICK op \in {"CLOSE", "ERROR", "END"} : ClientLeaves(op)
      BY <2>2
    <3>2. [op |-> op] \in [op : {"CLOSE", "ERROR", "END"}] /\ [op |-> op].op # "START"
      OBVIOUS
    <3> QED  BY <3>1, <3>2 DEF ClientLeaves
  <2>3. CASE ClientHangsUp
    <3>1. [op |-> "END"] \in [op : {"CLOSE", "ERROR", "END"}]
      OBVIOUS
    <3> QED  BY <2>3, <3>1 DEF ClientHangsUp, clientVars
  <2> QED  BY <2>1, <2>2, <2>3
<1>3. PICK msg \in ClientMsg \cup [op : {"CLOSE", "ERROR", "END"}] :
         msg.op # "START" /\ toServer' = Append(toServer, msg)
  BY <1>2
<1>4. /\ toServer' \in Seq(ClientMsg \cup [op : {"CLOSE", "ERROR", "END"}])
      /\ kept \in 0..Len(toServer')
      /\ \A n \in DOMAIN toServer : n \in DOMAIN toServer' /\ toServer'[n] = toServer[n] /\ n + 0 = n
      /\ \A n \in DOMAIN toServer' : n \in DOMAIN toServer \/ toServer'[n] = msg
  BY <1>1, <1>3, OneRequest
<1>5. TypeOK'
  BY <1>1, <1>2, <1>4 DEF TypeOK
<1>6. IdsOK' /\ CountOK' /\ Sound(answers)' /\ (Live' /\ id' # 0 => ReportsOK')
  BY <1>2, <1>4, <1>5, ClientKeepsBlocks
<1>7. Idle' = Idle
  BY <1>2 DEF Idle, Calculators
<1>8. \A n \in DOMAIN toServer' : IsStart(toServer'[n]) =>
         n + 0 \in DOMAIN toServer /\ toServer'[n] = toServer[n + 0]
  BY <1>3, <1>4 DEF IsStart
<1>9. \A n \in DOMAIN queue : n + 0 = n
  BY <1>1 DEF TypeOK
<1>10. StartsOK' /\ RequestsOK' /\ QueueOK'
  BY <1>1, <1>2, <1>5, <1>7, <1>8, <1>9, KeepProtocol DEF QueueOK
<1> QED  BY <1>5, <1>6, <1>10 DEF CppInv

\* The end that the client reads is of its calculation only if that is idle.
LEMMA ClientReceiveStep ==
  ASSUME CppInv, ClientReceive
  PROVE  CppInv'
<1> USE DEF serverVars, threadVars, dispatcherVars
<1>1. TypeOK /\ QueueOK /\ RequestsOK /\ StartsOK /\ IdsOK
  BY DEF CppInv
<1>2. PICK n \in received + 1 .. Len(answers) :
         /\ IsEnd(answers[n])
         /\ received' = n
         /\ client' = IF answers[n].id = lastId THEN "waiting" ELSE client
  BY DEF ClientReceive
<1>3. UNCHANGED <<lastId, known, sessions, toServer, serverVars>>
  BY DEF ClientReceive
<1>4. n \in DOMAIN answers /\ n \in 0..Len(answers)
  BY <1>1, <1>2 DEF TypeOK
<1>5. TypeOK'
  BY <1>1, <1>2, <1>3, <1>4 DEF TypeOK
<1>6. IdsOK' /\ CountOK' /\ Sound(answers)' /\ (Live' /\ id' # 0 => ReportsOK')
  BY <1>3, <1>5, ClientKeepsBlocks
<1>7. StartsOK' /\ QueueOK' /\ Pending' = Pending /\ Idle' = Idle
  BY <1>1, <1>3 DEF StartsOK, QueueOK, Pending, Idle, Calculators
<1>8. answers[n].id = lastId => Idle /\ ~Pending
  <2> SUFFICES ASSUME answers[n].id = lastId  PROVE Idle /\ ~Pending
    OBVIOUS
  <2>1. Idle
    BY <1>1, <1>2, <1>4 DEF RequestsOK
  <2>2. lastId <= id
    BY <1>1, <1>4 DEF IdsOK, Ordered
  <2>3. lastId \in Nat /\ id \in Nat
    BY <1>1, CppDispatcherAssumption DEF TypeOK, Ids
  <2>4. ~(id < lastId)
    BY <2>2, <2>3
  <2> QED  BY <1>1, <2>1, <2>4 DEF RequestsOK
<1>9. RequestsOK'
  BY <1>1, <1>2, <1>3, <1>7, <1>8 DEF RequestsOK
<1> QED  BY <1>5, <1>6, <1>7, <1>9 DEF CppInv

\* A client starts a calculation when it has read the end of the last one.
LEMMA ClientStartStep ==
  ASSUME CppInv, NEW count \in WorkerCounts, ClientStart(count)
  PROVE  CppInv'
<1> USE DEF serverVars, threadVars, dispatcherVars
<1> DEFINE msg == [op |-> "START", id |-> lastId + 1, workers |-> count]
<1>1. TypeOK /\ QueueOK /\ RequestsOK /\ StartsOK /\ IdsOK
  BY DEF CppInv
<1>2. /\ client = "waiting" /\ lastId < MaxCalc /\ client' = "calculating" /\ lastId' = lastId + 1
      /\ known' = TRUE /\ toServer' = Append(toServer, msg)
      /\ UNCHANGED <<received, sessions, serverVars>>
  BY DEF ClientStart
<1>3. lastId' \in Ids /\ lastId \in Nat /\ MaxCalc \in Nat
  BY <1>1, <1>2, CppDispatcherAssumption DEF TypeOK, Ids
<1>4. msg \in ClientMsg /\ msg.op = "START" /\ msg.id = lastId'
  BY <1>2, <1>3 DEF ClientMsg
<1> HIDE DEF msg
<1>5. /\ toServer' \in Seq(ClientMsg \cup [op : {"CLOSE", "ERROR", "END"}])
      /\ DOMAIN toServer' = 1 .. Len(toServer) + 1 /\ Len(toServer) \in Nat
      /\ toServer'[Len(toServer) + 1] = msg /\ kept \in 0..Len(toServer')
      /\ \A n \in DOMAIN toServer : n \in DOMAIN toServer' /\ toServer'[n] = toServer[n]
      /\ \A n \in DOMAIN toServer' :
            n \in DOMAIN toServer \/ (n = Len(toServer) + 1 /\ toServer'[n] = msg)
  BY <1>1, <1>2, <1>4, OneRequest
<1>6. TypeOK'
  BY <1>1, <1>2, <1>3, <1>5 DEF TypeOK, Ids
<1>7. IdsOK' /\ CountOK' /\ Sound(answers)' /\ (Live' /\ id' # 0 => ReportsOK')
  BY <1>2, <1>5, <1>6, ClientKeepsBlocks
<1>8. Idle /\ ~Pending /\ Idle' = Idle
  BY <1>1, <1>2 DEF RequestsOK, Idle, Calculators
<1>9. ~HasStart(toServer) /\ ~HasStart(queue) /\ ~HasStart(handling)
  BY <1>8 DEF Pending
<1>10. \A n \in DOMAIN toServer' : IsStart(toServer'[n]) => n = Len(toServer) + 1
  BY <1>5, <1>9 DEF HasStart
<1>11. StartsOK'
  BY <1>2, <1>4, <1>5, <1>9, <1>10 DEF StartsOK, OneStart, HasStart
<1>12. RequestsOK'
  <2>1. id <= lastId /\ id \in Nat
    BY <1>1, <1>3 DEF RequestsOK, TypeOK, Ids
  <2>2. id' < lastId'
    BY <1>2, <1>3, <2>1
  <2>3. \A n \in DOMAIN answers' : answers'[n].id # lastId'
    BY <1>1, <1>2, <1>3, <2>1, <2>2 DEF IdsOK, Ordered
  <2>4. id' <= lastId'
    BY <1>2, <1>3, <2>1
  <2> QED  BY <1>2, <1>3, <1>8, <2>2, <2>3, <2>4 DEF RequestsOK
<1>13. QueueOK'
  BY <1>1, <1>2 DEF QueueOK
<1> QED  BY <1>6, <1>7, <1>11, <1>12, <1>13 DEF CppInv

-----------------------------------------------------------------------------
(* The requests.                                                           *)

LEMMA OnRequestStep ==
  ASSUME CppInv, OnRequest
  PROVE  CppInv'
<1> USE DEF clientVars, sessionVars, wireVars
<1> DEFINE h == Head(queue)
<1>1. TypeOK /\ QueueOK /\ RequestsOK /\ StartsOK
  BY DEF CppInv
<1>2. Pop({"START", "ABORT"})
  BY DEF OnRequest
<1>3. /\ thread = "pop" /\ queue # <<>> /\ queue' = Tail(queue) /\ queue' \in Seq(QueueMsg)
      /\ h = queue[1] /\ 1 \in DOMAIN queue /\ DOMAIN queue \subseteq Nat
      /\ h \in QueueMsg /\ h.op \in {"START", "ABORT"}
      /\ \A n \in DOMAIN queue' : n + 1 \in DOMAIN queue /\ queue'[n] = queue[n + 1]
  BY <1>1, <1>2, PopMoves
<1>4. /\ handling' = <<h>> /\ thread' = "join" /\ abort' = TRUE /\ blocks' = <<>>
      /\ UNCHANGED <<clientVars, sessionVars, main, id, blockCount, destroy, workers, crashed>>
  BY DEF OnRequest, ClearedBlocks
<1>5. h \in ClientMsg
  <2>1. \A msg \in Answer : msg.op \in {"BLOCK_STARTED", "BLOCK_COMPLETED", "COMPLETED", "ABORTED"}
    BY DEF Answer
  <2>2. NoMessage.op = "NONE"
    BY DEF NoMessage
  <2> QED  BY <1>3, <2>1, <2>2 DEF QueueMsg
<1>6. TypeOK'
  BY <1>1, <1>3, <1>4, <1>5 DEF TypeOK, QueueMsg
<1>7. Moves(1, BlockOps)
  BY <1>1, <1>3, MovesTail DEF BlockOps
<1>8. /\ Calculators' = Calculators /\ Live' = Live /\ (Idle => Idle')
  BY <1>4 DEF Calculators, Idle, Live, Broken
<1>9. IdsOK' /\ CountOK' /\ Sound(answers)' /\ (Live' /\ id' # 0 => ReportsOK')
  BY <1>4, <1>6, <1>7, <1>8, KeepBlocks
<1>10. CASE h.op # "START"
  <2>1. ~HasStart(handling')
    BY <1>4, <1>10 DEF HasStart, IsStart
  <2>2. \A n \in DOMAIN toServer : n + 0 = n
    BY <1>1 DEF TypeOK
  <2>3. main' = "receive" <=> socket' = "open"
    BY <1>1, <1>4 DEF QueueOK
  <2>4. handling' # <<>> /\ handling' \in Seq(QueueMsg)
    BY <1>3, <1>4
  <2>5. StartsOK' /\ RequestsOK' /\ QueueOK'
    BY <1>3, <1>4, <1>6, <1>8, <2>1, <2>2, <2>3, <2>4, KeepProtocol
  <2> QED  BY <1>6, <1>9, <2>5 DEF CppInv
<1>11. CASE h.op = "START"
  <2>1. IsStart(h) /\ HasStart(queue) /\ h.id = lastId /\ Pending
    BY <1>1, <1>3, <1>11 DEF IsStart, HasStart, Pending, StartsOK
  <2>2. ~HasStart(toServer) /\ ~HasStart(handling)
    BY <1>1, <2>1 DEF StartsOK
  <2>3. \A n \in DOMAIN queue' : n \in Nat \ {0}
    BY <1>3
  <2>4. ~HasStart(queue')
    <3> SUFFICES ASSUME NEW n \in DOMAIN queue', IsStart(queue'[n])  PROVE FALSE
      BY DEF HasStart
    <3>1. n + 1 = 1
      BY <1>1, <1>3, <2>1 DEF StartsOK, OneStart
    <3> QED  BY <2>3, <3>1
  <2>5. \A k \in DOMAIN queue' : queue'[k].op \notin BlockOps
    <3> SUFFICES ASSUME NEW k \in DOMAIN queue', queue'[k].op \in BlockOps  PROVE FALSE
      OBVIOUS
    <3>1. k + 1 < 1
      BY <1>1, <1>3, <2>1 DEF QueueOK
    <3> QED  BY <2>3, <3>1
  <2>6. \A n \in DOMAIN handling' : handling'[n] = h
    BY <1>4
  <2>7. StartsOK'
    BY <1>1, <1>4, <2>1, <2>2, <2>4, <2>6 DEF StartsOK, OneStart, HasStart
  <2>8. RequestsOK'
    BY <1>1, <1>4, <1>8, <2>1 DEF RequestsOK
  <2>9. handling' # <<>>
    BY <1>4
  <2>10. QueueOK'
    BY <1>1, <1>4, <2>4, <2>5, <2>9 DEF QueueOK, HasStart
  <2> QED  BY <1>6, <1>9, <2>7, <2>8, <2>10 DEF CppInv
<1> QED  BY <1>10, <1>11

\* The first calculation of which anything is reported is the one started, all of
\* whose blocks are to do.
LEMMA ThreadStartedStep ==
  ASSUME CppInv, ThreadStarted
  PROVE  CppInv'
<1> USE DEF clientVars, sessionVars, wireVars
<1> DEFINE msg == Head(handling)
<1>1. TypeOK /\ QueueOK /\ RequestsOK /\ StartsOK /\ IdsOK
  BY DEF CppInv
<1>2. /\ thread = "join" /\ msg.op = "START"
      /\ id' = msg.id /\ abort' = FALSE /\ blocks' = blocks \o AllBlocks(id')
      /\ blockCount' = Len(blocks')
      /\ workers' = [i \in 1..msg.workers |-> NewWorker]
      /\ thread' \in {"exited", "pop"} /\ handling' = <<>>
      /\ UNCHANGED <<clientVars, sessionVars, main, queue, destroy, crashed>>
  BY DEF ThreadStarted, ThreadAt, LoopAgain, CountBlocks
<1>3. handling = <<msg>> /\ msg \in ClientMsg
  BY <1>1, <1>2 DEF TypeOK, QueueOK
<1>4. HasStart(handling) /\ msg.id = lastId
  <2>1. handling[1] = msg /\ 1 \in DOMAIN handling
    BY <1>3
  <2> QED  BY <1>1, <1>2, <2>1 DEF HasStart, IsStart, StartsOK
<1>5. msg.id \in Ids /\ msg.workers \in Nat \ {0}
  BY <1>2, <1>3, CppDispatcherAssumption DEF ClientMsg
<1> HIDE DEF msg
<1>6. /\ ~HasStart(toServer) /\ ~HasStart(queue) /\ Pending /\ id < lastId
      /\ \A k \in DOMAIN queue : queue[k].op \notin BlockOps
  BY <1>1, <1>4 DEF StartsOK, Pending, RequestsOK, QueueOK
<1>7. /\ blocks' = AllBlocks(id') /\ blocks' \in Seq(Block) /\ Len(blocks') = NumBlocks[id']
      /\ DOMAIN blocks' = 1..NumBlocks[id'] /\ NumBlocks[id'] \in Nat
      /\ \A n \in DOMAIN blocks' : blocks'[n].id = id' /\ blocks'[n].block = n
  <2>1. blocks = <<>>
    BY <1>1, <1>3 DEF QueueOK
  <2>2. NumBlocks[id'] \in Nat
    BY <1>2, <1>5, CppDispatcherAssumption DEF Ids
  <2>3. \A n \in Blocks(id') : [id |-> id', block |-> n] \in Block
    BY <1>2, <1>5 DEF Block
  <2>4. /\ AllBlocks(id') \in Seq(Block) /\ Len(AllBlocks(id')) = NumBlocks[id']
        /\ DOMAIN AllBlocks(id') = 1..NumBlocks[id']
        /\ \A n \in 1..NumBlocks[id'] : AllBlocks(id')[n] = [id |-> id', block |-> n]
    BY <2>2, <2>3 DEF AllBlocks, Blocks
  <2>5. blocks' = AllBlocks(id')
    BY <1>2, <2>1, <2>4
  <2>6. \A n \in DOMAIN blocks' : blocks'[n] = [id |-> id', block |-> n]
    BY <2>4, <2>5
  <2>7. \A n \in DOMAIN blocks' : blocks'[n].id = id' /\ blocks'[n].block = n
    BY <2>6
  <2> QED  BY <2>2, <2>4, <2>5, <2>7
<1>8. /\ workers' \in Seq({NewWorker, Returned} \cup {Calculating(blk) : blk \in Block})
      /\ Calculators' = {}
  BY <1>2, <1>5 DEF NewWorker, Calculators
<1>9. TypeOK'
  <2>1. blockCount' \in {0} \cup UNION {0..NumBlocks[i] : i \in Ids}
    BY <1>2, <1>5, <1>7
  <2>2. id' \in {0} \cup Ids /\ handling' \in {<<>>} \cup {<<m>> : m \in ClientMsg}
    BY <1>2, <1>5
  <2>3. abort' \in BOOLEAN /\ blocks' \in Seq(Block)
    BY <1>2, <1>7
  <2> QED  BY <1>1, <1>2, <1>8, <2>1, <2>2, <2>3 DEF TypeOK
<1>10. ~Pending'
  BY <1>2, <1>6 DEF Pending, HasStart
<1>11. StartsOK'
  BY <1>1, <1>2 DEF StartsOK, HasStart
<1>12. id' = lastId /\ lastId \in Nat /\ id \in Nat /\ id' \in Nat /\ id' # 0
  BY <1>1, <1>2, <1>4, <1>5 DEF TypeOK, Ids
<1>13. \A n \in DOMAIN answers : answers[n].id # lastId /\ answers[n].id <= id'
  <2> SUFFICES ASSUME NEW n \in DOMAIN answers
               PROVE  answers[n].id # lastId /\ answers[n].id <= id'
    OBVIOUS
  <2>1. answers[n].id <= id /\ answers[n].id \in Nat
    <3>1. answers[n] \in Answer
      BY <1>1 DEF TypeOK
    <3>2. answers[n].id \in {0} \cup Ids
      BY <3>1 DEF Answer
    <3> QED  BY <1>1, <3>2 DEF IdsOK, Ordered, Ids
  <2> QED  BY <1>6, <1>12, <2>1
<1>14. RequestsOK'
  <2>1. id' <= lastId'
    BY <1>2, <1>12
  <2> QED  BY <1>1, <1>2, <1>6, <1>10, <1>13, <2>1 DEF RequestsOK
<1>15. QueueOK'
  BY <1>1, <1>2, <1>6 DEF QueueOK, HasStart
<1>16. IdsOK'
  <2>1. Ordered(answers', id')
    BY <1>1, <1>2, <1>13 DEF IdsOK, Ordered
  <2> QED  BY <1>2, <1>6, <1>7, <1>8, <2>1 DEF IdsOK
<1>17. CountOK'
  <2>1. QueuedCompleted' = {}
    BY <1>2, <1>6 DEF QueuedCompleted, BlockOps
  <2>2. Outstanding' = blockCount' /\ blockCount' = NumBlocks[id'] /\ blockCount' \in Nat
    BY <1>2, <1>7, <1>8, <2>1, FS_EmptySet DEF Outstanding
  <2> QED  BY <1>12, <2>2 DEF CountOK
<1>18. ReportsOK'
  <2>1. \A op, blk : ~Said(answers', op, id', blk)
    BY <1>2, <1>12, <1>13 DEF Said, Msg
  <2>2. \A op \in BlockOps : \A blk : ~Reported(answers', queue', id', op, blk)
    BY <1>2, <1>6, <2>1 DEF Reported, Said, Msg
  <2>3. CompletedBlocks' = {}
    BY <2>1 DEF CompletedBlocks
  <2>4. Cardinality(CompletedBlocks') = NumBlocks[id'] - blockCount'
    BY <1>2, <1>7, <2>3, FS_EmptySet
  <2>5. \A n \in DOMAIN blocks' :
           /\ \A m \in DOMAIN blocks' : m < n => blocks'[m].block < blocks'[n].block
           /\ \A blk \in Blocks(id)' :
                 Reported(answers', queue', id', "BLOCK_STARTED", blk) => blk < blocks'[n].block
    BY <1>7, <2>2 DEF BlockOps
  <2> QED  BY <1>2, <1>6, <1>8, <2>1, <2>4, <2>5 DEF ReportsOK, BlockOps
<1> QED  BY <1>2, <1>9, <1>11, <1>14, <1>15, <1>16, <1>17, <1>18 DEF CppInv

-----------------------------------------------------------------------------
(* The workers.                                                            *)

\* One report more on the queue.
LEMMA OneReport ==
  ASSUME TypeOK, NEW msg \in Answer, queue' = Append(queue, msg)
  PROVE  /\ queue' \in Seq(QueueMsg) /\ Len(queue) \in Nat
         /\ DOMAIN queue = 1 .. Len(queue) /\ DOMAIN queue' = 1 .. Len(queue) + 1
         /\ queue'[Len(queue) + 1] = msg
         /\ \A n \in DOMAIN queue : n \in DOMAIN queue' /\ queue'[n] = queue[n] /\ n + 0 = n
         /\ \A n \in DOMAIN queue' : n \in DOMAIN queue \/ (n = Len(queue) + 1 /\ queue'[n] = msg)
         /\ \A op, i, blk : Said(queue', op, i, blk)
                               <=> Said(queue, op, i, blk) \/ Msg(op, i, blk) = msg
<1>1. queue \in Seq(QueueMsg) /\ msg \in QueueMsg
  BY DEF TypeOK, QueueMsg
<1>2. /\ queue' \in Seq(QueueMsg) /\ Len(queue) \in Nat
      /\ DOMAIN queue = 1 .. Len(queue) /\ DOMAIN queue' = 1 .. Len(queue) + 1
      /\ queue'[Len(queue) + 1] = msg /\ \A n \in 1 .. Len(queue) : queue'[n] = queue[n]
  BY <1>1, AppendOne
<1>3. /\ \A n \in DOMAIN queue : n \in DOMAIN queue' /\ queue'[n] = queue[n] /\ n + 0 = n
      /\ \A n \in DOMAIN queue' : n \in DOMAIN queue \/ (n = Len(queue) + 1 /\ queue'[n] = msg)
      /\ Len(queue) + 1 \in DOMAIN queue'
  BY <1>2
<1>4. \A op, i, blk : Said(queue', op, i, blk) <=> Said(queue, op, i, blk) \/ Msg(op, i, blk) = msg
  BY <1>2, <1>3 DEF Said
<1> QED  BY <1>2, <1>3, <1>4

\* What is true whatever a worker reports of a block of the calculation that is
\* under way.
LEMMA WorkerKeepsProtocol ==
  ASSUME CppInv, TypeOK', ~Idle, NEW msg \in Answer, queue' = Append(queue, msg),
         UNCHANGED <<clientVars, sessionVars, main, threadVars, id>>,
         handling # <<>> => blocks' = <<>>
  PROVE  StartsOK' /\ RequestsOK' /\ QueueOK'
<1> USE DEF clientVars, sessionVars, wireVars, threadVars
<1>1. TypeOK /\ QueueOK /\ ~Pending
  BY DEF CppInv, RequestsOK
<1>2. /\ \A n \in DOMAIN queue : n + 0 = n
      /\ \A n \in DOMAIN queue' :
            \/ n + 0 \in DOMAIN queue /\ queue'[n] = queue[n + 0]
            \/ queue'[n] = msg
  BY <1>1, OneReport
<1>3. ~IsStart(msg)
  <2>1. msg.op \in {"BLOCK_STARTED", "BLOCK_COMPLETED", "COMPLETED", "ABORTED"}
    BY DEF Answer
  <2> QED  BY <2>1 DEF IsStart
<1>4. \A n \in DOMAIN toServer : n + 0 = n
  BY <1>1 DEF TypeOK
<1> QED  BY <1>1, <1>2, <1>3, <1>4, KeepProtocol DEF QueueOK

LEMMA WorkerTakesStep ==
  ASSUME CppInv, NEW i \in DOMAIN workers, WorkerPop(i), blocks # <<>>
  PROVE  CppInv'
<1> USE DEF clientVars, sessionVars, wireVars, threadVars
<1> DEFINE blk == Head(blocks)
           msg == BlockMsg("BLOCK_STARTED", blk)
<1>1. TypeOK /\ QueueOK /\ IdsOK /\ CountOK
  BY DEF CppInv
<1>2. /\ workers[i].at = "pop" /\ workers' = [workers EXCEPT ![i] = Calculating(blk)]
      /\ blocks' = Tail(blocks) /\ queue' = Append(queue, msg)
      /\ UNCHANGED <<clientVars, sessionVars, main, threadVars,
                     id, blockCount, abort, destroy, crashed>>
  BY DEF WorkerPop, WorkerAt
<1>3. /\ blocks \in Seq(Block) /\ blocks' \in Seq(Block) /\ blk \in Block /\ blk = blocks[1]
      /\ 1 \in DOMAIN blocks /\ Len(blocks') = Len(blocks) - 1 /\ Len(blocks) \in Nat \ {0}
      /\ DOMAIN blocks = 1 .. Len(blocks) /\ DOMAIN blocks' = 1 .. Len(blocks) - 1
      /\ \A n \in DOMAIN blocks' : n + 1 \in DOMAIN blocks /\ blocks'[n] = blocks[n + 1]
  <2>1. blocks \in Seq(Block)
    BY <1>1 DEF TypeOK
  <2> QED  BY <1>2, <2>1, TailOne
<1> HIDE DEF blk, msg
<1>4. /\ blk.id = id /\ id \in Ids /\ blk.block \in Blocks(id)
      /\ msg \in Answer /\ msg = Msg("BLOCK_STARTED", id, blk.block)
      /\ msg.op = "BLOCK_STARTED" /\ msg.id = id
  <2>1. blk.id = id
    BY <1>1, <1>3 DEF IdsOK
  <2>2. "BLOCK_STARTED" \in BlockOps
    BY DEF BlockOps
  <2>3. msg \in Answer /\ msg = Msg("BLOCK_STARTED", blk.id, blk.block)
        /\ blk.id \in Ids /\ blk.block \in Blocks(blk.id)
    BY <1>3, <2>2, BlockAnswer DEF msg
  <2> QED  BY <2>1, <2>3 DEF Msg
<1>5. /\ queue' \in Seq(QueueMsg) /\ Len(queue) \in Nat
      /\ DOMAIN queue = 1 .. Len(queue) /\ DOMAIN queue' = 1 .. Len(queue) + 1
      /\ queue'[Len(queue) + 1] = msg
      /\ \A n \in DOMAIN queue : n \in DOMAIN queue' /\ queue'[n] = queue[n] /\ n + 0 = n
      /\ \A n \in DOMAIN queue' : n \in DOMAIN queue \/ (n = Len(queue) + 1 /\ queue'[n] = msg)
      /\ \A op, j, b : Said(queue', op, j, b) <=> Said(queue, op, j, b) \/ Msg(op, j, b) = msg
  BY <1>1, <1>2, <1>4, OneReport
<1>6. /\ DOMAIN workers' = DOMAIN workers
      /\ \A j \in DOMAIN workers : workers'[j] = IF j = i THEN Calculating(blk) ELSE workers[j]
      /\ Calculating(blk).at = "calculating" /\ Calculating(blk).block = blk
  BY <1>1, <1>2 DEF TypeOK, Calculating
<1>7. TypeOK'
  <2>1. workers' \in Seq({NewWorker, Returned} \cup {Calculating(b) : b \in Block})
    BY <1>1, <1>2, <1>3 DEF TypeOK
  <2> QED  BY <1>1, <1>2, <1>3, <1>5, <2>1 DEF TypeOK, QueueMsg
<1>8. /\ Calculators' = Calculators \cup {i} /\ i \notin Calculators
      /\ workers'[i].block = blk /\ \A j \in Calculators : workers'[j] = workers[j]
  BY <1>2, <1>6 DEF Calculators
<1>9. StartsOK' /\ RequestsOK' /\ QueueOK'
  <2>1. ~Idle /\ handling = <<>>
    BY <1>1 DEF Idle, QueueOK
  <2> QED  BY <1>2, <1>4, <1>7, <2>1, WorkerKeepsProtocol
<1>10. IdsOK'
  BY <1>1, <1>2, <1>3, <1>4, <1>5, <1>8 DEF IdsOK
<1>11. CountOK'
  <2>1. Moves(0, {"BLOCK_COMPLETED"})
    <3>1. msg \in QueueMsg /\ msg.op \notin {"BLOCK_COMPLETED"}
      BY <1>4 DEF QueueMsg
    <3> QED  BY <1>1, <1>2, <3>1, MovesAppend
  <2>2. Cardinality(QueuedCompleted') = Cardinality(QueuedCompleted)
    BY <1>1, <1>5, <2>1, MovesCount
  <2>3. Cardinality(QueuedCompleted) \in Nat /\ IsFiniteSet(Calculators)
    <3>1. queue \in Seq(QueueMsg)
      BY <1>1 DEF TypeOK, QueueMsg
    <3> QED  BY <1>1, <3>1, PlacesFinite DEF QueuedCompleted, Calculators, TypeOK
  <2>4. Cardinality(Calculators') = Cardinality(Calculators) + 1 /\ Cardinality(Calculators) \in Nat
    BY <1>8, <2>3, AddOne
  <2>5. Outstanding' = Outstanding
    BY <1>3, <2>2, <2>3, <2>4 DEF Outstanding
  <2> QED  BY <1>1, <1>2, <2>5 DEF CountOK
<1>12. ASSUME Live'  PROVE ReportsOK'
  <2>1. ReportsOK
    <3>1. Live
      BY <1>2, <1>12 DEF Live, Broken
    <3>2. id # 0
      BY <1>4 DEF Ids
    <3> QED  BY <3>1, <3>2 DEF CppInv
  <2>2. \A op \in BlockOps : \A b : Reported(answers', queue', id', op, b)
                               <=> Reported(answers, queue, id, op, b) \/ Msg(op, id, b) = msg
    BY <1>2, <1>5 DEF Reported
  <2>3. /\ \A b : Msg("BLOCK_STARTED", id, b) = msg <=> b = blk.block
        /\ \A b : Msg("BLOCK_COMPLETED", id, b) # msg
    BY <1>4 DEF Msg
  <2>4. /\ ~Reported(answers, queue, id, "BLOCK_STARTED", blk.block)
        /\ \A n \in DOMAIN blocks' : blk.block < blocks'[n].block
    <3>1. \A b \in Blocks(id) : Reported(answers, queue, id, "BLOCK_STARTED", b) => b < blk.block
      BY <1>3, <2>1 DEF ReportsOK
    <3>2. ~(blk.block < blk.block)
      BY <1>4 DEF Blocks
    <3>3. ASSUME NEW n \in DOMAIN blocks'  PROVE blk.block < blocks'[n].block
      <4>1. n + 1 \in DOMAIN blocks /\ blocks'[n] = blocks[n + 1] /\ 1 < n + 1
        BY <1>3
      <4> QED  BY <1>3, <2>1, <4>1 DEF ReportsOK
    <3> QED  BY <1>4, <3>1, <3>2, <3>3
  <2>5. ~Reported(answers, queue, id, "BLOCK_COMPLETED", blk.block)
    <3>1. CASE Said(answers, "BLOCK_COMPLETED", id, blk.block)
      BY <1>4, <2>1, <2>4, <3>1 DEF ReportsOK, Reported
    <3>2. CASE Said(queue, "BLOCK_COMPLETED", id, blk.block)
      <4>1. PICK n \in DOMAIN queue : queue[n] = Msg("BLOCK_COMPLETED", id, blk.block)
        BY <3>2 DEF Said
      <4>2. queue[n].op = "BLOCK_COMPLETED" /\ queue[n].block = blk.block
        BY <4>1 DEF Msg
      <4> QED  BY <2>1, <2>4, <4>2 DEF ReportsOK, Reported, Said
    <3> QED  BY <3>1, <3>2 DEF Reported
  <2>6. ASSUME NEW n \in DOMAIN blocks'
        PROVE  /\ \A m \in DOMAIN blocks' : m < n => blocks'[m].block < blocks'[n].block
               /\ \A b \in Blocks(id) :
                     Reported(answers', queue', id', "BLOCK_STARTED", b) => b < blocks'[n].block
    <3>1. n + 1 \in DOMAIN blocks /\ blocks'[n] = blocks[n + 1] /\ n \in Nat
      BY <1>3
    <3>2. ASSUME NEW m \in DOMAIN blocks', m < n  PROVE blocks'[m].block < blocks'[n].block
      <4>1. m + 1 \in DOMAIN blocks /\ blocks'[m] = blocks[m + 1] /\ m \in Nat /\ m + 1 < n + 1
        BY <1>3, <3>1, <3>2
      <4> QED  BY <2>1, <3>1, <4>1 DEF ReportsOK
    <3>3. ASSUME NEW b \in Blocks(id), Reported(answers', queue', id', "BLOCK_STARTED", b)
          PROVE  b < blocks'[n].block
      <4>1. Reported(answers, queue, id, "BLOCK_STARTED", b) \/ b = blk.block
        BY <2>2, <2>3, <3>3 DEF BlockOps
      <4> QED  BY <2>1, <2>4, <3>1, <4>1 DEF ReportsOK
    <3> QED  BY <3>2, <3>3
  <2>7. ASSUME NEW j \in Calculators'
        PROVE  /\ Reported(answers', queue', id', "BLOCK_STARTED", workers'[j].block.block)
               /\ ~Reported(answers', queue', id', "BLOCK_COMPLETED", workers'[j].block.block)
               /\ \A k \in Calculators' : workers'[k].block = workers'[j].block => k = j
    <3>1. CASE j = i
      <4>1. \A k \in Calculators : workers[k].block # blk
        BY <2>1, <2>4 DEF ReportsOK
      <4> QED  BY <1>8, <2>2, <2>3, <2>5, <3>1, <4>1 DEF BlockOps
    <3>2. CASE j \in Calculators
      <4>1. workers[j].block # blk
        BY <2>1, <2>4, <3>2 DEF ReportsOK
      <4> QED  BY <1>8, <2>1, <2>2, <2>3, <3>2, <4>1 DEF BlockOps, ReportsOK
    <3> QED  BY <1>8, <3>1, <3>2
  <2>8. ASSUME NEW n \in DOMAIN queue', queue'[n].op \in BlockOps
        PROVE  /\ \A m \in DOMAIN queue' : queue'[m] = queue'[n] => m = n
               /\ ~Said(answers', queue'[n].op, id', queue'[n].block)
    <3>1. /\ \A k \in DOMAIN queue : queue[k] # msg
          /\ ~Said(answers, "BLOCK_STARTED", id, blk.block)
      BY <1>4, <2>4 DEF Reported, Said
    <3>2. msg.block = blk.block
      BY <1>4 DEF Msg
    <3>3. CASE n \in DOMAIN queue
      BY <1>2, <1>5, <2>1, <2>8, <3>1, <3>3 DEF ReportsOK
    <3>4. CASE n = Len(queue) + 1 /\ queue'[n] = msg
      BY <1>2, <1>4, <1>5, <3>1, <3>2, <3>4
    <3> QED  BY <1>5, <3>3, <3>4
  <2>9. ASSUME NEW n \in DOMAIN queue', queue'[n].op = "BLOCK_COMPLETED"
        PROVE  \/ Said(answers', "BLOCK_STARTED", id', queue'[n].block)
               \/ \E m \in DOMAIN queue' :
                     m < n /\ queue'[m] = Msg("BLOCK_STARTED", id', queue'[n].block)
    <3>1. n \in DOMAIN queue /\ queue'[n] = queue[n]
      BY <1>4, <1>5, <2>9
    <3> QED  BY <1>2, <1>5, <2>1, <2>9, <3>1 DEF ReportsOK
  <2>10. CompletedBlocks' = CompletedBlocks
    BY <1>2 DEF CompletedBlocks
  <2> QED  BY <1>2, <2>1, <2>6, <2>7, <2>8, <2>9, <2>10 DEF ReportsOK
<1>13. Sound(answers)'
  BY <1>2 DEF CppInv
<1> QED  BY <1>7, <1>9, <1>10, <1>11, <1>12, <1>13 DEF CppInv

LEMMA WorkerCompletesStep ==
  ASSUME CppInv, NEW i \in DOMAIN workers, WorkerCompletes(i)
  PROVE  CppInv'
<1> USE DEF clientVars, sessionVars, wireVars, threadVars
<1> DEFINE blk == workers[i].block
           msg == BlockMsg("BLOCK_COMPLETED", blk)
<1>1. TypeOK /\ QueueOK /\ IdsOK /\ CountOK
  BY DEF CppInv
<1>2. /\ workers[i].at = "calculating" /\ workers' = [workers EXCEPT ![i] = NewWorker]
      /\ queue' = Append(queue, msg)
      /\ UNCHANGED <<clientVars, sessionVars, main, threadVars,
                     id, blockCount, abort, destroy, blocks, crashed>>
  BY DEF WorkerCompletes, WorkerAt
<1>3. i \in Calculators /\ blk \in Block
  <2>1. workers[i] \in {NewWorker, Returned} \cup {Calculating(b) : b \in Block}
    BY <1>1 DEF TypeOK
  <2>2. NewWorker.at # "calculating" /\ Returned.at # "calculating"
    BY DEF NewWorker, Returned
  <2>3. PICK b \in Block : workers[i] = Calculating(b)
    BY <1>2, <2>1, <2>2
  <2>4. blk = b
    BY <2>3 DEF Calculating
  <2> QED  BY <1>2, <2>4 DEF Calculators
<1> HIDE DEF blk, msg
<1>4. /\ blk.id = id /\ id \in Ids /\ blk.block \in Blocks(id)
      /\ msg \in Answer /\ msg = Msg("BLOCK_COMPLETED", id, blk.block)
      /\ msg.op = "BLOCK_COMPLETED" /\ msg.id = id /\ msg.block = blk.block
  <2>1. blk.id = id
    BY <1>1, <1>3 DEF IdsOK, blk
  <2>2. "BLOCK_COMPLETED" \in BlockOps
    BY DEF BlockOps
  <2>3. msg \in Answer /\ msg = Msg("BLOCK_COMPLETED", blk.id, blk.block)
        /\ blk.id \in Ids /\ blk.block \in Blocks(blk.id)
    BY <1>3, <2>2, BlockAnswer DEF msg
  <2> QED  BY <2>1, <2>3 DEF Msg
<1>5. /\ queue' \in Seq(QueueMsg) /\ Len(queue) \in Nat
      /\ DOMAIN queue = 1 .. Len(queue) /\ DOMAIN queue' = 1 .. Len(queue) + 1
      /\ queue'[Len(queue) + 1] = msg
      /\ \A n \in DOMAIN queue : n \in DOMAIN queue' /\ queue'[n] = queue[n] /\ n + 0 = n
      /\ \A n \in DOMAIN queue' : n \in DOMAIN queue \/ (n = Len(queue) + 1 /\ queue'[n] = msg)
      /\ \A op, j, b : Said(queue', op, j, b) <=> Said(queue, op, j, b) \/ Msg(op, j, b) = msg
  BY <1>1, <1>2, <1>4, OneReport
<1>6. /\ DOMAIN workers' = DOMAIN workers
      /\ \A j \in DOMAIN workers : workers'[j] = IF j = i THEN NewWorker ELSE workers[j]
      /\ NewWorker.at # "calculating"
  BY <1>1, <1>2 DEF TypeOK, NewWorker
<1>7. TypeOK'
  <2>1. workers' \in Seq({NewWorker, Returned} \cup {Calculating(b) : b \in Block})
    BY <1>1, <1>2 DEF TypeOK
  <2> QED  BY <1>1, <1>2, <1>5, <2>1 DEF TypeOK, QueueMsg
<1>8. Calculators' = Calculators \ {i} /\ \A j \in Calculators' : workers'[j] = workers[j]
  BY <1>6 DEF Calculators
<1>9. StartsOK' /\ RequestsOK' /\ QueueOK'
  <2>1. ~Idle /\ (handling # <<>> => blocks' = <<>>)
    BY <1>1, <1>2, <1>3 DEF Idle, QueueOK
  <2> QED  BY <1>2, <1>4, <1>7, <2>1, WorkerKeepsProtocol
<1>10. IdsOK'
  BY <1>1, <1>2, <1>4, <1>5, <1>8 DEF IdsOK
<1>11. CountOK'
  <2>1. IsFiniteSet(QueuedCompleted) /\ IsFiniteSet(Calculators)
        /\ QueuedCompleted \subseteq DOMAIN queue
    <3>1. queue \in Seq(QueueMsg)
      BY <1>1 DEF TypeOK, QueueMsg
    <3> QED  BY <1>1, <3>1, PlacesFinite DEF QueuedCompleted, Calculators, TypeOK
  <2>2. /\ QueuedCompleted' = QueuedCompleted \cup {Len(queue) + 1}
        /\ Len(queue) + 1 \notin QueuedCompleted
    BY <1>4, <1>5, <2>1 DEF QueuedCompleted
  <2>3. Cardinality(QueuedCompleted') = Cardinality(QueuedCompleted) + 1
        /\ Cardinality(QueuedCompleted) \in Nat
    BY <2>1, <2>2, AddOne
  <2>4. /\ Cardinality(Calculators') = Cardinality(Calculators) - 1
        /\ Cardinality(Calculators) \in Nat /\ Cardinality(Calculators') \in Nat
    BY <1>3, <1>8, <2>1, RemoveOne
  <2>5. Len(blocks) \in Nat
    BY <1>1 DEF TypeOK
  <2>6. Outstanding' = Outstanding
    BY <1>2, <2>3, <2>4, <2>5 DEF Outstanding
  <2> QED  BY <1>1, <1>2, <2>6 DEF CountOK
<1>12. ASSUME Live'  PROVE ReportsOK'
  <2>1. ReportsOK
    <3>1. Live
      BY <1>2, <1>12 DEF Live, Broken
    <3>2. id # 0
      BY <1>4 DEF Ids
    <3> QED  BY <3>1, <3>2 DEF CppInv
  <2>2. \A op \in BlockOps : \A b : Reported(answers', queue', id', op, b)
                               <=> Reported(answers, queue, id, op, b) \/ Msg(op, id, b) = msg
    BY <1>2, <1>5 DEF Reported
  <2>3. /\ \A b : Msg("BLOCK_COMPLETED", id, b) = msg <=> b = blk.block
        /\ \A b : Msg("BLOCK_STARTED", id, b) # msg
    BY <1>4 DEF Msg
  <2>4. /\ Reported(answers, queue, id, "BLOCK_STARTED", blk.block)
        /\ ~Reported(answers, queue, id, "BLOCK_COMPLETED", blk.block)
        /\ \A j \in Calculators : workers[j].block = blk => j = i
    BY <1>3, <2>1 DEF ReportsOK, blk
  <2>5. \A n \in DOMAIN blocks' :
           /\ \A m \in DOMAIN blocks' : m < n => blocks'[m].block < blocks'[n].block
           /\ \A b \in Blocks(id) :
                 Reported(answers', queue', id', "BLOCK_STARTED", b) => b < blocks'[n].block
    BY <1>2, <2>1, <2>2, <2>3 DEF ReportsOK, BlockOps
  <2>6. ASSUME NEW j \in Calculators'
        PROVE  /\ Reported(answers', queue', id', "BLOCK_STARTED", workers'[j].block.block)
               /\ ~Reported(answers', queue', id', "BLOCK_COMPLETED", workers'[j].block.block)
               /\ \A k \in Calculators' : workers'[k].block = workers'[j].block => k = j
    <3>1. j \in Calculators /\ workers'[j] = workers[j] /\ j # i
      BY <1>8
    <3>2. workers[j].block.block # blk.block
      <4>1. workers[j].block \in Block /\ workers[j].block.id = id
        <5>1. workers[j] \in {NewWorker, Returned} \cup {Calculating(b) : b \in Block}
              /\ workers[j].at = "calculating"
          BY <1>1, <3>1 DEF TypeOK, Calculators
        <5>2. NewWorker.at # "calculating" /\ Returned.at # "calculating"
          BY DEF NewWorker, Returned
        <5>3. PICK b \in Block : workers[j] = Calculating(b)
          BY <5>1, <5>2
        <5>4. workers[j].block = b
          BY <5>3 DEF Calculating
        <5> QED  BY <1>1, <3>1, <5>4 DEF IdsOK
      <4>2. \A b, c \in Block : b.id = c.id /\ b.block = c.block => b = c
        BY DEF Block
      <4> QED  BY <1>3, <1>4, <2>4, <3>1, <4>1, <4>2
    <3> QED  BY <1>8, <2>1, <2>2, <2>3, <3>1, <3>2 DEF BlockOps, ReportsOK
  <2>7. ASSUME NEW n \in DOMAIN queue', queue'[n].op \in BlockOps
        PROVE  /\ \A m \in DOMAIN queue' : queue'[m] = queue'[n] => m = n
               /\ ~Said(answers', queue'[n].op, id', queue'[n].block)
    <3>1. /\ \A k \in DOMAIN queue : queue[k] # msg
          /\ ~Said(answers, "BLOCK_COMPLETED", id, blk.block)
      BY <1>4, <2>4 DEF Reported, Said
    <3>2. CASE n \in DOMAIN queue
      BY <1>2, <1>5, <2>1, <2>7, <3>1, <3>2 DEF ReportsOK
    <3>3. CASE n = Len(queue) + 1 /\ queue'[n] = msg
      BY <1>2, <1>4, <1>5, <3>1, <3>3
    <3> QED  BY <1>5, <3>2, <3>3
  <2>8. ASSUME NEW n \in DOMAIN queue', queue'[n].op = "BLOCK_COMPLETED"
        PROVE  \/ Said(answers', "BLOCK_STARTED", id', queue'[n].block)
               \/ \E m \in DOMAIN queue' :
                     m < n /\ queue'[m] = Msg("BLOCK_STARTED", id', queue'[n].block)
    <3>1. CASE n \in DOMAIN queue
      BY <1>2, <1>5, <2>1, <2>8, <3>1 DEF ReportsOK
    <3>2. CASE n = Len(queue) + 1 /\ queue'[n] = msg
      <4>1. CASE Said(queue, "BLOCK_STARTED", id, blk.block)
        <5>1. PICK m \in DOMAIN queue : queue[m] = Msg("BLOCK_STARTED", id, blk.block)
          BY <4>1 DEF Said
        <5>2. m \in DOMAIN queue' /\ queue'[m] = queue[m] /\ m < n
          BY <1>5, <3>2
        <5> QED  BY <1>2, <1>4, <3>2, <5>1, <5>2
      <4> QED  BY <1>2, <1>4, <2>4, <3>2, <4>1 DEF Reported
    <3> QED  BY <1>5, <3>1, <3>2
  <2>9. CompletedBlocks' = CompletedBlocks
    BY <1>2 DEF CompletedBlocks
  <2> QED  BY <1>2, <2>1, <2>5, <2>6, <2>7, <2>8, <2>9 DEF ReportsOK
<1>13. Sound(answers)'
  BY <1>2 DEF CppInv
<1> QED  BY <1>7, <1>9, <1>10, <1>11, <1>12, <1>13 DEF CppInv

-----------------------------------------------------------------------------
(* The answers: the dispatcher thread sends what the workers have reported. *)

\* The report it takes from the queue.
LEMMA TakenReport ==
  ASSUME CppInv, NEW op \in BlockOps, Pop({op})
  PROVE  /\ Head(queue) \in Answer /\ Head(queue).op = op /\ Head(queue).id = id /\ id \in Ids
         /\ Head(queue).block \in Blocks(id)
         /\ Head(queue) = Msg(op, id, Head(queue).block)
<1> DEFINE h == Head(queue)
<1>1. h \in QueueMsg /\ h.op = op /\ h = queue[1] /\ 1 \in DOMAIN queue
  BY PopMoves DEF CppInv
<1>2. h.id = id
  BY <1>1 DEF CppInv, IdsOK
<1> HIDE DEF h
<1>3. h \in Answer
  BY <1>1 DEF QueueMsg, ClientMsg, NoMessage, BlockOps
<1>4. PICK i \in Ids : h \in [op : {"BLOCK_STARTED", "BLOCK_COMPLETED"}, id : {i}, block : Blocks(i)]
  BY <1>1, <1>3 DEF Answer, BlockOps
<1>5. h.id = i /\ h.block \in Blocks(i) /\ h = [op |-> h.op, id |-> h.id, block |-> h.block]
  BY <1>4
<1> QED  BY <1>1, <1>2, <1>3, <1>5 DEF Msg, h

\* It is said now, and no longer on the queue: reported as before.
LEMMA SentReports ==
  ASSUME CppInv, ReportsOK, NEW op \in BlockOps, Pop({op}),
         UNCHANGED <<id, blocks, workers>>,
         \A o \in BlockOps : \A b : Said(answers', o, id, b)
                                       <=> Said(answers, o, id, b) \/ Msg(o, id, b) = Head(queue),
         Cardinality(CompletedBlocks') = NumBlocks[id] - blockCount'
  PROVE  ReportsOK'
<1> DEFINE h == Head(queue)
<1>1. /\ DOMAIN queue \subseteq Nat /\ 1 \in DOMAIN queue /\ queue[1] = h
      /\ queue' \in Seq(QueueMsg)
      /\ \A n \in DOMAIN queue' : n + 1 \in DOMAIN queue /\ queue'[n] = queue[n + 1]
      /\ \A n \in DOMAIN queue : n = 1 \/ (n - 1 \in DOMAIN queue' /\ queue'[n - 1] = queue[n])
  BY PopMoves DEF CppInv
<1>2. /\ h.op = op /\ h.id = id /\ id \in Ids /\ h.block \in Blocks(id)
      /\ h = Msg(op, id, h.block)
  BY TakenReport
<1> HIDE DEF h
<1>3. DOMAIN queue' \subseteq Nat \ {0}
  BY <1>1
<1>4. \A o \in BlockOps : \A b :
         Said(answers', o, id, b) <=> Said(answers, o, id, b) \/ Msg(o, id, b) = h
  BY DEF h
<1>5. \A o, b : Said(queue, o, id, b) <=> Said(queue', o, id, b) \/ Msg(o, id, b) = h
  BY <1>1 DEF Said
<1>6. \A o \in BlockOps : \A b :
         Reported(answers', queue', id', o, b) <=> Reported(answers, queue, id, o, b)
  BY <1>4, <1>5 DEF Reported
<1>7. Calculators' = Calculators
  BY DEF Calculators
<1>8. \A n \in DOMAIN queue' : queue'[n] # h
  <2> SUFFICES ASSUME NEW n \in DOMAIN queue', queue'[n] = h  PROVE FALSE
    OBVIOUS
  <2>1. n + 1 \in DOMAIN queue /\ queue[n + 1] = queue[1]
    BY <1>1
  <2>2. n + 1 = 1
    BY <1>1, <1>2, <2>1 DEF ReportsOK
  <2> QED  BY <1>3, <2>2
<1>9. ASSUME NEW n \in DOMAIN queue', queue'[n].op \in BlockOps
      PROVE  queue'[n] = Msg(queue'[n].op, id, queue'[n].block)
  <2>1. queue'[n] \in QueueMsg /\ queue'[n].id = id
    BY <1>1, <1>9 DEF CppInv, IdsOK
  <2> DEFINE msg == queue'[n]
  <2> HIDE DEF msg
  <2>2. msg \in QueueMsg /\ msg.id = id /\ msg.op \in BlockOps
    BY <1>9, <2>1 DEF msg
  <2>3. msg \in Answer
    BY <2>2 DEF QueueMsg, ClientMsg, NoMessage, BlockOps
  <2>4. PICK i \in Ids : msg \in [op : {"BLOCK_STARTED", "BLOCK_COMPLETED"}, id : {i}, block : Blocks(i)]
    BY <2>2, <2>3 DEF Answer, BlockOps
  <2>5. msg = [op |-> msg.op, id |-> msg.id, block |-> msg.block]
    BY <2>4
  <2> QED  BY <2>2, <2>5 DEF Msg, msg
<1>10. \A n \in DOMAIN blocks' :
           /\ \A m \in DOMAIN blocks' : m < n => blocks'[m].block < blocks'[n].block
           /\ \A b \in Blocks(id) :
                 Reported(answers', queue', id', "BLOCK_STARTED", b) => b < blocks'[n].block
  BY <1>6 DEF ReportsOK, BlockOps
<1>11. \A j \in Calculators' :
           /\ Reported(answers', queue', id', "BLOCK_STARTED", workers'[j].block.block)
           /\ ~Reported(answers', queue', id', "BLOCK_COMPLETED", workers'[j].block.block)
           /\ \A k \in Calculators' : workers'[k].block = workers'[j].block => k = j
  BY <1>6, <1>7 DEF ReportsOK, BlockOps
<1>12. ASSUME NEW n \in DOMAIN queue', queue'[n].op \in BlockOps
       PROVE  /\ \A m \in DOMAIN queue' : queue'[m] = queue'[n] => m = n
              /\ ~Said(answers', queue'[n].op, id', queue'[n].block)
  <2>1. n + 1 \in DOMAIN queue /\ queue'[n] = queue[n + 1] /\ queue[n + 1].op \in BlockOps
    BY <1>1, <1>12
  <2>2. ASSUME NEW m \in DOMAIN queue', queue'[m] = queue'[n]  PROVE m = n
    <3>1. m + 1 \in DOMAIN queue /\ queue[m + 1] = queue[n + 1]
      BY <1>1, <2>1, <2>2
    <3>2. m + 1 = n + 1
      BY <2>1, <3>1 DEF ReportsOK
    <3> QED  BY <1>3, <3>2
  <2>3. ~Said(answers, queue'[n].op, id, queue'[n].block)
    BY <2>1 DEF ReportsOK
  <2> QED  BY <1>4, <1>8, <1>9, <1>12, <2>2, <2>3
<1>13. ASSUME NEW n \in DOMAIN queue', queue'[n].op = "BLOCK_COMPLETED"
       PROVE  \/ Said(answers', "BLOCK_STARTED", id', queue'[n].block)
              \/ \E m \in DOMAIN queue' :
                    m < n /\ queue'[m] = Msg("BLOCK_STARTED", id', queue'[n].block)
  <2>1. n + 1 \in DOMAIN queue /\ queue'[n] = queue[n + 1]
    BY <1>1
  <2>2. CASE Said(answers, "BLOCK_STARTED", id, queue[n + 1].block)
    BY <1>4, <2>1, <2>2 DEF BlockOps
  <2>3. CASE \E m \in DOMAIN queue :
                m < n + 1 /\ queue[m] = Msg("BLOCK_STARTED", id, queue[n + 1].block)
    <3>1. PICK m \in DOMAIN queue :
                m < n + 1 /\ queue[m] = Msg("BLOCK_STARTED", id, queue[n + 1].block)
      BY <2>3
    <3>2. CASE m = 1
      BY <1>1, <1>4, <2>1, <3>1, <3>2 DEF BlockOps
    <3>3. CASE m # 1
      <4>1. m - 1 \in DOMAIN queue' /\ queue'[m - 1] = queue[m] /\ m - 1 < n
        BY <1>1, <1>3, <3>1, <3>3
      <4> QED  BY <2>1, <3>1, <4>1
    <3> QED  BY <3>2, <3>3
  <2> QED  BY <1>13, <2>1, <2>2, <2>3 DEF ReportsOK
<1>14. ASSUME NEW b \in Blocks(id), Said(answers', "BLOCK_COMPLETED", id, b)
       PROVE  Said(answers', "BLOCK_STARTED", id, b)
  <2>1. CASE Said(answers, "BLOCK_COMPLETED", id, b)
    BY <1>4, <2>1 DEF BlockOps, ReportsOK
  <2>2. CASE Msg("BLOCK_COMPLETED", id, b) = h
    <3>1. queue[1].op = "BLOCK_COMPLETED" /\ queue[1].block = b
      BY <1>1, <2>2 DEF Msg
    <3>2. ~(\E m \in DOMAIN queue : m < 1)
      BY <1>1 DEF CppInv, TypeOK
    <3>3. Said(answers, "BLOCK_STARTED", id, b)
      BY <1>1, <3>1, <3>2 DEF ReportsOK
    <3> QED  BY <1>4, <3>3 DEF BlockOps
  <2> QED  BY <1>4, <1>14, <2>1, <2>2 DEF BlockOps
<1>15. id' = id /\ Blocks(id)' = Blocks(id)
  BY DEF Blocks
<1> QED  BY <1>10, <1>11, <1>12, <1>13, <1>14, <1>15 DEF ReportsOK

\* Whatever is sent of the calculation that is under way.
LEMMA SentProtocol ==
  ASSUME CppInv, TypeOK', NEW op \in BlockOps, Pop({op}),
         UNCHANGED <<clientVars, wireVars, socket, main, handling, id, blocks, workers>>,
         thread' \in {"exited", "pop"}, Ordered(answers', id),
         \A n \in DOMAIN answers' : IsEnd(answers'[n]) =>
            (n \in DOMAIN answers /\ answers'[n] = answers[n]) \/ Idle'
  PROVE  StartsOK' /\ RequestsOK' /\ QueueOK' /\ IdsOK'
<1> USE DEF clientVars, wireVars
<1>1. /\ thread = "pop"
      /\ \A n \in DOMAIN queue' : n + 1 \in DOMAIN queue /\ queue'[n] = queue[n + 1]
  BY PopMoves DEF CppInv
<1>2. Idle' = Idle /\ Calculators' = Calculators
  BY DEF Idle, Calculators
<1>3. \A n \in DOMAIN toServer : n + 0 = n
  BY DEF CppInv, TypeOK
<1>4. /\ main' = "receive" <=> socket' = "open"
      /\ thread' = "join" <=> handling' # <<>>
      /\ handling' # <<>> => blocks' = <<>>
  BY <1>1 DEF CppInv, QueueOK
<1>5. StartsOK' /\ RequestsOK' /\ QueueOK'
  BY <1>1, <1>2, <1>3, <1>4, KeepProtocol
<1>6. IdsOK'
  BY <1>1, <1>2 DEF CppInv, IdsOK
<1> QED  BY <1>5, <1>6

\* BLOCK_STARTED does not count ...
LEMMA StartedCount ==
  ASSUME CppInv, Pop({"BLOCK_STARTED"}), UNCHANGED <<main, id, blockCount, abort, blocks, workers>>
  PROVE  CountOK'
<1>1. /\ queue # <<>> /\ queue' = Tail(queue) /\ queue' \in Seq(QueueMsg)
      /\ Head(queue).op = "BLOCK_STARTED"
  BY PopMoves DEF CppInv
<1>2. Moves(1, {"BLOCK_COMPLETED"})
  BY <1>1, MovesTail DEF CppInv
<1>3. Cardinality(QueuedCompleted') = Cardinality(QueuedCompleted)
  BY <1>1, <1>2, MovesCount DEF CppInv
<1>4. Calculators' = Calculators
  BY DEF Calculators
<1> QED  BY <1>3, <1>4 DEF CppInv, CountOK, Outstanding

\* ... and BLOCK_COMPLETED does: it was outstanding, so the count is not zero.
LEMMA CompletedCount ==
  ASSUME CppInv, Pop({"BLOCK_COMPLETED"}), UNCHANGED <<main, id, abort, blocks, workers>>,
         blockCount' = (blockCount + 2^CountWidth - 1) % 2^CountWidth
  PROVE  /\ 0 < blockCount /\ blockCount <= NumBlocks[id] /\ blockCount' = blockCount - 1
         /\ blockCount \in Nat /\ NumBlocks[id] \in Nat
         /\ CountOK' /\ (blockCount = 1 => Idle')
<1> DEFINE f == [n \in QueuedCompleted \ {1} |-> n - 1]
<1>1. TypeOK /\ CountOK
  BY DEF CppInv
<1>2. /\ queue \in Seq(QueueMsg) /\ queue' \in Seq(QueueMsg)
      /\ DOMAIN queue \subseteq Nat /\ 1 \in DOMAIN queue /\ queue[1].op = "BLOCK_COMPLETED"
      /\ \A n \in DOMAIN queue' : n + 1 \in DOMAIN queue /\ queue'[n] = queue[n + 1]
      /\ \A n \in DOMAIN queue : n = 1 \/ (n - 1 \in DOMAIN queue' /\ queue'[n - 1] = queue[n])
  BY <1>1, PopMoves
<1>3. DOMAIN queue' \subseteq Nat \ {0}
  BY <1>2
<1>4. 1 \in QueuedCompleted /\ QueuedCompleted \subseteq DOMAIN queue
  BY <1>2 DEF QueuedCompleted
<1>5. IsFiniteSet(QueuedCompleted) /\ IsFiniteSet(Calculators)
  BY <1>1, <1>2, <1>4, PlacesFinite DEF Calculators, TypeOK
<1>6. /\ IsFiniteSet(QueuedCompleted \ {1})
      /\ Cardinality(QueuedCompleted) \in Nat /\ Cardinality(QueuedCompleted \ {1}) \in Nat
      /\ Cardinality(QueuedCompleted \ {1}) = Cardinality(QueuedCompleted) - 1
  BY <1>4, <1>5, RemoveOne
<1>7. Cardinality(QueuedCompleted') = Cardinality(QueuedCompleted \ {1})
  <2>1. f \in [QueuedCompleted \ {1} -> QueuedCompleted']
    BY <1>2 DEF QueuedCompleted
  <2>2. \A m, n \in QueuedCompleted \ {1} : f[m] = f[n] => m = n
    BY <1>2, <1>4
  <2>3. ASSUME NEW n \in QueuedCompleted'
        PROVE  \E m \in QueuedCompleted \ {1} : f[m] = n
    <3>1. n \in DOMAIN queue' /\ queue'[n].op = "BLOCK_COMPLETED" /\ n \in Nat \ {0}
      BY <1>3 DEF QueuedCompleted
    <3>2. n + 1 \in QueuedCompleted \ {1}
      BY <1>2, <3>1 DEF QueuedCompleted
    <3>3. f[n + 1] = n
      BY <3>1, <3>2
    <3> QED  BY <3>2, <3>3
  <2>4. f \in Bijection(QueuedCompleted \ {1}, QueuedCompleted')
    BY <2>1, <2>2, <2>3 DEF Bijection, Injection, Surjection, IsInjective
  <2>5. ExistsBijection(QueuedCompleted \ {1}, QueuedCompleted')
    BY <2>4 DEF ExistsBijection
  <2> QED  BY <1>6, <2>5, FS_Bijection
<1>8. Len(blocks) \in Nat /\ blockCount \in Nat /\ Cardinality(Calculators) \in Nat
      /\ Calculators' = Calculators
  <2>1. Len(blocks) \in Nat
    BY <1>1 DEF TypeOK
  <2>2. blockCount \in Nat
    BY <1>1, CppDispatcherAssumption DEF TypeOK, Ids
  <2>3. Cardinality(Calculators) \in Nat
    BY <1>5, FS_CardinalityType
  <2> QED  BY <2>1, <2>2, <2>3 DEF Calculators
<1>9. Outstanding' = Outstanding - 1 /\ Outstanding \in Nat /\ 0 < Outstanding
      /\ (Outstanding = 1 => Len(blocks) = 0 /\ Cardinality(Calculators) = 0)
  <2>1. Outstanding' = Len(blocks) + Cardinality(Calculators) + Cardinality(QueuedCompleted \ {1})
    BY <1>7, <1>8 DEF Outstanding
  <2>2. Outstanding = Len(blocks) + Cardinality(Calculators) + Cardinality(QueuedCompleted)
    BY DEF Outstanding
  <2> QED  BY <1>6, <1>8, <2>1, <2>2
<1>10. 0 < blockCount /\ id # 0
  BY <1>1, <1>8, <1>9 DEF CountOK
<1>11. id \in Ids /\ NumBlocks[id] \in Nat /\ blockCount <= NumBlocks[id]
  BY <1>1, <1>10, CppDispatcherAssumption DEF TypeOK, Ids, CountOK
<1>12. blockCount' = blockCount - 1
  BY <1>8, <1>10, <1>11, CountDown
<1>13. CountOK'
  BY <1>1, <1>8, <1>9, <1>10, <1>11, <1>12 DEF CountOK
<1>14. ASSUME blockCount = 1  PROVE Idle'
  <2>1. Outstanding = 1
    BY <1>1, <1>9, <1>14 DEF CountOK
  <2>2. blocks = <<>>
    BY <1>1, <1>9, <2>1 DEF TypeOK
  <2>3. Calculators = {}
    BY <1>5, <1>9, <2>1, FS_EmptySet
  <2> QED  BY <1>8, <2>2, <2>3 DEF Idle
<1> QED  BY <1>8, <1>10, <1>11, <1>12, <1>13, <1>14

LEMMA OnBlockStartedStep ==
  ASSUME CppInv, OnBlockStarted
  PROVE  CppInv'
<1> USE DEF clientVars, wireVars, dispatcherVars
<1> DEFINE h == Head(queue)
<1>1. TypeOK /\ IdsOK /\ CountOK
  BY DEF CppInv
<1>2. /\ Pop({"BLOCK_STARTED"}) /\ "BLOCK_STARTED" \in BlockOps
      /\ Send(<<h>>) /\ thread' \in {"exited", "pop"}
      /\ UNCHANGED <<clientVars, wireVars, socket, main, handling, dispatcherVars>>
  BY DEF OnBlockStarted, LoopAgain, BlockOps
<1>3. /\ crashed = "no" /\ queue # <<>> /\ queue' = Tail(queue) /\ queue' \in Seq(QueueMsg)
      /\ 1 \in DOMAIN queue /\ h = queue[1]
  BY <1>1, <1>2, PopMoves
<1>4. h \in Answer /\ h.op = "BLOCK_STARTED" /\ h.id = id /\ id \in Ids
      /\ h.block \in Blocks(id) /\ h = Msg("BLOCK_STARTED", id, h.block)
  BY <1>2, TakenReport
<1>5. /\ crashed' \in {"no", "lost", "closed"}
      /\ (Live /\ answers' = answers \o <<h>>) \/ (~Live /\ answers' = answers)
  BY <1>2, <1>3, SendCases
<1> HIDE DEF h
<1>6. answers \in Seq(Answer) /\ id \in Nat /\ id # 0 /\ Ordered(answers, id) /\ Sound(answers)
  BY <1>1, <1>4 DEF TypeOK, IdsOK, CppInv, Ids
<1>7. CASE Live
  <2>1. ReportsOK
    BY <1>6, <1>7 DEF CppInv
  <2>2. answers' = Append(answers, h) /\ Len(answers') = Len(answers) + 1
    BY <1>4, <1>5, <1>6, <1>7
  <2>3. \A n \in DOMAIN answers : answers[n] # h
    <3>1. ~Said(answers, "BLOCK_STARTED", id, h.block)
      BY <1>2, <1>3, <1>4, <2>1 DEF ReportsOK
    <3> QED  BY <1>4, <3>1 DEF Said
  <2>4. /\ answers' \in Seq(Answer) /\ Ordered(answers', id) /\ Sound(answers')
        /\ \A op, j, b : Said(answers', op, j, b) <=> Said(answers, op, j, b) \/ Msg(op, j, b) = h
        /\ \A n \in DOMAIN answers' :
              (n \in DOMAIN answers /\ answers'[n] = answers[n]) \/ answers'[n] = h
    BY <1>4, <1>6, <2>2, <2>3, SendOne
  <2>5. TypeOK'
    <3>1. received' \in 0..Len(answers')
      BY <1>1, <1>2, <1>6, <2>2 DEF TypeOK
    <3> QED  BY <1>1, <1>2, <1>3, <1>5, <2>4, <3>1 DEF TypeOK, QueueMsg
  <2>6. \A n \in DOMAIN answers' : IsEnd(answers'[n]) =>
            (n \in DOMAIN answers /\ answers'[n] = answers[n]) \/ Idle'
    BY <1>4, <2>4 DEF IsEnd
  <2>7. StartsOK' /\ RequestsOK' /\ QueueOK' /\ IdsOK'
    BY <1>2, <2>4, <2>5, <2>6, SentProtocol
  <2>8. Cardinality(CompletedBlocks') = NumBlocks[id] - blockCount'
    <3>1. \A b : Msg("BLOCK_COMPLETED", id, b) # h
      BY <1>4 DEF Msg
    <3>2. CompletedBlocks' = CompletedBlocks
      BY <1>2, <2>4, <3>1 DEF CompletedBlocks, Blocks
    <3> QED  BY <1>2, <1>6, <2>1, <3>2 DEF ReportsOK
  <2>9. ReportsOK'
    BY <1>2, <2>1, <2>4, <2>8, SentReports DEF h
  <2> QED  BY <1>1, <1>2, <1>3, <1>4, <2>4, <2>5, <2>7, <2>9, StartedCount DEF CppInv, h
<1>8. CASE ~Live
  <2>1. answers' = answers
    BY <1>5, <1>8
  <2>2. TypeOK'
    BY <1>1, <1>2, <1>3, <1>5, <2>1 DEF TypeOK, QueueMsg
  <2>3. StartsOK' /\ RequestsOK' /\ QueueOK' /\ IdsOK'
    BY <1>2, <1>6, <2>1, <2>2, SentProtocol
  <2>4. ~Live'
    BY <1>2, <1>8 DEF Live, Broken
  <2> QED  BY <1>1, <1>2, <1>3, <1>4, <1>6, <2>1, <2>2, <2>3, <2>4, StartedCount DEF CppInv, h
<1> QED  BY <1>7, <1>8

LEMMA OnBlockCompletedStep ==
  ASSUME CppInv, OnBlockCompleted
  PROVE  CppInv'
<1> USE DEF clientVars, wireVars
<1> DEFINE h == Head(queue)
           last == EndMsg("COMPLETED", id)
<1>1. TypeOK /\ IdsOK /\ CountOK
  BY DEF CppInv
<1>2. /\ Pop({"BLOCK_COMPLETED"}) /\ "BLOCK_COMPLETED" \in BlockOps
      /\ Send(IF blockCount = 1 THEN <<h, last>> ELSE <<h>>) /\ thread' \in {"exited", "pop"}
      /\ blockCount' = (blockCount + 2^CountWidth - 1) % 2^CountWidth
      /\ UNCHANGED <<clientVars, wireVars, socket, main, handling,
                     id, abort, destroy, blocks, workers>>
  BY DEF OnBlockCompleted, LoopAgain, IsLast, BlockOps
<1>3. /\ crashed = "no" /\ queue # <<>> /\ queue' \in Seq(QueueMsg)
      /\ 1 \in DOMAIN queue /\ h = queue[1]
  BY <1>1, <1>2, PopMoves
<1>4. h \in Answer /\ h.op = "BLOCK_COMPLETED" /\ h.id = id /\ id \in Ids
      /\ h.block \in Blocks(id) /\ h = Msg("BLOCK_COMPLETED", id, h.block)
  BY <1>2, TakenReport
<1>5. /\ crashed' \in {"no", "lost", "closed"}
      /\ \/ Live /\ answers' = answers \o (IF blockCount = 1 THEN <<h, last>> ELSE <<h>>)
         \/ ~Live /\ answers' = answers
  <2> DEFINE msgs == IF blockCount = 1 THEN <<h, last>> ELSE <<h>>
  <2>1. Send(msgs)
    BY <1>2
  <2> HIDE DEF msgs
  <2>2. /\ crashed' \in {"no", "lost", "closed"}
        /\ (Live /\ answers' = answers \o msgs) \/ (~Live /\ answers' = answers)
    BY <1>3, <2>1, SendCases
  <2> QED  BY <2>2 DEF msgs
<1>6. /\ 0 < blockCount /\ blockCount <= NumBlocks[id] /\ blockCount' = blockCount - 1
      /\ blockCount \in Nat /\ NumBlocks[id] \in Nat
      /\ CountOK' /\ (blockCount = 1 => Idle')
  BY <1>2, CompletedCount
<1>7. last \in Answer /\ last.op = "COMPLETED" /\ last.id = id
  BY <1>4, EndAnswer DEF EndMsg
<1> HIDE DEF h, last
<1>8. answers \in Seq(Answer) /\ id \in Nat /\ id # 0 /\ Ordered(answers, id) /\ Sound(answers)
  BY <1>1, <1>4 DEF TypeOK, IdsOK, CppInv, Ids
<1>9. blockCount' \in {0} \cup UNION {0..NumBlocks[i] : i \in Ids}
  BY <1>4, <1>6
<1>10. CASE Live
  <2> DEFINE first == Append(answers, h)
  <2>1. ReportsOK
    BY <1>8, <1>10 DEF CppInv
  <2>2. ~Said(answers, "BLOCK_COMPLETED", id, h.block) /\ \A n \in DOMAIN answers : answers[n] # h
    <3>1. ~Said(answers, "BLOCK_COMPLETED", id, h.block)
      BY <1>2, <1>3, <1>4, <2>1 DEF ReportsOK
    <3> QED  BY <1>4, <3>1 DEF Said
  <2>3. /\ first \in Seq(Answer) /\ Ordered(first, id) /\ Sound(first)
        /\ \A op, j, b : Said(first, op, j, b) <=> Said(answers, op, j, b) \/ Msg(op, j, b) = h
        /\ \A n \in DOMAIN first : (n \in DOMAIN answers /\ first[n] = answers[n]) \/ first[n] = h
        /\ Len(first) = Len(answers) + 1
    BY <1>4, <1>8, <2>2, SendOne
  <2> HIDE DEF first
  \* All blocks are completed, and so said, when the count is one.
  <2>4. LET done == {b \in Blocks(id) : Said(first, "BLOCK_COMPLETED", id, b)}
        IN  /\ Cardinality(done) = NumBlocks[id] - blockCount'
            /\ blockCount = 1 => done = Blocks(id)
    <3> DEFINE done == {b \in Blocks(id) : Said(first, "BLOCK_COMPLETED", id, b)}
    <3>1. \A b : Msg("BLOCK_COMPLETED", id, b) = h <=> b = h.block
      BY <1>4 DEF Msg
    <3>2. done = CompletedBlocks \cup {h.block} /\ h.block \notin CompletedBlocks
      BY <1>4, <2>2, <2>3, <3>1 DEF CompletedBlocks
    <3>3. IsFiniteSet(Blocks(id)) /\ Cardinality(Blocks(id)) = NumBlocks[id]
      <4>1. \A N \in Nat : IsFiniteSet(1..N) /\ Cardinality(1..N) = N
        BY FS_Interval
      <4> QED  BY <1>6, <4>1 DEF Blocks
    <3>4. IsFiniteSet(CompletedBlocks)
      BY <3>3, FS_Subset DEF CompletedBlocks
    <3>5. Cardinality(done) = Cardinality(CompletedBlocks) + 1
      BY <3>2, <3>4, AddOne
    <3>6. Cardinality(CompletedBlocks) = NumBlocks[id] - blockCount
      BY <1>8, <2>1 DEF ReportsOK
    <3>7. Cardinality(done) = NumBlocks[id] - blockCount'
      BY <1>6, <3>5, <3>6
    <3>8. ASSUME blockCount = 1  PROVE done = Blocks(id)
      <4>1. Cardinality(done) = Cardinality(Blocks(id)) /\ done \subseteq Blocks(id)
        BY <1>6, <3>3, <3>7, <3>8
      <4> QED  BY <3>3, <4>1, FS_Subset
    <3> QED  BY <3>7, <3>8
  <2>5. /\ answers' \in Seq(Answer) /\ Ordered(answers', id) /\ Sound(answers')
        /\ \A op \in BlockOps : \A b : Said(answers', op, id, b) <=> Said(first, op, id, b)
        /\ \A n \in DOMAIN answers' : IsEnd(answers'[n]) =>
              (n \in DOMAIN answers /\ answers'[n] = answers[n]) \/ Idle'
        /\ Len(answers') >= Len(answers)
    <3>0. Len(answers) \in Nat /\ ~IsEnd(h)
      BY <1>4, <1>8 DEF IsEnd
    <3>1. CASE blockCount # 1
      <4>1. answers' = first
        BY <1>4, <1>5, <1>8, <1>10, <3>1 DEF first
      <4> QED  BY <2>3, <3>0, <4>1
    <3>2. CASE blockCount = 1
      <4>1. answers' = Append(first, last) /\ Len(answers') = Len(answers) + 2
        BY <1>4, <1>5, <1>7, <1>8, <1>10, <3>2 DEF first
      <4>2. \A n \in DOMAIN first : first[n] # last
        <5>1. h # last
          BY <1>4, <1>7
        <5>2. \A n \in DOMAIN answers : answers[n] # last
          BY <1>4, <1>7, <1>8, <2>2 DEF Sound, BlockOps
        <5> QED  BY <2>3, <5>1, <5>2
      <4>3. \A op \in BlockOps, b \in Blocks(id) : Said(first, op, id, b)
        <5>1. \A b \in Blocks(id) : Said(first, "BLOCK_COMPLETED", id, b)
          BY <2>4, <3>2
        <5>2. ASSUME NEW b \in Blocks(id)  PROVE Said(first, "BLOCK_STARTED", id, b)
          <6>1. CASE Said(answers, "BLOCK_COMPLETED", id, b)
            BY <2>1, <2>3, <6>1 DEF ReportsOK
          <6>2. CASE Msg("BLOCK_COMPLETED", id, b) = h
            <7>1. queue[1].op = "BLOCK_COMPLETED" /\ queue[1].block = b
              BY <1>3, <6>2 DEF Msg
            <7>2. ~(\E m \in DOMAIN queue : m < 1)
              BY <1>1 DEF TypeOK
            <7>3. Said(answers, "BLOCK_STARTED", id, b)
              BY <1>3, <2>1, <7>1, <7>2 DEF ReportsOK
            <7> QED  BY <2>3, <7>3
          <6> QED  BY <2>3, <5>1, <6>1, <6>2
        <5> QED  BY <5>1, <5>2 DEF BlockOps
      <4>4. /\ answers' \in Seq(Answer) /\ Ordered(answers', id) /\ Sound(answers')
            /\ \A op, j, b : Said(answers', op, j, b) <=> Said(first, op, j, b) \/ Msg(op, j, b) = last
            /\ \A n \in DOMAIN answers' :
                  (n \in DOMAIN first /\ answers'[n] = first[n]) \/ answers'[n] = last
        BY <1>7, <1>8, <2>3, <4>1, <4>2, <4>3, SendOne
      <4>5. \A op \in BlockOps : \A b : Msg(op, id, b) # last
        BY <1>7 DEF Msg, BlockOps
      <4>6. \A n \in DOMAIN answers' : IsEnd(answers'[n]) =>
              (n \in DOMAIN answers /\ answers'[n] = answers[n]) \/ Idle'
        BY <1>6, <2>3, <3>0, <3>2, <4>4
      <4>7. Len(answers') >= Len(answers)
        BY <3>0, <4>1
      <4> QED  BY <4>4, <4>5, <4>6, <4>7
    <3> QED  BY <3>1, <3>2
  <2>6. TypeOK'
    <3>1. received' \in 0..Len(answers')
      BY <1>1, <1>2, <1>8, <2>5 DEF TypeOK
    <3> QED  BY <1>1, <1>2, <1>3, <1>5, <1>9, <2>5, <3>1 DEF TypeOK, QueueMsg
  <2>7. StartsOK' /\ RequestsOK' /\ QueueOK' /\ IdsOK'
    BY <1>2, <2>5, <2>6, SentProtocol
  <2>8. Cardinality(CompletedBlocks') = NumBlocks[id] - blockCount'
    <3>1. CompletedBlocks' = {b \in Blocks(id) : Said(first, "BLOCK_COMPLETED", id, b)}
      BY <1>2, <2>5 DEF CompletedBlocks, Blocks
    <3> QED  BY <2>4, <3>1
  <2>9. ReportsOK'
    <3>1. \A o \in BlockOps : \A b : Said(answers', o, id, b)
                                       <=> Said(answers, o, id, b) \/ Msg(o, id, b) = Head(queue)
      BY <2>3, <2>5 DEF h
    <3> QED  BY <1>2, <2>1, <2>8, <3>1, SentReports
  <2> QED  BY <1>6, <2>5, <2>6, <2>7, <2>9 DEF CppInv
<1>11. CASE ~Live
  <2>1. answers' = answers
    BY <1>5, <1>11
  <2>2. TypeOK'
    BY <1>1, <1>2, <1>3, <1>5, <1>9, <2>1 DEF TypeOK, QueueMsg
  <2>3. StartsOK' /\ RequestsOK' /\ QueueOK' /\ IdsOK'
    BY <1>2, <1>8, <2>1, <2>2, SentProtocol
  <2>4. ~Live'
    BY <1>2, <1>11 DEF Live, Broken
  <2> QED  BY <1>6, <1>8, <2>1, <2>2, <2>3, <2>4 DEF CppInv
<1> QED  BY <1>10, <1>11

-----------------------------------------------------------------------------
(* The specification.                                                      *)

\* A new session starts from nothing, but for the ids, which go on.
LEMMA MainAcceptStep ==
  ASSUME CppInv, MainAccept
  PROVE  CppInv'
<1>1. TypeOK
  BY DEF CppInv
<1>2. /\ main' = "receive" /\ socket' = "open" /\ sessions' = sessions + 1 /\ sessions < MaxSessions
      /\ client' \in IF lastId = 0 THEN {"waiting"} ELSE {"waiting", "calculating"}
      /\ known' = FALSE /\ toServer' = <<>> /\ kept' = 0 /\ answers' = <<>>
      /\ received' = 0
      /\ thread' = "none" /\ handling' = <<>> /\ queue' = <<>>
      /\ id' = 0 /\ blockCount' = 0 /\ abort' = TRUE /\ destroy' = FALSE
      /\ blocks' = <<>> /\ workers' = <<>>
      /\ UNCHANGED <<lastId, crashed>>
  BY DEF MainAccept
<1>3. TypeOK'
  <2>1. \A S : <<>> \in Seq(S)
    OBVIOUS
  <2>2. 0 \in 0..Len(<<>>) /\ sessions' \in 0..MaxSessions
    BY <1>1, <1>2, CppDispatcherAssumption DEF TypeOK
  <2>3. 0 \in {0} \cup Ids /\ 0 \in {0} \cup UNION {0..NumBlocks[i] : i \in Ids}
    OBVIOUS
  <2>4. /\ handling' \in {<<>>} \cup {<<msg>> : msg \in ClientMsg}
        /\ client' \in {"waiting", "calculating", "aborting", "gone", "vanished"}
    BY <1>2
  <2> QED  BY <1>1, <1>2, <2>1, <2>2, <2>3, <2>4 DEF TypeOK
<1>4. /\ Calculators' = {} /\ QueuedCompleted' = {} /\ Cardinality({}) = 0
      /\ DOMAIN toServer' = {} /\ DOMAIN queue' = {} /\ DOMAIN handling' = {} /\ DOMAIN answers' = {}
      /\ DOMAIN blocks' = {} /\ Len(blocks') = 0
  BY <1>2, FS_EmptySet DEF Calculators, QueuedCompleted
<1>5. StartsOK' /\ ~Pending'
  BY <1>4 DEF StartsOK, OneStart, HasStart, Pending
<1>6. RequestsOK'
  <2>1. id' <= lastId' /\ (client' = "calculating" => lastId' \in Ids) /\ client' # "aborting"
    BY <1>1, <1>2, CppDispatcherAssumption DEF TypeOK, Ids
  <2> QED  BY <1>2, <1>4, <1>5, <2>1 DEF RequestsOK, Idle
<1>7. QueueOK' /\ IdsOK'
  BY <1>2, <1>4 DEF QueueOK, HasStart, IdsOK, Ordered
<1>8. CountOK'
  BY <1>2, <1>4 DEF CountOK, Outstanding
<1>9. Sound(answers)'
  BY <1>4 DEF Sound
<1> QED  BY <1>2, <1>3, <1>5, <1>6, <1>7, <1>8, <1>9 DEF CppInv

\* ~Dispatcher wakes the dispatcher thread up.
LEMMA MainDestroyStep ==
  ASSUME CppInv, MainDestroy
  PROVE  CppInv'
<1> USE DEF clientVars, sessionVars, wireVars, threadVars
<1>1. TypeOK /\ QueueOK
  BY DEF CppInv
<1>2. /\ main = "destroy" /\ main' = "joinThread" /\ destroy' = TRUE
      /\ queue' = Append(queue, NoMessage)
      /\ UNCHANGED <<clientVars, sessionVars, threadVars,
                     id, blockCount, abort, blocks, workers, crashed>>
  BY DEF MainDestroy, MainAt, WakeThread
<1>3. NoMessage \in QueueMsg /\ NoMessage.op = "NONE"
  BY DEF QueueMsg, NoMessage
<1>4. /\ queue \in Seq(QueueMsg) /\ queue' \in Seq(QueueMsg) /\ DOMAIN queue \subseteq Nat
      /\ \A n \in DOMAIN queue' : (n \in DOMAIN queue /\ queue'[n] = queue[n]) \/ queue'[n] = NoMessage
  <2>1. queue \in Seq(QueueMsg)
    BY <1>1 DEF TypeOK, QueueMsg
  <2>2. /\ queue' \in Seq(QueueMsg) /\ Len(queue) \in Nat
        /\ DOMAIN queue = 1 .. Len(queue) /\ DOMAIN queue' = 1 .. Len(queue) + 1
        /\ queue'[Len(queue) + 1] = NoMessage /\ \A n \in 1 .. Len(queue) : queue'[n] = queue[n]
    BY <1>2, <1>3, <2>1, AppendOne
  <2> QED  BY <2>1, <2>2
<1>5. TypeOK'
  BY <1>1, <1>2, <1>4 DEF TypeOK, QueueMsg
<1>6. Moves(0, BlockOps)
  BY <1>1, <1>2, <1>3, MovesAppend DEF BlockOps
<1>7. Calculators' = Calculators /\ Idle' = Idle
  BY <1>2 DEF Calculators, Idle
<1>8. IdsOK' /\ CountOK' /\ Sound(answers)' /\ (Live' /\ id' # 0 => ReportsOK')
  BY <1>2, <1>5, <1>6, <1>7, KeepBlocks DEF Live
<1>9. \A n \in DOMAIN queue' : IsStart(queue'[n]) \/ queue'[n].op \in BlockOps =>
         n + 0 \in DOMAIN queue /\ queue'[n] = queue[n + 0]
  BY <1>3, <1>4 DEF IsStart, BlockOps
<1>10. \A n \in DOMAIN toServer : n + 0 = n
  BY <1>1 DEF TypeOK
<1>11. StartsOK' /\ RequestsOK' /\ QueueOK'
  BY <1>1, <1>2, <1>5, <1>7, <1>9, <1>10, KeepProtocol DEF QueueOK
<1> QED  BY <1>5, <1>8, <1>11 DEF CppInv

LEMMA CppStutter ==
  ASSUME CppInv, UNCHANGED vars
  PROVE  CppInv'
<1> USE DEF vars, clientVars, sessionVars, wireVars, threadVars, dispatcherVars
<1>1. TypeOK' /\ StartsOK' /\ Calculators' = Calculators /\ QueuedCompleted' = QueuedCompleted
  BY DEF CppInv, TypeOK, StartsOK, Calculators, QueuedCompleted
<1>2. RequestsOK' /\ QueueOK' /\ IdsOK' /\ CountOK'
  BY <1>1 DEF CppInv, RequestsOK, Pending, Idle, QueueOK, IdsOK, CountOK, Outstanding
<1>3. Sound(answers)' /\ (Live' /\ id' # 0 => ReportsOK')
  BY <1>1 DEF CppInv, Live, Broken, ReportsOK, CompletedBlocks, Blocks
<1> QED  BY <1>1, <1>2, <1>3 DEF CppInv

LEMMA CppStep ==
  ASSUME CppInv, [Next]_vars
  PROVE  CppInv'
<1>1. CASE MainAccept
  BY <1>1, MainAcceptStep
<1>2. CASE Main
  BY <1>2, MainReceiveStep, MainReceiveFailsStep, MainDestroyStep, MainQuietStep DEF Main
<1>3. CASE DispatcherThread
  BY <1>3, OnNoMessageStep, OnBlockStartedStep, OnBlockCompletedStep, OnRequestStep,
     ThreadAbortedStep, ThreadStartedStep DEF DispatcherThread
<1>4. CASE \E i \in DOMAIN workers : Worker(i)
  <2>1. PICK i \in DOMAIN workers : WorkerPop(i) \/ WorkerAborts(i) \/ WorkerCompletes(i)
    BY <1>4 DEF Worker
  <2> QED  BY <2>1, WorkerTakesStep, WorkerReturnsStep, WorkerCompletesStep
<1>5. CASE DataRace
  BY <1>5, MainQuietStep
<1>6. CASE Client
  BY <1>6, ClientStartStep, ClientStopsStep, ClientReceiveStep DEF Client
<1>7. CASE UNCHANGED vars
  BY <1>7, CppStutter
<1> QED  BY <1>1, <1>2, <1>3, <1>4, <1>5, <1>6, <1>7 DEF Next

THEOREM CppInvariant == Spec => []CppInv
<1>1. Init => CppInv
  BY CppInit
<1>2. CppInv /\ [Next]_vars => CppInv'
  BY CppStep
<1> QED  BY <1>1, <1>2, PTL DEF Spec

\* The types, for any number of blocks, workers, calculations and sessions: the
\* uint32_t that counts the blocks never wraps, and is at most their number.
THEOREM CppTypeCorrect == Spec => []TypeOK
<1>1. CppInv => TypeOK
  BY DEF CppInv
<1> QED  BY <1>1, CppInvariant, PTL

\* What the client is told is complete and in order, and the count that decides
\* when it is complete is what is outstanding.
THEOREM CppAnswersSound == Spec => []AnswersAreSound
<1>1. ASSUME CppInv  PROVE AnswersAreSound
  <2>1. CompletedIsComplete
    <3> SUFFICES ASSUME NEW n \in DOMAIN answers, answers[n].op = "COMPLETED"
                 PROVE  /\ \A blk \in Blocks(answers[n].id), op \in BlockOps :
                              Times(op, answers[n].id, blk) = 1
                        /\ \A k \in 1..n - 1 : answers[k].id = answers[n].id
                                                  => answers[k].op # "COMPLETED"
      BY DEF CompletedIsComplete, BlockOps
    <3>1. Sound(answers) /\ answers \in Seq(Answer)
      BY <1>1 DEF CppInv, TypeOK
    <3>2. ASSUME NEW blk \in Blocks(answers[n].id), NEW op \in BlockOps
          PROVE  Times(op, answers[n].id, blk) = 1
      <4> DEFINE msg == Msg(op, answers[n].id, blk)
      <4>1. PICK m \in DOMAIN answers : answers[m] = msg
        BY <3>1 DEF Sound, Said
      <4>2. msg.op \in BlockOps
        BY DEF Msg
      <4>3. {k \in DOMAIN answers : answers[k] = msg} = {m}
        BY <3>1, <4>1, <4>2 DEF Sound
      <4> QED  BY <4>3, FS_Singleton DEF Times, Msg
    <3>3. ASSUME NEW k \in 1..n - 1, answers[k].id = answers[n].id, answers[k].op = "COMPLETED"
          PROVE  FALSE
      <4>1. k \in DOMAIN answers /\ k # n
        BY <3>1
      <4>2. \A a, b \in Answer : a.op = "COMPLETED" /\ b.op = "COMPLETED" /\ a.id = b.id => a = b
        BY DEF Answer
      <4>3. answers[k] = answers[n]
        BY <3>1, <3>3, <4>1, <4>2
      <4> QED  BY <3>1, <4>1, <4>3 DEF Sound
    <3> QED  BY <3>2, <3>3
  <2>2. AnswersInOrder
    BY <1>1 DEF CppInv, IdsOK, Ordered, AnswersInOrder
  <2>3. CountIsOutstanding
    BY <1>1 DEF CppInv, CountOK, Outstanding, Calculators, QueuedCompleted, CountIsOutstanding
  <2> QED  BY <2>1, <2>2, <2>3 DEF AnswersAreSound
<1> QED  BY <1>1, CppInvariant, PTL
=============================================================================
