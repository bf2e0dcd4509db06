------------------------ MODULE WebDispatcherProofs ------------------------
(***************************************************************************)
(* Proofs about the dispatcher of the page: its answers are sound and it   *)
(* implements CalculationService, for any number of blocks, workers and    *)
(* calculations.                                                           *)
(***************************************************************************)
EXTENDS WebDispatcher, FiniteSetTheorems, TLAPS

-----------------------------------------------------------------------------
(* The inductive invariant.                                                *)

StartOf(id, count) == [op |-> "START", id |-> id, workers |-> count]
AbortOf(id) == [op |-> "ABORT", id |-> id]

\* The calculation of the last START that the dispatcher has handled.
Cur == IF \E i \in DOMAIN inbox : inbox[i].op = "START" THEN lastId - 1 ELSE lastId

Has(s, a) == \E n \in DOMAIN s : s[n] = a
Ended(s, id) == Has(s, EndAnswer("COMPLETED", id)) \/ Has(s, EndAnswer("ABORTED", id))

\* What there can be in the inbox: what has not been handled of the last
\* calculation, after an ABORT that crossed the COMPLETED of the one before.
Earlier(id, m) == m = AbortOf(id - 1) /\ id > 1
Starting(id, m) == \E count \in WorkerCounts : m = StartOf(id, count)
Aborting(id, m) == m = AbortOf(id) /\ id > 0

InboxOK ==
    /\ \A i \in DOMAIN inbox :
          Earlier(lastId, inbox[i]) \/ Starting(lastId, inbox[i]) \/ Aborting(lastId, inbox[i])
    /\ \A i, j \in DOMAIN inbox : i < j =>
          \/ Earlier(lastId, inbox[i]) /\ ~Earlier(lastId, inbox[j])
          \/ Starting(lastId, inbox[i]) /\ Aborting(lastId, inbox[j])
    /\ \A i \in DOMAIN inbox :
          /\ Earlier(lastId, inbox[i]) => \E j \in DOMAIN inbox : Starting(lastId, inbox[j])
          /\ Starting(lastId, inbox[i]) => client # "waiting"
          /\ Aborting(lastId, inbox[i]) => client # "calculating"

\* The client goes on only when the calculation before has been reported as
\* ended, and aborts each calculation once.
ClientOK ==
    /\ client # "waiting" => lastId > 0
    /\ client = "waiting" /\ lastId > 0 => Ended(answers, lastId)
    /\ Cur # lastId /\ Cur > 0 => Ended(answers, Cur)
    /\ client = "calculating" => ~Has(answers, EndAnswer("ABORTED", lastId))
    /\ \A i \in DOMAIN inbox :
          inbox[i].op = "ABORT" => ~Has(answers, EndAnswer("ABORTED", inbox[i].id))

\* What has been posted: nothing twice, nothing after an end but ABORTED after
\* COMPLETED, and COMPLETED after everything else.
Sound(s) ==
    /\ \A m, n \in DOMAIN s : s[m] = s[n] => m = n
    /\ \A m, n \in DOMAIN s :
          m < n /\ s[m].id = s[n].id /\ IsEnd(s[m]) =>
              s[m].op = "COMPLETED" /\ s[n].op = "ABORTED"
    /\ \A n \in DOMAIN s : s[n].op = "COMPLETED" =>
          \A b \in Blocks, op \in {"BLOCK_STARTED", "BLOCK_COMPLETED"} :
              Has(s, [op |-> op, id |-> s[n].id, block |-> b])

\* Each calculation up to the one of the dispatcher was begun, those before it
\* have ended, and no other is mentioned.
AnswersOK ==
    /\ Sound(answers)
    /\ \A n \in DOMAIN answers : answers[n].id <= Cur
    /\ \A id \in 1..Cur : \E b \in Blocks :
          Has(answers, [op |-> "BLOCK_STARTED", id |-> id, block |-> b])
    /\ \A id \in 1..Cur : id < Cur => Ended(answers, id)

\* A worker has a block, to calculate or calculated.
Holds(w, blk) ==
    \/ w = [mail |-> <<blk>>, posted |-> <<>>]
    \/ w = [mail |-> <<>>, posted |-> <<blk>>]

Given == NumBlocks - Len(blocks)
CurBlock(b) == [id |-> Cur, block |-> b]
BusyWorkers == {i \in DOMAIN workers : Busy(i)}

\* Nothing is left of a calculation that has ended.
Resting == blocks = <<>> /\ \A i \in DOMAIN workers : workers[i] = NewWorker

\* The blocks of a calculation: those not given, those with one worker each, and
\* those reported; the count is of the workers that have one.
Running ==
    /\ Len(blocks) < NumBlocks
    /\ \A j \in 1 .. Len(blocks) : blocks[j] = CurBlock(Given + j)
    /\ \A i \in DOMAIN workers :
          workers[i] = NewWorker \/ \E b \in 1..Given : Holds(workers[i], CurBlock(b))
    /\ \A i, j \in DOMAIN workers : \A b \in Blocks :
          Holds(workers[i], CurBlock(b)) /\ Holds(workers[j], CurBlock(b)) => i = j
    /\ \A b \in Blocks :
          /\ Has(answers, BlockAnswer("BLOCK_STARTED", CurBlock(b))) <=> b <= Given
          /\ Has(answers, BlockAnswer("BLOCK_COMPLETED", CurBlock(b))) <=>
                b <= Given /\ \A i \in DOMAIN workers : ~Holds(workers[i], CurBlock(b))
    /\ BusyWorkers # {}
    /\ workingCount = Cardinality(BusyWorkers)

WorkOK == IF Cur = 0 \/ Ended(answers, Cur) THEN Resting ELSE Running

WebInv == TypeOK /\ InboxOK /\ ClientOK /\ AnswersOK /\ WorkOK

-----------------------------------------------------------------------------
(* Sequences and answers.                                                  *)

LEMMA AppendOne ==
  ASSUME NEW S, NEW s \in Seq(S), NEW a \in S
  PROVE  /\ Append(s, a) \in Seq(S) /\ Len(Append(s, a)) = Len(s) + 1
         /\ DOMAIN Append(s, a) = 1 .. Len(s) + 1
         /\ \A n \in 1 .. Len(s) : Append(s, a)[n] = s[n]
         /\ Append(s, a)[Len(s) + 1] = a
         /\ s \o <<a>> = Append(s, a)
OBVIOUS

LEMMA SeqOf ==
  ASSUME NEW S, NEW n \in Nat, NEW f \in [1..n -> S]
  PROVE  f \in Seq(S)
OBVIOUS

\* The workers there are: without a block, or with one.
LEMMA WorkerType ==
  ASSUME NEW S, NEW b \in S
  PROVE  /\ [mail |-> <<>>, posted |-> <<>>] \in [mail : Seq(S), posted : Seq(S)]
         /\ [mail |-> <<b>>, posted |-> <<>>] \in [mail : Seq(S), posted : Seq(S)]
         /\ [mail |-> <<>>, posted |-> <<b>>] \in [mail : Seq(S), posted : Seq(S)]
<1>1. <<>> \in Seq(S) /\ <<b>> \in Seq(S)
  OBVIOUS
<1> QED BY <1>1, Zenon

\* What a longer sequence has.
LEMMA HasAppend ==
  ASSUME NEW S, NEW s \in Seq(S), NEW a \in S
  PROVE  \A x : Has(Append(s, a), x) <=> Has(s, x) \/ x = a
<1> SUFFICES ASSUME NEW x
             PROVE  Has(Append(s, a), x) <=> Has(s, x) \/ x = a
  OBVIOUS
<1>1. DOMAIN s = 1 .. Len(s) /\ Len(s) \in Nat
  OBVIOUS
<1>2. ASSUME Has(Append(s, a), x)
      PROVE  Has(s, x) \/ x = a
  <2>1. PICK n \in 1 .. Len(s) + 1 : Append(s, a)[n] = x
    BY <1>2, AppendOne DEF Has
  <2>2. CASE n = Len(s) + 1
    BY <2>1, <2>2, AppendOne
  <2>3. CASE n # Len(s) + 1
    <3>1. n \in 1 .. Len(s)
      BY <1>1, <2>3
    <3> QED BY <1>1, <2>1, <3>1, AppendOne DEF Has
  <2> QED BY <2>2, <2>3
<1>3. ASSUME Has(s, x)
      PROVE  Has(Append(s, a), x)
  <2>1. PICK n \in 1 .. Len(s) : s[n] = x
    BY <1>1, <1>3 DEF Has
  <2>2. n \in 1 .. Len(s) + 1 /\ Append(s, a)[n] = x
    BY <1>1, <2>1, AppendOne
  <2> QED BY <2>2, AppendOne DEF Has
<1>4. ASSUME x = a
      PROVE  Has(Append(s, a), x)
  <2>1. Len(s) + 1 \in 1 .. Len(s) + 1
    BY <1>1
  <2> QED BY <1>4, <2>1, AppendOne DEF Has
<1> QED BY <1>2, <1>3, <1>4

\* One more answer: a new one, after no end of its calculation but COMPLETED
\* before ABORTED, and after all blocks if it is COMPLETED.
LEMMA SoundOne ==
  ASSUME NEW s \in Seq(Answer), NEW a \in Answer, Sound(s), ~Has(s, a),
         \A n \in DOMAIN s :
             s[n].id = a.id /\ IsEnd(s[n]) => s[n].op = "COMPLETED" /\ a.op = "ABORTED",
         a.op = "COMPLETED" =>
             \A b \in Blocks, op \in {"BLOCK_STARTED", "BLOCK_COMPLETED"} :
                 Has(s, [op |-> op, id |-> a.id, block |-> b])
  PROVE  Sound(Append(s, a))
<1> DEFINE t == Append(s, a)
<1>1. /\ DOMAIN s = 1 .. Len(s) /\ Len(s) \in Nat /\ DOMAIN t = 1 .. Len(s) + 1
      /\ \A n \in 1 .. Len(s) : t[n] = s[n]
      /\ t[Len(s) + 1] = a
  BY AppendOne
<1>2. \A n \in 1 .. Len(s) : s[n] # a
  BY <1>1 DEF Has
<1>3. \A x : Has(s, x) => Has(t, x)
  BY HasAppend
<1> HIDE DEF t
<1>4. \A m, n \in DOMAIN t : t[m] = t[n] => m = n
  BY <1>1, <1>2 DEF Sound
<1>5. \A m, n \in DOMAIN t :
          m < n /\ t[m].id = t[n].id /\ IsEnd(t[m]) =>
              t[m].op = "COMPLETED" /\ t[n].op = "ABORTED"
  <2> SUFFICES ASSUME NEW m \in 1 .. Len(s) + 1, NEW n \in 1 .. Len(s) + 1,
                      m < n, t[m].id = t[n].id, IsEnd(t[m])
               PROVE  t[m].op = "COMPLETED" /\ t[n].op = "ABORTED"
    BY <1>1
  <2>1. m \in 1 .. Len(s) /\ t[m] = s[m]
    BY <1>1
  <2>2. CASE n \in 1 .. Len(s)
    BY <1>1, <2>1, <2>2 DEF Sound
  <2>3. CASE n = Len(s) + 1
    BY <1>1, <2>1, <2>3
  <2> QED BY <1>1, <2>2, <2>3
<1>6. \A n \in DOMAIN t : t[n].op = "COMPLETED" =>
          \A b \in Blocks, op \in {"BLOCK_STARTED", "BLOCK_COMPLETED"} :
              Has(t, [op |-> op, id |-> t[n].id, block |-> b])
  <2> SUFFICES ASSUME NEW n \in 1 .. Len(s) + 1, t[n].op = "COMPLETED",
                      NEW b \in Blocks, NEW op \in {"BLOCK_STARTED", "BLOCK_COMPLETED"}
               PROVE  Has(t, [op |-> op, id |-> t[n].id, block |-> b])
    BY <1>1
  <2>1. CASE n \in 1 .. Len(s)
    <3>1. t[n] = s[n]
      BY <1>1, <2>1
    <3>2. Has(s, [op |-> op, id |-> s[n].id, block |-> b])
      BY <1>1, <2>1, <3>1 DEF Sound
    <3> QED BY <1>3, <3>1, <3>2
  <2>2. CASE n = Len(s) + 1
    <3>1. t[n] = a
      BY <1>1, <2>2
    <3>2. Has(s, [op |-> op, id |-> a.id, block |-> b])
      BY <3>1
    <3> QED BY <1>3, <3>1, <3>2
  <2> QED BY <1>1, <2>1, <2>2
<1> QED BY <1>4, <1>5, <1>6 DEF Sound, t

\* The answers to START: some blocks, from the first, are reported as started.
StartedUpTo(id, given) ==
    [i \in 1..given |-> BlockAnswer("BLOCK_STARTED", [id |-> id, block |-> i])]

LEMMA SoundStarts ==
  ASSUME NEW s \in Seq(Answer), Sound(s), NEW id \in Ids, NEW given \in 1..NumBlocks,
         \A n \in DOMAIN s : s[n].id # id
  PROVE  LET t == s \o StartedUpTo(id, given) IN
         /\ t \in Seq(Answer) /\ Sound(t)
         /\ \A x : Has(t, x) <=>
               \/ Has(s, x)
               \/ \E i \in 1..given : x = [op |-> "BLOCK_STARTED", id |-> id, block |-> i]
<1> DEFINE u == StartedUpTo(id, given)
           t == s \o u
<1>0. given \in Nat /\ NumBlocks \in Nat
  BY WebDispatcherAssumption
<1>1. /\ u \in Seq(Answer) /\ Len(u) = given
      /\ \A i \in 1..given : u[i] = [op |-> "BLOCK_STARTED", id |-> id, block |-> i]
  <2>1. \A i \in 1..given : [op |-> "BLOCK_STARTED", id |-> id, block |-> i] \in Answer
    BY <1>0 DEF Answer, Blocks
  <2>2. u = [i \in 1..given |-> [op |-> "BLOCK_STARTED", id |-> id, block |-> i]]
    BY DEF StartedUpTo, BlockAnswer
  <2> HIDE DEF u
  <2> QED BY <1>0, <2>1, <2>2
<1> HIDE DEF u
<1>2. /\ t \in Seq(Answer) /\ DOMAIN t = 1 .. Len(s) + given
      /\ DOMAIN s = 1 .. Len(s) /\ Len(s) \in Nat
      /\ \A n \in 1 .. Len(s) : t[n] = s[n]
      /\ \A i \in 1..given : t[Len(s) + i] = u[i]
  <2>1. s \in Seq(Answer) /\ u \in Seq(Answer) /\ Len(u) = given
    BY <1>1
  <2>2. t \in Seq(Answer) /\ Len(t) = Len(s) + given /\ Len(s) \in Nat
    BY <1>0, <2>1
  <2>3. \A n \in 1 .. Len(s) : t[n] = s[n]
    BY <2>1
  <2>4. \A i \in 1..given : t[Len(s) + i] = u[i]
    BY <2>1
  <2> QED BY <1>0, <2>2, <2>3, <2>4
<1> HIDE DEF t
<1>3. ASSUME NEW n \in DOMAIN t
      PROVE  \/ n \in 1 .. Len(s) /\ t[n] = s[n]
             \/ \E i \in 1..given :
                   /\ n = Len(s) + i
                   /\ t[n] = [op |-> "BLOCK_STARTED", id |-> id, block |-> i]
  <2>1. CASE n <= Len(s)
    BY <1>2, <2>1
  <2>2. CASE n > Len(s)
    <3>1. n - Len(s) \in 1..given /\ n = Len(s) + (n - Len(s))
      BY <1>0, <1>2, <2>2
    <3> QED BY <1>1, <1>2, <3>1
  <2> QED BY <1>2, <2>1, <2>2
<1>4. \A x : Has(t, x) <=>
          \/ Has(s, x)
          \/ \E i \in 1..given : x = [op |-> "BLOCK_STARTED", id |-> id, block |-> i]
  <2> SUFFICES ASSUME NEW x
               PROVE  Has(t, x) <=>
                         \/ Has(s, x)
                         \/ \E i \in 1..given :
                               x = [op |-> "BLOCK_STARTED", id |-> id, block |-> i]
    OBVIOUS
  <2>1. Has(t, x) => \/ Has(s, x)
                     \/ \E i \in 1..given :
                           x = [op |-> "BLOCK_STARTED", id |-> id, block |-> i]
    BY <1>2, <1>3 DEF Has
  <2>2. Has(s, x) => Has(t, x)
    <3> SUFFICES ASSUME NEW n \in 1 .. Len(s), s[n] = x
                 PROVE  \E m \in DOMAIN t : t[m] = x
      BY <1>2 DEF Has
    <3>1. n \in DOMAIN t /\ t[n] = x
      BY <1>0, <1>2
    <3> QED BY <3>1
  <2>3. ASSUME NEW i \in 1..given, x = [op |-> "BLOCK_STARTED", id |-> id, block |-> i]
        PROVE  Has(t, x)
    <3>1. Len(s) + i \in DOMAIN t /\ t[Len(s) + i] = x
      BY <1>0, <1>1, <1>2, <2>3
    <3> QED BY <3>1 DEF Has
  <2> QED BY <2>1, <2>2, <2>3
<1>5. Sound(t)
  <2>1. \A m, n \in DOMAIN t : t[m] = t[n] => m = n
    <3> SUFFICES ASSUME NEW m \in DOMAIN t, NEW n \in DOMAIN t, t[m] = t[n]
                 PROVE  m = n
      OBVIOUS
    <3>1. CASE m \in 1 .. Len(s) /\ t[m] = s[m]
      <4>1. s[m].id # id
        BY <1>2, <3>1
      <4>2. n \in 1 .. Len(s) /\ t[n] = s[n]
        <5>1. t[n].id # id
          BY <3>1, <4>1
        <5> QED BY <1>3, <5>1
      <4> QED BY <1>2, <3>1, <4>2 DEF Sound
    <3>2. CASE \E i \in 1..given :
                   /\ m = Len(s) + i
                   /\ t[m] = [op |-> "BLOCK_STARTED", id |-> id, block |-> i]
      <4>1. PICK i \in 1..given : /\ m = Len(s) + i
                                  /\ t[m] = [op |-> "BLOCK_STARTED", id |-> id, block |-> i]
        BY <3>2
      <4>2. ~(n \in 1 .. Len(s) /\ t[n] = s[n])
        BY <1>2, <4>1
      <4>3. PICK j \in 1..given : /\ n = Len(s) + j
                                  /\ t[n] = [op |-> "BLOCK_STARTED", id |-> id, block |-> j]
        BY <1>3, <4>2
      <4>4. i = j
        BY <4>1, <4>3
      <4> QED BY <4>1, <4>3, <4>4
    <3> QED BY <1>3, <3>1, <3>2
  <2>2. \A m, n \in DOMAIN t :
            m < n /\ t[m].id = t[n].id /\ IsEnd(t[m]) =>
                t[m].op = "COMPLETED" /\ t[n].op = "ABORTED"
    <3> SUFFICES ASSUME NEW m \in DOMAIN t, NEW n \in DOMAIN t,
                        m < n, t[m].id = t[n].id, IsEnd(t[m])
                 PROVE  t[m].op = "COMPLETED" /\ t[n].op = "ABORTED"
      OBVIOUS
    <3>1. m \in 1 .. Len(s) /\ t[m] = s[m]
      BY <1>3 DEF IsEnd
    <3>2. s[m].id # id
      BY <1>2, <3>1
    <3>3. n \in 1 .. Len(s) /\ t[n] = s[n]
      BY <1>3, <3>1, <3>2
    <3> QED BY <1>2, <3>1, <3>3 DEF Sound
  <2>3. \A n \in DOMAIN t : t[n].op = "COMPLETED" =>
            \A b \in Blocks, op \in {"BLOCK_STARTED", "BLOCK_COMPLETED"} :
                Has(t, [op |-> op, id |-> t[n].id, block |-> b])
    <3> SUFFICES ASSUME NEW n \in DOMAIN t, t[n].op = "COMPLETED"
                 PROVE  \A b \in Blocks, op \in {"BLOCK_STARTED", "BLOCK_COMPLETED"} :
                            Has(t, [op |-> op, id |-> t[n].id, block |-> b])
      OBVIOUS
    <3>1. n \in 1 .. Len(s) /\ t[n] = s[n]
      BY <1>3
    <3> QED BY <1>2, <1>4, <3>1 DEF Sound
  <2> QED BY <2>1, <2>2, <2>3 DEF Sound
<1> QED BY <1>2, <1>4, <1>5 DEF t, u

-----------------------------------------------------------------------------
(* The client.                                                             *)

\* The three kinds of messages, and which calculation is the dispatcher's.
LEMMA Kinds ==
  ASSUME NEW id, NEW m
  PROVE  /\ Earlier(id, m) => m.op = "ABORT" /\ m.id = id - 1 /\ m = AbortOf(id - 1)
         /\ Starting(id, m) => m.op = "START" /\ m.id = id /\ m.workers \in WorkerCounts
         /\ Aborting(id, m) => m.op = "ABORT" /\ m.id = id /\ m = AbortOf(id)
         /\ Starting(id, m) => ~Earlier(id, m) /\ ~Aborting(id, m)
         /\ id \in Nat => ~(Earlier(id, m) /\ Aborting(id, m))
<1>1. Earlier(id, m) => m.op = "ABORT" /\ m.id = id - 1 /\ m = AbortOf(id - 1)
  BY DEF Earlier, AbortOf
<1>2. Starting(id, m) => m.op = "START" /\ m.id = id /\ m.workers \in WorkerCounts
  BY DEF Starting, StartOf
<1>3. Aborting(id, m) => m.op = "ABORT" /\ m.id = id /\ m = AbortOf(id)
  BY DEF Aborting, AbortOf
<1>4. id \in Nat => id - 1 # id
  OBVIOUS
<1> QED BY <1>1, <1>2, <1>3, <1>4

LEMMA CurIs ==
  ASSUME WebInv
  PROVE  /\ lastId \in 0..MaxCalc /\ inbox \in Seq(Message)
         /\ DOMAIN inbox = 1 .. Len(inbox) /\ Len(inbox) \in Nat
         /\ \A i \in DOMAIN inbox : inbox[i].op = "START" <=> Starting(lastId, inbox[i])
         /\ (\A i \in DOMAIN inbox : ~Starting(lastId, inbox[i])) => Cur = lastId
         /\ (\E i \in DOMAIN inbox : Starting(lastId, inbox[i])) => Cur = lastId - 1 /\ lastId > 0
<1>1. /\ lastId \in 0..MaxCalc /\ inbox \in Seq(Message)
      /\ DOMAIN inbox = 1 .. Len(inbox) /\ Len(inbox) \in Nat
  BY DEF WebInv, TypeOK
<1>2. \A i \in DOMAIN inbox : inbox[i].op = "START" <=> Starting(lastId, inbox[i])
  BY Kinds DEF WebInv, InboxOK
<1>3. (\E i \in DOMAIN inbox : Starting(lastId, inbox[i])) => lastId > 0
  BY <1>1 DEF WebInv, InboxOK, ClientOK, TypeOK
<1> QED BY <1>1, <1>2, <1>3 DEF Cur

\* What does not touch the dispatcher keeps what is said of it.
LEMMA Untouched ==
  ASSUME AnswersOK, WorkOK, Cur' = Cur, UNCHANGED dispatcherVars
  PROVE  AnswersOK' /\ WorkOK'
BY DEF AnswersOK, WorkOK, Resting, Running, Given, CurBlock, BusyWorkers, Busy, dispatcherVars

\* One more message at the end of the inbox.
LEMMA InboxAdds ==
  ASSUME WebInv, NEW m \in Message, inbox' = Append(inbox, m)
  PROVE  /\ inbox' \in Seq(Message)
         /\ DOMAIN inbox' = DOMAIN inbox \cup {Len(inbox) + 1}
         /\ Len(inbox) + 1 \notin DOMAIN inbox
         /\ \A i \in DOMAIN inbox : inbox'[i] = inbox[i] /\ i < Len(inbox) + 1
         /\ inbox'[Len(inbox) + 1] = m
<1>1. inbox \in Seq(Message) /\ DOMAIN inbox = 1 .. Len(inbox) /\ Len(inbox) \in Nat
  BY CurIs
<1>2. /\ inbox' \in Seq(Message) /\ DOMAIN inbox' = 1 .. Len(inbox) + 1
      /\ \A i \in 1 .. Len(inbox) : inbox'[i] = inbox[i]
      /\ inbox'[Len(inbox) + 1] = m
  BY <1>1, AppendOne
<1> QED BY <1>1, <1>2

LEMMA ClientStartKeeps ==
  ASSUME WebInv, NEW count \in WorkerCounts, ClientStart(count)
  PROVE  WebInv'
<1> USE WebDispatcherAssumption
<1> DEFINE m == StartOf(lastId + 1, count)
           new == Len(inbox) + 1
<1>1. /\ client = "waiting" /\ lastId < MaxCalc /\ client' = "calculating"
      /\ lastId' = lastId + 1 /\ lastId \in 0..MaxCalc
      /\ inbox' = Append(inbox, m)
      /\ UNCHANGED <<received, dispatcherVars>>
  BY CurIs DEF ClientStart, StartOf
<1>2. lastId \in Nat /\ lastId' \in Nat /\ lastId' - 1 = lastId /\ lastId' > 0
  BY <1>1
<1>3. m \in Message
  BY <1>1 DEF StartOf, Message, Ids
<1>4. m.op = "START" /\ m.id = lastId' /\ Starting(lastId', m)
  BY <1>1 DEF StartOf, Starting
<1> HIDE DEF m
<1>5. /\ inbox' \in Seq(Message) /\ DOMAIN inbox' = DOMAIN inbox \cup {new}
      /\ new \notin DOMAIN inbox /\ inbox'[new] = m
      /\ \A i \in DOMAIN inbox : inbox'[i] = inbox[i] /\ i < new
  BY <1>1, <1>3, InboxAdds
<1>6. new \in Nat /\ \A k \in DOMAIN inbox' : k \in Nat /\ k <= new
  BY <1>5, CurIs
<1> HIDE DEF new
<1>7. \A i \in DOMAIN inbox : Aborting(lastId, inbox[i])
  BY <1>1 DEF WebInv, InboxOK
<1>8. \A i \in DOMAIN inbox : ~Starting(lastId, inbox[i]) /\ ~Earlier(lastId, inbox[i])
  BY <1>2, <1>7, Kinds
<1>9. \A i, j \in DOMAIN inbox : ~(i < j)
  BY <1>8 DEF WebInv, InboxOK
<1>10. Cur = lastId /\ Cur' = lastId
  <2>1. Cur = lastId
    BY <1>8, CurIs
  <2>2. new \in DOMAIN inbox' /\ inbox'[new].op = "START"
    BY <1>4, <1>5
  <2> QED BY <1>2, <2>1, <2>2 DEF Cur
<1>11. \A i \in DOMAIN inbox : Earlier(lastId', inbox'[i]) /\ inbox'[i].op = "ABORT"
  BY <1>2, <1>5, <1>7, <1>1 DEF Earlier, Aborting, AbortOf
<1>12. InboxOK'
  <2>1. \A i \in DOMAIN inbox :
            ~Starting(lastId', inbox'[i]) /\ ~Aborting(lastId', inbox'[i])
    BY <1>2, <1>11, Kinds
  <2>2. ~Earlier(lastId', m) /\ ~Aborting(lastId', m)
    BY <1>4, Kinds
  <2>3. \A i, j \in DOMAIN inbox' : i < j => i \in DOMAIN inbox /\ j = new
    BY <1>5, <1>6, <1>9
  <2>4. new \in DOMAIN inbox' /\ Starting(lastId', inbox'[new])
    BY <1>4, <1>5
  <2>5. \A i \in DOMAIN inbox' :
            \/ i \in DOMAIN inbox /\ Earlier(lastId', inbox'[i])
            \/ i = new /\ inbox'[i] = m
    BY <1>5, <1>11
  <2>6. \A i \in DOMAIN inbox' :
            \/ Earlier(lastId', inbox'[i])
            \/ Starting(lastId', inbox'[i])
            \/ Aborting(lastId', inbox'[i])
    BY <1>4, <2>5
  <2>7. \A i, j \in DOMAIN inbox' : i < j =>
            Earlier(lastId', inbox'[i]) /\ ~Earlier(lastId', inbox'[j])
    BY <1>5, <1>11, <2>2, <2>3
  <2>8. \A i \in DOMAIN inbox' : ~Aborting(lastId', inbox'[i])
    BY <2>1, <2>2, <2>5
  <2> QED BY <1>1, <2>4, <2>6, <2>7, <2>8 DEF InboxOK
<1>13. TypeOK'
  BY <1>1, <1>5 DEF WebInv, TypeOK, dispatcherVars
<1>14. ClientOK'
  <2>1. answers' = answers
    BY <1>1 DEF dispatcherVars
  <2>2. Cur' > 0 => Ended(answers, Cur')
    BY <1>1, <1>10 DEF WebInv, ClientOK
  <2>3. ~Has(answers, EndAnswer("ABORTED", lastId'))
    <3>1. \A n \in DOMAIN answers : answers[n].id <= lastId
      BY <1>10 DEF WebInv, AnswersOK
    <3>2. ASSUME NEW n \in DOMAIN answers, answers[n] = EndAnswer("ABORTED", lastId')
          PROVE  FALSE
      <4>1. answers[n].id = lastId + 1 /\ answers[n].id <= lastId
        BY <1>1, <3>1, <3>2 DEF EndAnswer
      <4> QED BY <1>2, <4>1
    <3> QED BY <3>2 DEF Has
  <2>4. \A i \in DOMAIN inbox' : inbox'[i].op = "ABORT" =>
            ~Has(answers, EndAnswer("ABORTED", inbox'[i].id))
    BY <1>4, <1>5 DEF WebInv, ClientOK
  <2>5. Cur' # lastId' /\ Cur' > 0 => Ended(answers, Cur')
    BY <2>2
  <2> QED BY <1>1, <1>2, <2>1, <2>3, <2>4, <2>5 DEF ClientOK
<1> QED BY <1>1, <1>10, <1>12, <1>13, <1>14, Untouched DEF WebInv

LEMMA ClientAbortKeeps ==
  ASSUME WebInv, ClientAbort
  PROVE  WebInv'
<1> USE WebDispatcherAssumption
<1> DEFINE m == AbortOf(lastId)
           new == Len(inbox) + 1
<1>1. /\ client = "calculating" /\ client' = "aborting"
      /\ inbox' = Append(inbox, m)
      /\ UNCHANGED <<lastId, received, dispatcherVars>>
  BY DEF ClientAbort, AbortOf
<1>2. lastId \in 0..MaxCalc /\ lastId \in Nat /\ lastId > 0
  BY <1>1, CurIs DEF WebInv, ClientOK
<1>3. m \in Message
  BY <1>2 DEF AbortOf, Message, Ids
<1>4. m.op = "ABORT" /\ m.id = lastId /\ Aborting(lastId, m)
  BY <1>2 DEF AbortOf, Aborting
<1> HIDE DEF m
<1>5. /\ inbox' \in Seq(Message) /\ DOMAIN inbox' = DOMAIN inbox \cup {new}
      /\ new \notin DOMAIN inbox /\ inbox'[new] = m
      /\ \A i \in DOMAIN inbox : inbox'[i] = inbox[i] /\ i < new
  BY <1>1, <1>3, InboxAdds
<1>6. new \in Nat /\ \A k \in DOMAIN inbox' : k \in Nat /\ k <= new
  BY <1>5, CurIs
<1> HIDE DEF new
<1>7. \A i \in DOMAIN inbox : Earlier(lastId, inbox[i]) \/ Starting(lastId, inbox[i])
  BY <1>1 DEF WebInv, InboxOK
<1>8. ~Earlier(lastId, m) /\ ~Starting(lastId, m)
  BY <1>2, <1>4, Kinds
<1>9. Cur' = Cur
  BY <1>1, <1>4, <1>5 DEF Cur
<1>10. InboxOK'
  <2>1. \A i \in DOMAIN inbox' :
            \/ Earlier(lastId, inbox'[i])
            \/ Starting(lastId, inbox'[i])
            \/ Aborting(lastId, inbox'[i])
    BY <1>4, <1>5, <1>7
  <2>2. \A i, j \in DOMAIN inbox' : i < j =>
            \/ i \in DOMAIN inbox /\ j = new
            \/ i \in DOMAIN inbox /\ j \in DOMAIN inbox
    BY <1>5, <1>6
  <2>3. \A i \in DOMAIN inbox :
            \/ Earlier(lastId, inbox'[i]) /\ ~Earlier(lastId, inbox'[new])
            \/ Starting(lastId, inbox'[i]) /\ Aborting(lastId, inbox'[new])
    BY <1>4, <1>5, <1>7, <1>8
  <2>4. \A i, j \in DOMAIN inbox : i < j =>
            \/ Earlier(lastId, inbox'[i]) /\ ~Earlier(lastId, inbox'[j])
            \/ Starting(lastId, inbox'[i]) /\ Aborting(lastId, inbox'[j])
    BY <1>5 DEF WebInv, InboxOK
  <2>5. \A i, j \in DOMAIN inbox' : i < j =>
            \/ Earlier(lastId, inbox'[i]) /\ ~Earlier(lastId, inbox'[j])
            \/ Starting(lastId, inbox'[i]) /\ Aborting(lastId, inbox'[j])
    BY <2>2, <2>3, <2>4
  <2>6. \A i \in DOMAIN inbox' :
            Earlier(lastId, inbox'[i]) => \E j \in DOMAIN inbox' : Starting(lastId, inbox'[j])
    <3>1. \A i \in DOMAIN inbox :
              Earlier(lastId, inbox'[i]) => \E j \in DOMAIN inbox : Starting(lastId, inbox'[j])
      BY <1>5 DEF WebInv, InboxOK
    <3> QED BY <1>5, <1>8, <3>1
  <2> QED BY <1>1, <2>1, <2>5, <2>6 DEF InboxOK
<1>11. TypeOK'
  BY <1>1, <1>5 DEF WebInv, TypeOK, dispatcherVars
<1>12. ClientOK'
  <2>1. answers' = answers
    BY <1>1 DEF dispatcherVars
  <2>2. \A i \in DOMAIN inbox' : inbox'[i].op = "ABORT" =>
            ~Has(answers, EndAnswer("ABORTED", inbox'[i].id))
    BY <1>1, <1>4, <1>5 DEF WebInv, ClientOK
  <2> QED BY <1>1, <1>2, <1>9, <2>1, <2>2 DEF ClientOK, WebInv
<1> QED BY <1>1, <1>9, <1>10, <1>11, <1>12, Untouched DEF WebInv

LEMMA ClientReceiveKeeps ==
  ASSUME WebInv, ClientReceive
  PROVE  WebInv'
<1> USE WebDispatcherAssumption
<1>1. PICK n \in received + 1 .. Len(answers) :
          /\ IsEnd(answers[n])
          /\ received' = n
          /\ client' = IF answers[n].id = lastId THEN "waiting" ELSE client
          /\ UNCHANGED <<lastId, inbox, dispatcherVars>>
  BY DEF ClientReceive
<1>2. /\ received \in 0..Len(answers) /\ answers \in Seq(Answer) /\ Len(answers) \in Nat
      /\ DOMAIN answers = 1..Len(answers)
  BY DEF WebInv, TypeOK
<1>3. n \in DOMAIN answers /\ n \in 0..Len(answers) /\ answers[n] \in Answer
  BY <1>1, <1>2
<1>4. Cur' = Cur
  BY <1>1 DEF Cur
<1>5. ASSUME answers[n].id = lastId
      PROVE  /\ lastId > 0 /\ Ended(answers, lastId) /\ Cur = lastId
             /\ \A i \in DOMAIN inbox : ~Starting(lastId, inbox[i]) /\ ~Earlier(lastId, inbox[i])
  <2>1. lastId \in Ids /\ lastId \in Nat /\ lastId > 0
    BY <1>3, <1>5 DEF Answer, Ids
  <2>2. answers[n] = EndAnswer("COMPLETED", lastId) \/ answers[n] = EndAnswer("ABORTED", lastId)
    BY <1>1, <1>3, <1>5 DEF Answer, IsEnd, EndAnswer
  <2>3. Cur # lastId - 1
    <3>1. answers[n].id <= Cur
      BY <1>3 DEF WebInv, AnswersOK
    <3> QED BY <1>5, <2>1, <3>1
  <2>4. \A i \in DOMAIN inbox : ~Starting(lastId, inbox[i])
    BY <2>3, CurIs
  <2>5. \A i \in DOMAIN inbox : ~Earlier(lastId, inbox[i])
    BY <2>4 DEF WebInv, InboxOK
  <2> QED BY <1>3, <2>1, <2>2, <2>4, <2>5, CurIs DEF Ended, Has
<1>6. InboxOK'
  BY <1>1, <1>5 DEF WebInv, InboxOK
<1>7. ClientOK'
  BY <1>1, <1>4, <1>5 DEF WebInv, ClientOK, dispatcherVars
<1>8. TypeOK'
  BY <1>1, <1>3 DEF WebInv, TypeOK, dispatcherVars
<1> QED BY <1>1, <1>4, <1>6, <1>7, <1>8, Untouched DEF WebInv

-----------------------------------------------------------------------------
(* The dispatcher takes a message.                                         *)

\* What is left of the inbox is in order, and its messages are later ones.
LEMMA InboxTail ==
  ASSUME WebInv, inbox # <<>>, inbox' = Tail(inbox), UNCHANGED <<client, lastId>>
  PROVE  /\ inbox' \in Seq(Message) /\ InboxOK'
         /\ 1 \in DOMAIN inbox /\ inbox[1] = Head(inbox) /\ Head(inbox) \in Message
         /\ \A i \in DOMAIN inbox' : i + 1 \in DOMAIN inbox /\ inbox'[i] = inbox[i + 1]
         /\ \A i \in DOMAIN inbox' :
               \/ Earlier(lastId, Head(inbox)) /\ ~Earlier(lastId, inbox'[i])
               \/ Starting(lastId, Head(inbox)) /\ Aborting(lastId, inbox'[i])
         /\ \A i \in DOMAIN inbox : i = 1 \/ \E j \in DOMAIN inbox' : inbox'[j] = inbox[i]
<1>1. /\ inbox \in Seq(Message) /\ DOMAIN inbox = 1 .. Len(inbox) /\ Len(inbox) \in Nat
      /\ lastId \in Nat
  BY CurIs
<1>2. /\ inbox' \in Seq(Message) /\ DOMAIN inbox' = 1 .. Len(inbox) - 1 /\ Len(inbox) > 0
      /\ \A i \in 1 .. Len(inbox) - 1 : inbox'[i] = inbox[i + 1]
      /\ inbox[1] = Head(inbox) /\ Head(inbox) \in Message
  BY <1>1
<1>3. 1 \in DOMAIN inbox
  BY <1>1, <1>2
<1>4. \A i \in DOMAIN inbox' : i + 1 \in DOMAIN inbox /\ inbox'[i] = inbox[i + 1] /\ 1 < i + 1
  BY <1>1, <1>2
<1>5. \A i \in DOMAIN inbox : i = 1 \/ \E j \in DOMAIN inbox' : inbox'[j] = inbox[i]
  <2> SUFFICES ASSUME NEW i \in DOMAIN inbox, i # 1
               PROVE  \E j \in DOMAIN inbox' : inbox'[j] = inbox[i]
    OBVIOUS
  <2>1. i - 1 \in DOMAIN inbox' /\ (i - 1) + 1 = i
    BY <1>1, <1>2
  <2> QED BY <1>2, <2>1
<1>6. \A i \in DOMAIN inbox' :
          \/ Earlier(lastId, inbox[1]) /\ ~Earlier(lastId, inbox'[i])
          \/ Starting(lastId, inbox[1]) /\ Aborting(lastId, inbox'[i])
  BY <1>3, <1>4 DEF WebInv, InboxOK
<1>7. InboxOK'
  <2>1. \A i \in DOMAIN inbox' :
            \/ Earlier(lastId, inbox'[i])
            \/ Starting(lastId, inbox'[i])
            \/ Aborting(lastId, inbox'[i])
    BY <1>4 DEF WebInv, InboxOK
  <2>2. \A i, j \in DOMAIN inbox' : i < j =>
            \/ Earlier(lastId, inbox'[i]) /\ ~Earlier(lastId, inbox'[j])
            \/ Starting(lastId, inbox'[i]) /\ Aborting(lastId, inbox'[j])
    <3>1. \A i, j \in DOMAIN inbox' : i < j => i + 1 < j + 1
      BY <1>1, <1>2
    <3> QED BY <1>4, <3>1 DEF WebInv, InboxOK
  <2>3. \A i \in DOMAIN inbox' : ~Earlier(lastId, inbox'[i])
    BY <1>1, <1>6, Kinds
  <2>4. \A i \in DOMAIN inbox' :
            /\ Starting(lastId, inbox'[i]) => client # "waiting"
            /\ Aborting(lastId, inbox'[i]) => client # "calculating"
    BY <1>4 DEF WebInv, InboxOK
  <2> QED BY <2>1, <2>2, <2>3, <2>4 DEF InboxOK
<1> QED BY <1>2, <1>3, <1>4, <1>5, <1>6, <1>7

\* What START leaves behind, if nothing was left of the calculation before.
LEMMA Started ==
  ASSUME WebInv, OnStart
  PROVE  \E given \in 1..NumBlocks :
         /\ Head(inbox).id = lastId /\ lastId \in Nat \ {0} /\ lastId \in Ids
         /\ Cur = lastId - 1 /\ Cur' = lastId
         /\ (Cur > 0 => Ended(answers, Cur))
         /\ workers' \in Seq([mail : Seq(Block), posted : Seq(Block)])
         /\ given \in DOMAIN workers' /\ DOMAIN workers' \subseteq Nat \ {0}
         /\ \A i \in DOMAIN workers' :
               workers'[i] = IF i <= given
                             THEN [mail |-> <<[id |-> lastId, block |-> i]>>, posted |-> <<>>]
                             ELSE NewWorker
         /\ \A i \in 1..given : i \in DOMAIN workers'
         /\ blocks' \in Seq(Block) /\ Len(blocks') = NumBlocks - given
         /\ \A j \in 1 .. NumBlocks - given :
               blocks'[j] = [id |-> lastId, block |-> given + j]
         /\ workingCount' = given
         /\ answers' = answers \o StartedUpTo(lastId, given)
         /\ UNCHANGED clientVars
<1> USE WebDispatcherAssumption
<1> DEFINE count == Head(inbox).workers
           given == MinOf(count, NumBlocks)
           ws == SetWorkerCount(count)
           all == AllBlocks(lastId)
<1>1. /\ inbox # <<>> /\ Head(inbox).op = "START" /\ inbox' = Tail(inbox)
      /\ UNCHANGED <<client, lastId>> /\ UNCHANGED clientVars
  BY DEF OnStart, clientVars
<1>2. /\ 1 \in DOMAIN inbox /\ inbox[1] = Head(inbox)
      /\ \A i \in DOMAIN inbox' :
               \/ Earlier(lastId, Head(inbox)) /\ ~Earlier(lastId, inbox'[i])
               \/ Starting(lastId, Head(inbox)) /\ Aborting(lastId, inbox'[i])
  BY <1>1, InboxTail
<1>3. Starting(lastId, Head(inbox))
  BY <1>1, <1>2, CurIs
<1>4. Head(inbox).id = lastId /\ count \in WorkerCounts /\ ~Earlier(lastId, Head(inbox))
  BY <1>3, Kinds
<1>5. /\ lastId \in Nat \ {0} /\ lastId \in Ids /\ lastId - 1 # lastId
      /\ Cur = lastId - 1
  BY <1>2, <1>3, CurIs DEF Ids
<1>6. Cur' = lastId
  <2>1. \A i \in DOMAIN inbox' : inbox'[i].op # "START"
    BY <1>2, <1>4, Kinds
  <2> QED BY <1>1, <2>1 DEF Cur
<1>7. Cur > 0 => Ended(answers, Cur)
  BY <1>5 DEF WebInv, ClientOK
<1>8. Resting
  BY <1>5, <1>7 DEF WebInv, WorkOK
<1>9. count \in Nat \ {0} /\ given \in 1..NumBlocks /\ given \in 1..count
  <2>1. count \in Nat \ {0} /\ NumBlocks \in Nat \ {0}
    BY <1>4
  <2> HIDE DEF count
  <2> QED BY <2>1 DEF MinOf
<1>10. /\ workers' = [i \in DOMAIN ws |->
                         IF i <= given THEN Post(ws, i, all[i])[i] ELSE ws[i]]
       /\ blocks' = SubSeq(all, given + 1, NumBlocks)
       /\ workingCount' = given
       /\ answers' = answers \o
              [i \in 1..given |-> BlockAnswer("BLOCK_STARTED", all[i])]
  BY <1>4 DEF OnStart
<1>11. DOMAIN ws = 1..count /\ \A i \in 1..count : ws[i] = NewWorker
  BY <1>8 DEF SetWorkerCount, Resting
<1>12. all \in Seq(Block) /\ Len(all) = NumBlocks /\ \A i \in 1..NumBlocks :
           all[i] = [id |-> lastId, block |-> i]
  <2>1. \A i \in 1..NumBlocks : [id |-> lastId, block |-> i] \in Block
    BY <1>5 DEF Block, Blocks
  <2>2. all = [i \in 1..NumBlocks |-> [id |-> lastId, block |-> i]]
    BY DEF AllBlocks, Blocks
  <2> HIDE DEF all
  <2> QED BY <2>1, <2>2
<1> HIDE DEF given, ws, all, count
<1>13. DOMAIN workers' = 1..count /\ \A i \in 1..count : workers'[i] =
           IF i <= given THEN [mail |-> <<[id |-> lastId, block |-> i]>>, posted |-> <<>>]
           ELSE NewWorker
  <2>1. ASSUME NEW i \in 1..count, i <= given
        PROVE  workers'[i] = [mail |-> <<[id |-> lastId, block |-> i]>>, posted |-> <<>>]
    <3>1. ws[i] = NewWorker /\ i \in DOMAIN ws
      BY <1>11
    <3>2. i \in 1..NumBlocks
      BY <1>9, <2>1
    <3>3. workers'[i] = Post(ws, i, all[i])[i]
      BY <1>10, <2>1, <3>1
    <3>4. Post(ws, i, all[i])[i] = [NewWorker EXCEPT !.mail = Append(@, all[i])]
      BY <3>1 DEF Post
    <3>5. [NewWorker EXCEPT !.mail = Append(@, all[i])] = [mail |-> <<all[i]>>, posted |-> <<>>]
      BY DEF NewWorker
    <3> QED BY <1>12, <3>2, <3>3, <3>4, <3>5
  <2>2. ASSUME NEW i \in 1..count, ~(i <= given)
        PROVE  workers'[i] = NewWorker
    BY <1>10, <1>11, <2>2
  <2> QED BY <1>10, <1>11, <2>1, <2>2
<1>14. workers' \in Seq([mail : Seq(Block), posted : Seq(Block)])
  <2>1. ASSUME NEW i \in 1..count
        PROVE  workers'[i] \in [mail : Seq(Block), posted : Seq(Block)]
    <3>1. i <= given => [id |-> lastId, block |-> i] \in Block
      BY <1>5, <1>9 DEF Block, Blocks
    <3>2. CASE i <= given
      BY <1>13, <3>1, <3>2, WorkerType, Zenon
    <3>3. CASE ~(i <= given)
      <4>1. [id |-> lastId, block |-> 1] \in Block
        BY <1>5 DEF Block, Blocks
      <4> QED BY <1>13, <3>3, <4>1, WorkerType, Zenon DEF NewWorker
    <3> QED BY <3>2, <3>3
  <2>2. workers' = [i \in 1..count |-> workers'[i]]
    <3>1. workers' = [i \in DOMAIN workers' |-> workers'[i]]
      BY <1>10
    <3> QED BY <1>13, <3>1
  <2>3. workers' \in [1..count -> [mail : Seq(Block), posted : Seq(Block)]]
    BY <2>1, <2>2, Zenon
  <2>4. count \in Nat
    BY <1>9
  <2> QED BY <2>3, <2>4, SeqOf, Zenon
<1>15. /\ blocks' \in Seq(Block) /\ Len(blocks') = NumBlocks - given
       /\ \A j \in 1 .. NumBlocks - given : blocks'[j] = [id |-> lastId, block |-> given + j]
  <2>1. blocks' \in Seq(Block) /\ Len(blocks') = NumBlocks - given
    BY <1>9, <1>10, <1>12
  <2>2. \A j \in 1 .. NumBlocks - given :
            blocks'[j] = all[given + j] /\ given + j \in 1..NumBlocks
    BY <1>9, <1>10, <1>12
  <2> QED BY <1>12, <2>1, <2>2
<1>16. answers' = answers \o StartedUpTo(lastId, given)
  <2>1. \A i \in 1..given : all[i] = [id |-> lastId, block |-> i]
    BY <1>9, <1>12
  <2>2. [i \in 1..given |-> BlockAnswer("BLOCK_STARTED", all[i])] = StartedUpTo(lastId, given)
    BY <2>1 DEF StartedUpTo
  <2> QED BY <1>10, <2>2
<1>17. /\ given \in DOMAIN workers' /\ DOMAIN workers' \subseteq Nat \ {0}
       /\ \A i \in 1..given : i \in DOMAIN workers'
  BY <1>9, <1>13
<1> QED BY <1>1, <1>4, <1>5, <1>6, <1>7, <1>9, <1>10, <1>13, <1>14, <1>15, <1>16, <1>17

LEMMA OnStartKeeps ==
  ASSUME WebInv, OnStart
  PROVE  WebInv'
<1> USE WebDispatcherAssumption
<1>1. PICK given \in 1..NumBlocks :
         /\ Head(inbox).id = lastId /\ lastId \in Nat \ {0} /\ lastId \in Ids
         /\ Cur = lastId - 1 /\ Cur' = lastId
         /\ (Cur > 0 => Ended(answers, Cur))
         /\ workers' \in Seq([mail : Seq(Block), posted : Seq(Block)])
         /\ given \in DOMAIN workers' /\ DOMAIN workers' \subseteq Nat \ {0}
         /\ \A i \in DOMAIN workers' :
               workers'[i] = IF i <= given
                             THEN [mail |-> <<[id |-> lastId, block |-> i]>>, posted |-> <<>>]
                             ELSE NewWorker
         /\ \A i \in 1..given : i \in DOMAIN workers'
         /\ blocks' \in Seq(Block) /\ Len(blocks') = NumBlocks - given
         /\ \A j \in 1 .. NumBlocks - given :
               blocks'[j] = [id |-> lastId, block |-> given + j]
         /\ workingCount' = given
         /\ answers' = answers \o StartedUpTo(lastId, given)
         /\ UNCHANGED clientVars
  BY Started
<1>2. /\ given \in Nat \ {0} /\ NumBlocks \in Nat \ {0} /\ given <= NumBlocks
      /\ lastId \in Nat \ {0} /\ lastId \in Ids /\ Cur = lastId - 1 /\ Cur' = lastId
  BY <1>1
<1>3. UNCHANGED <<client, lastId, received>>
  BY <1>1 DEF clientVars
<1>4. /\ inbox # <<>> /\ inbox' = Tail(inbox) /\ Head(inbox).op = "START"
  BY DEF OnStart
<1>5. /\ inbox' \in Seq(Message) /\ InboxOK'
      /\ 1 \in DOMAIN inbox /\ inbox[1] = Head(inbox)
      /\ \A i \in DOMAIN inbox' :
               \/ Earlier(lastId, Head(inbox)) /\ ~Earlier(lastId, inbox'[i])
               \/ Starting(lastId, Head(inbox)) /\ Aborting(lastId, inbox'[i])
  BY <1>3, <1>4, InboxTail
<1>6. client # "waiting"
  BY <1>4, <1>5, CurIs DEF WebInv, InboxOK
<1>7. \A i \in DOMAIN inbox' : inbox'[i].id = lastId
  <2>1. ~Earlier(lastId, Head(inbox))
    BY <1>4, Kinds
  <2> QED BY <1>5, <2>1, Kinds
<1>8. answers \in Seq(Answer) /\ Sound(answers) /\ \A n \in DOMAIN answers : answers[n].id # lastId
  <2>1. \A n \in DOMAIN answers : answers[n].id <= lastId - 1
    BY <1>2 DEF WebInv, AnswersOK
  <2>2. answers \in Seq(Answer) /\ Sound(answers)
    BY DEF WebInv, TypeOK, AnswersOK
  <2>3. \A n \in DOMAIN answers : answers[n].id \in Nat
    BY <2>2 DEF Answer, Ids
  <2>4. \A n \in DOMAIN answers : answers[n].id # lastId
    BY <1>2, <2>1, <2>3
  <2> QED BY <2>2, <2>4
<1>9. /\ answers' \in Seq(Answer) /\ Sound(answers')
      /\ \A x : Has(answers', x) <=>
            \/ Has(answers, x)
            \/ \E i \in 1..given : x = [op |-> "BLOCK_STARTED", id |-> lastId, block |-> i]
  <2>1. answers' = answers \o StartedUpTo(lastId, given)
    BY <1>1
  <2> QED BY <1>2, <1>8, <2>1, SoundStarts
<1>10. \A op, blk : ~Has(answers, [op |-> op, id |-> lastId, block |-> blk])
  BY <1>8 DEF Has
<1>11. \A op : ~Has(answers, EndAnswer(op, lastId))
  BY <1>8 DEF Has, EndAnswer
<1>12. \A id : \A op \in {"COMPLETED", "ABORTED"} :
           Has(answers', EndAnswer(op, id)) <=> Has(answers, EndAnswer(op, id))
  <2>1. \A id, i : \A op \in {"COMPLETED", "ABORTED"} :
            EndAnswer(op, id) # [op |-> "BLOCK_STARTED", id |-> lastId, block |-> i]
    <3> SUFFICES ASSUME NEW op \in {"COMPLETED", "ABORTED"}, NEW id, NEW i,
                        EndAnswer(op, id) = [op |-> "BLOCK_STARTED", id |-> lastId, block |-> i]
                 PROVE  FALSE
      OBVIOUS
    <3>1. EndAnswer(op, id).op = "BLOCK_STARTED" /\ EndAnswer(op, id).op = op
      BY DEF EndAnswer
    <3> QED BY <3>1
  <2> QED BY <1>9, <2>1
<1>13. \A id : Ended(answers', id) <=> Ended(answers, id)
  BY <1>12 DEF Ended
<1>14. ~Ended(answers', lastId)
  BY <1>11, <1>13 DEF Ended
<1>15. \A b : /\ Has(answers', [op |-> "BLOCK_STARTED", id |-> lastId, block |-> b]) <=> b \in 1..given
              /\ ~Has(answers', [op |-> "BLOCK_COMPLETED", id |-> lastId, block |-> b])
  <2>1. \A b, i : [op |-> "BLOCK_STARTED", id |-> lastId, block |-> b]
                     = [op |-> "BLOCK_STARTED", id |-> lastId, block |-> i] => b = i
    OBVIOUS
  <2>2. \A b, i : [op |-> "BLOCK_COMPLETED", id |-> lastId, block |-> b]
                     # [op |-> "BLOCK_STARTED", id |-> lastId, block |-> i]
    OBVIOUS
  <2> QED BY <1>9, <1>10, <2>1, <2>2
<1>16. TypeOK'
  <2>1. received \in 0..Len(answers')
    <3>1. received \in 0..Len(answers) /\ Len(answers) \in Nat /\ Len(answers') \in Nat
      BY <1>9, <1>8 DEF WebInv, TypeOK
    <3>2. Len(answers') >= Len(answers)
      <4>1. StartedUpTo(lastId, given) \in Seq(Answer)
        BY <1>1, <1>2 DEF StartedUpTo, BlockAnswer, Answer, Blocks
      <4> QED BY <1>1, <1>8, <4>1
    <3> QED BY <3>1, <3>2
  <2> QED BY <1>1, <1>2, <1>3, <1>5, <1>9, <2>1 DEF WebInv, TypeOK
<1>17. ClientOK'
  <2>1. \A i \in DOMAIN inbox' : ~Has(answers', EndAnswer("ABORTED", inbox'[i].id))
    BY <1>7, <1>11, <1>12
  <2>2. ~Has(answers', EndAnswer("ABORTED", lastId))
    BY <1>11, <1>12
  <2> QED BY <1>1, <1>3, <1>6, <2>1, <2>2 DEF ClientOK, WebInv
<1>18. AnswersOK'
  <2>1. ASSUME NEW n \in DOMAIN answers'
        PROVE  answers'[n].id <= lastId
    <3>1. Has(answers', answers'[n])
      BY DEF Has
    <3>2. CASE Has(answers, answers'[n])
      <4>1. PICK k \in DOMAIN answers : answers[k] = answers'[n]
        BY <3>2 DEF Has
      <4>2. answers[k].id <= Cur /\ answers[k].id \in Nat
        BY <1>8 DEF WebInv, AnswersOK, Answer, Ids
      <4> QED BY <1>2, <4>1, <4>2
    <3>3. CASE \E i \in 1..given :
                  answers'[n] = [op |-> "BLOCK_STARTED", id |-> lastId, block |-> i]
      <4>1. answers'[n].id = lastId
        BY <3>3
      <4> QED BY <1>1, <4>1
    <3> QED BY <1>9, <3>1, <3>2, <3>3
  <2>2. ASSUME NEW id \in 1..lastId
        PROVE  \E b \in Blocks : Has(answers', [op |-> "BLOCK_STARTED", id |-> id, block |-> b])
    <3>1. CASE id = lastId
      <4>1. 1 \in Blocks /\ 1 \in 1..given
        BY <1>2 DEF Blocks
      <4> QED BY <1>15, <3>1, <4>1
    <3>2. CASE id # lastId
      <4>1. id \in 1..Cur
        BY <1>2, <3>2
      <4>2. \E b \in Blocks : Has(answers, [op |-> "BLOCK_STARTED", id |-> id, block |-> b])
        BY <4>1 DEF WebInv, AnswersOK
      <4> QED BY <1>9, <4>2
    <3> QED BY <3>1, <3>2
  <2>3. ASSUME NEW id \in 1..lastId, id < lastId
        PROVE  Ended(answers', id)
    <3>1. CASE id = Cur
      BY <1>1, <1>13, <3>1
    <3>2. CASE id # Cur
      <4>1. id \in 1..Cur /\ id < Cur
        BY <1>2, <2>3, <3>2
      <4> QED BY <1>13, <4>1 DEF WebInv, AnswersOK
    <3> QED BY <3>1, <3>2
  <2> QED BY <1>1, <1>9, <2>1, <2>2, <2>3 DEF AnswersOK
<1>19. Running'
  <2> DEFINE blk(b) == [id |-> lastId, block |-> b]
  <2>1. \A i \in DOMAIN workers' : i > given => workers'[i] = NewWorker
    BY <1>1, <1>2
  <2>2. \A i \in DOMAIN workers' : i <= given =>
            i \in 1..given /\ workers'[i] = [mail |-> <<blk(i)>>, posted |-> <<>>]
    BY <1>1, <1>2
  <2>3. \A i \in DOMAIN workers' : i <= given \/ i > given
    BY <1>1, <1>2
  <2>4. \A b : \A i \in DOMAIN workers' :
            Holds(workers'[i], blk(b)) <=> i <= given /\ b = i
    <3> SUFFICES ASSUME NEW i \in DOMAIN workers', NEW b
                 PROVE  Holds(workers'[i], blk(b)) <=> i <= given /\ b = i
      OBVIOUS
    <3>1. CASE i <= given
      <4>1. workers'[i] = [mail |-> <<blk(i)>>, posted |-> <<>>]
        BY <2>2, <3>1
      <4>2. Holds(workers'[i], blk(b)) <=> <<blk(b)>> = <<blk(i)>>
        BY <4>1 DEF Holds
      <4>3. <<blk(b)>> = <<blk(i)>> <=> b = i
        OBVIOUS
      <4> QED BY <3>1, <4>2, <4>3
    <3>2. CASE i > given
      <4>1. workers'[i] = [mail |-> <<>>, posted |-> <<>>] /\ ~(i <= given)
        BY <1>1, <1>2, <2>1, <3>2 DEF NewWorker
      <4> QED BY <4>1 DEF Holds
    <3> QED BY <2>3, <3>1, <3>2
  <2>5. \A b : CurBlock(b)' = blk(b)
    BY <1>1 DEF CurBlock
  <2>6. Given' = given
    BY <1>1, <1>2 DEF Given
  <2>7. \A i \in DOMAIN workers' : Busy(i)' <=> i <= given
    <3> SUFFICES ASSUME NEW i \in DOMAIN workers'
                 PROVE  (workers'[i].mail # <<>> \/ workers'[i].posted # <<>>) <=> i <= given
      BY DEF Busy
    <3>1. CASE i <= given
      <4>1. workers'[i].mail = <<blk(i)>> /\ <<blk(i)>> # <<>>
        BY <2>2, <3>1
      <4> QED BY <3>1, <4>1
    <3>2. CASE i > given
      <4>1. workers'[i].mail = <<>> /\ workers'[i].posted = <<>>
        BY <2>1, <3>2 DEF NewWorker
      <4>2. i \in Nat /\ ~(i <= given)
        BY <1>1, <1>2, <3>2
      <4> QED BY <4>1, <4>2
    <3> QED BY <2>3, <3>1, <3>2
  <2>8. BusyWorkers' = 1..given
    <3>1. \A i \in DOMAIN workers' : i <= given => i \in 1..given
      BY <2>2
    <3>2. \A i \in 1..given : i \in DOMAIN workers' /\ i <= given
      BY <1>1, <1>2
    <3> QED BY <2>7, <3>1, <3>2 DEF BusyWorkers
  <2>9. Cardinality(1..given) = given /\ 1..given # {}
    <3>1. 1 \in Int /\ given \in Int /\ ~(1 > given) /\ given - 1 + 1 = given /\ 1 \in 1..given
      BY <1>2
    <3> QED BY <3>1, FS_Interval
  <2>10. Len(blocks') < NumBlocks
    BY <1>1, <1>2
  <2>11. \A j \in 1 .. Len(blocks') : blocks'[j] = blk(given + j)
    BY <1>1
  <2>12. \A i \in DOMAIN workers' :
            workers'[i] = NewWorker \/ \E b \in 1..given : Holds(workers'[i], blk(b))
    BY <2>1, <2>2, <2>3, <2>4
  <2>13. \A i, j \in DOMAIN workers' : \A b \in Blocks :
            Holds(workers'[i], blk(b)) /\ Holds(workers'[j], blk(b)) => i = j
    BY <2>4
  <2>14. ASSUME NEW b \in Blocks
         PROVE  /\ Has(answers', BlockAnswer("BLOCK_STARTED", blk(b))) <=> b <= given
                /\ Has(answers', BlockAnswer("BLOCK_COMPLETED", blk(b))) <=>
                      b <= given /\ \A i \in DOMAIN workers' : ~Holds(workers'[i], blk(b))
    <3>1. b \in 1..given <=> b <= given
      BY <1>2 DEF Blocks
    <3>2. b <= given => b \in DOMAIN workers' /\ Holds(workers'[b], blk(b))
      BY <1>1, <2>4, <3>1
    <3> QED BY <1>15, <3>1, <3>2 DEF BlockAnswer
  <2> HIDE DEF blk
  <2> QED BY <1>1, <2>5, <2>6, <2>8, <2>9, <2>10, <2>11, <2>12, <2>13, <2>14 DEF Running
<1>20. WorkOK'
  BY <1>1, <1>14, <1>19 DEF WorkOK
<1> QED BY <1>5, <1>16, <1>17, <1>18, <1>20 DEF WebInv

\* The ABORT that is handled is of the calculation of the dispatcher, which has
\* not been reported as aborted.
LEMMA AbortIsOfCur ==
  ASSUME WebInv, OnAbort
  PROVE  /\ inbox' \in Seq(Message) /\ InboxOK'
         /\ Cur \in Nat \ {0} /\ Cur \in Ids /\ Cur' = Cur /\ Head(inbox).id = Cur
         /\ ~Has(answers, EndAnswer("ABORTED", Cur))
         /\ client = "calculating" => Cur # lastId
         /\ \A i \in DOMAIN inbox' :
               /\ inbox'[i].op = "ABORT" => inbox'[i].id # Cur
               /\ inbox'[i].op = "ABORT" => ~Has(answers, EndAnswer("ABORTED", inbox'[i].id))
<1> USE WebDispatcherAssumption
<1>1. /\ inbox # <<>> /\ Head(inbox).op = "ABORT" /\ inbox' = Tail(inbox)
      /\ UNCHANGED <<client, lastId>>
  BY DEF OnAbort, clientVars
<1>2. /\ inbox' \in Seq(Message) /\ InboxOK'
      /\ 1 \in DOMAIN inbox /\ inbox[1] = Head(inbox) /\ Head(inbox) \in Message
      /\ \A i \in DOMAIN inbox' : i + 1 \in DOMAIN inbox /\ inbox'[i] = inbox[i + 1]
      /\ \A i \in DOMAIN inbox' :
            \/ Earlier(lastId, Head(inbox)) /\ ~Earlier(lastId, inbox'[i])
            \/ Starting(lastId, Head(inbox)) /\ Aborting(lastId, inbox'[i])
      /\ \A i \in DOMAIN inbox : i = 1 \/ \E j \in DOMAIN inbox' : inbox'[j] = inbox[i]
  BY <1>1, InboxTail
<1>3. ~Starting(lastId, Head(inbox))
  BY <1>1, Kinds
<1>4. Earlier(lastId, Head(inbox)) \/ Aborting(lastId, Head(inbox))
  BY <1>2, <1>3 DEF WebInv, InboxOK
<1>5. lastId \in 0..MaxCalc /\ lastId \in Nat
  BY CurIs
<1>6. Cur' = Cur
  <2>1. (\E i \in DOMAIN inbox : inbox[i].op = "START")
            <=> (\E i \in DOMAIN inbox' : inbox'[i].op = "START")
    <3>1. inbox[1].op # "START"
      BY <1>1, <1>2
    <3> QED BY <1>2, <3>1
  <2> QED BY <1>1, <2>1 DEF Cur
<1>7. CASE Earlier(lastId, Head(inbox))
  <2>1. lastId > 1 /\ Head(inbox).id = lastId - 1
    BY <1>7, Kinds DEF Earlier
  <2>2. \E j \in DOMAIN inbox : Starting(lastId, inbox[j])
    BY <1>2, <1>7 DEF WebInv, InboxOK
  <2>3. Cur = lastId - 1
    BY <2>2, CurIs
  <2>4. Cur \in Nat \ {0} /\ Cur \in Ids /\ Cur # lastId
    BY <1>5, <2>1, <2>3 DEF Ids
  <2>5. \A i \in DOMAIN inbox' : inbox'[i].op = "ABORT" => inbox'[i].id = lastId
    <3>1. \A i \in DOMAIN inbox' : ~Earlier(lastId, inbox'[i])
      BY <1>2, <1>3
    <3> QED BY <1>1, <1>2, <3>1, Kinds DEF InboxOK
  <2> QED BY <1>1, <1>2, <1>6, <2>1, <2>3, <2>4, <2>5 DEF WebInv, ClientOK
<1>8. CASE ~Earlier(lastId, Head(inbox))
  <2>1. Aborting(lastId, Head(inbox)) /\ Head(inbox).id = lastId /\ lastId > 0
    BY <1>4, <1>8, Kinds DEF Aborting
  <2>2. DOMAIN inbox' = {}
    BY <1>2, <1>3, <1>8
  <2>3. \A j \in DOMAIN inbox : ~Starting(lastId, inbox[j])
    BY <1>2, <1>3, <2>2
  <2>4. Cur = lastId
    BY <2>3, CurIs
  <2>5. client # "calculating"
    BY <1>2, <2>1 DEF WebInv, InboxOK
  <2>6. Cur \in Nat \ {0} /\ Cur \in Ids
    BY <1>5, <2>1, <2>4 DEF Ids
  <2> QED BY <1>1, <1>2, <1>6, <2>1, <2>2, <2>4, <2>5, <2>6 DEF WebInv, ClientOK
<1> QED BY <1>7, <1>8

LEMMA OnAbortKeeps ==
  ASSUME WebInv, OnAbort
  PROVE  WebInv'
<1> USE WebDispatcherAssumption
<1> DEFINE a == EndAnswer("ABORTED", Cur)
<1>1. /\ inbox' \in Seq(Message) /\ InboxOK'
      /\ Cur \in Nat \ {0} /\ Cur \in Ids /\ Cur' = Cur /\ Head(inbox).id = Cur
      /\ ~Has(answers, a)
      /\ client = "calculating" => Cur # lastId
      /\ \A i \in DOMAIN inbox' :
            /\ inbox'[i].op = "ABORT" => inbox'[i].id # Cur
            /\ inbox'[i].op = "ABORT" => ~Has(answers, EndAnswer("ABORTED", inbox'[i].id))
  BY AbortIsOfCur
<1>2. /\ blocks' = <<>> /\ workers' = [i \in DOMAIN workers |-> NewWorker]
      /\ answers' = Append(answers, a)
      /\ UNCHANGED <<client, lastId, received, workingCount>>
  BY <1>1 DEF OnAbort, BlocksAfterAbort, WorkersAfterAbort, clientVars
<1>3. answers \in Seq(Answer) /\ Sound(answers) /\ received \in 0..Len(answers)
  BY DEF WebInv, TypeOK, AnswersOK
<1>4. a \in Answer /\ a.op = "ABORTED" /\ a.id = Cur /\ a = [op |-> "ABORTED", id |-> Cur]
  BY <1>1 DEF Answer, EndAnswer
<1>5. \A n \in DOMAIN answers :
          answers[n].id = a.id /\ IsEnd(answers[n]) =>
              answers[n].op = "COMPLETED" /\ a.op = "ABORTED"
  <2> SUFFICES ASSUME NEW n \in DOMAIN answers, answers[n].id = Cur, IsEnd(answers[n])
               PROVE  answers[n].op = "COMPLETED"
    BY <1>4
  <2>1. answers[n] \in Answer
    BY <1>3
  <2>2. answers[n].op = "ABORTED" => answers[n] = [op |-> "ABORTED", id |-> Cur]
    BY <2>1 DEF Answer
  <2>3. answers[n] # a
    BY <1>1 DEF Has
  <2> QED BY <1>4, <2>2, <2>3 DEF IsEnd
<1> HIDE DEF a
<1>6. Sound(answers')
  BY <1>1, <1>2, <1>3, <1>4, <1>5, SoundOne
<1>7. \A x : Has(answers', x) <=> Has(answers, x) \/ x = a
  BY <1>2, <1>3, <1>4, HasAppend
<1>8. /\ answers' \in Seq(Answer) /\ Len(answers') = Len(answers) + 1 /\ Len(answers) \in Nat
      /\ DOMAIN answers' = 1 .. Len(answers) + 1 /\ DOMAIN answers = 1 .. Len(answers)
      /\ \A n \in 1 .. Len(answers) : answers'[n] = answers[n]
      /\ answers'[Len(answers) + 1] = a
  <2>1. Len(answers) \in Nat /\ DOMAIN answers = 1 .. Len(answers)
    BY <1>3
  <2> QED BY <1>2, <1>3, <1>4, <2>1, AppendOne
<1>9. Ended(answers', Cur) /\ \A id : Ended(answers, id) => Ended(answers', id)
  BY <1>4, <1>7 DEF Ended, EndAnswer
<1>10. TypeOK'
  <2>1. workers' \in Seq([mail : Seq(Block), posted : Seq(Block)])
    <3>1. workers \in Seq([mail : Seq(Block), posted : Seq(Block)])
      BY DEF WebInv, TypeOK
    <3>2. Len(workers) \in Nat /\ DOMAIN workers = 1 .. Len(workers)
      BY <3>1
    <3>3. NewWorker \in [mail : Seq(Block), posted : Seq(Block)]
      <4>1. [id |-> Cur, block |-> 1] \in Block
        BY <1>1 DEF Block, Blocks
      <4> QED BY <4>1, WorkerType, Zenon DEF NewWorker
    <3>4. workers' \in [1 .. Len(workers) -> [mail : Seq(Block), posted : Seq(Block)]]
      BY <1>2, <3>2, <3>3, Zenon
    <3> QED BY <3>2, <3>4, SeqOf, Zenon
  <2>2. received' \in 0..Len(answers')
    BY <1>2, <1>3, <1>8
  <2>3. blocks' \in Seq(Block)
    BY <1>2
  <2>4. /\ client' \in {"waiting", "calculating", "aborting"}
        /\ lastId' \in 0..MaxCalc /\ workingCount' \in Nat
    BY <1>2 DEF WebInv, TypeOK
  <2> QED BY <1>1, <1>8, <2>1, <2>2, <2>3, <2>4 DEF TypeOK
<1>11. ClientOK'
  <2>1. \A id : id # Cur => EndAnswer("ABORTED", id) # a
    BY <1>4 DEF EndAnswer
  <2>2. client = "calculating" => ~Has(answers', EndAnswer("ABORTED", lastId))
    BY <1>1, <1>7, <2>1 DEF WebInv, ClientOK
  <2>3. \A i \in DOMAIN inbox' : inbox'[i].op = "ABORT" =>
            ~Has(answers', EndAnswer("ABORTED", inbox'[i].id))
    BY <1>1, <1>7, <2>1
  <2>4. client = "waiting" /\ lastId > 0 => Ended(answers', lastId)
    BY <1>9 DEF WebInv, ClientOK
  <2>5. client # "waiting" => lastId > 0
    BY DEF WebInv, ClientOK
  <2> QED BY <1>1, <1>2, <1>9, <2>2, <2>3, <2>4, <2>5 DEF ClientOK
<1>12. AnswersOK'
  <2>1. \A n \in DOMAIN answers' : answers'[n].id <= Cur
    <3>1. \A n \in DOMAIN answers' : n \in 1 .. Len(answers) \/ n = Len(answers) + 1
      BY <1>8
    <3>2. \A n \in 1 .. Len(answers) : answers[n].id <= Cur
      BY <1>8 DEF WebInv, AnswersOK
    <3>3. a.id <= Cur
      BY <1>1, <1>4
    <3> QED BY <1>8, <3>1, <3>2, <3>3
  <2> QED BY <1>1, <1>6, <1>7, <1>9, <2>1 DEF WebInv, AnswersOK
<1>13. WorkOK'
  BY <1>1, <1>2, <1>9 DEF WorkOK, Resting
<1> QED BY <1>1, <1>10, <1>11, <1>12, <1>13 DEF WebInv

-----------------------------------------------------------------------------
(* The workers, and the dispatcher when a worker has posted a block.       *)

\* A worker that has something has one block of the calculation under way.
LEMMA BusyRuns ==
  ASSUME WebInv, NEW i \in DOMAIN workers, Busy(i)
  PROVE  /\ Running /\ Cur \in Ids /\ ~Ended(answers, Cur)
         /\ Given \in 1..NumBlocks /\ Len(blocks) = NumBlocks - Given
         /\ \E b \in 1..Given : b \in Blocks /\ Holds(workers[i], CurBlock(b))
<1> USE WebDispatcherAssumption
<1>1. workers[i] # NewWorker
  BY DEF Busy, NewWorker
<1>2. Running /\ Cur # 0 /\ ~Ended(answers, Cur)
  BY <1>1 DEF WebInv, WorkOK, Resting
<1>3. Cur \in Ids
  <2>1. Cur \in Nat /\ Cur <= lastId /\ lastId \in 0..MaxCalc
    BY CurIs
  <2> QED BY <1>2, <2>1 DEF Ids
<1>4. Given \in 1..NumBlocks /\ Len(blocks) = NumBlocks - Given
  <2>1. Len(blocks) \in Nat /\ Len(blocks) < NumBlocks
    BY <1>2 DEF Running, WebInv, TypeOK
  <2> QED BY <2>1 DEF Given
<1>5. \E b \in 1..Given : Holds(workers[i], CurBlock(b))
  BY <1>1, <1>2 DEF Running
<1>6. 1..Given \subseteq Blocks
  BY <1>4 DEF Blocks
<1> QED BY <1>2, <1>3, <1>4, <1>5, <1>6

\* What a worker has besides determines the worker.
LEMMA HoldsOne ==
  ASSUME NEW w, NEW blk, Holds(w, blk)
  PROVE  /\ w.mail # <<>> => w = [mail |-> <<blk>>, posted |-> <<>>]
         /\ w.posted # <<>> => w = [mail |-> <<>>, posted |-> <<blk>>]
         /\ w # NewWorker /\ (w.mail # <<>> \/ w.posted # <<>>)
         /\ \A other : Holds(w, other) => other = blk
<1>1. <<blk>> # <<>> /\ \A other : <<blk>> = <<other>> => other = blk
  OBVIOUS
<1> QED BY <1>1 DEF Holds, NewWorker

\* Who is busy has a block, who is not has none.
LEMMA BusyHolds ==
  ASSUME Running, NEW i \in DOMAIN workers
  PROVE  /\ Busy(i) <=> \E b \in 1..Given : Holds(workers[i], CurBlock(b))
         /\ Busy(i) <=> workers[i] # NewWorker
<1>1. workers[i] = NewWorker \/ \E b \in 1..Given : Holds(workers[i], CurBlock(b))
  BY DEF Running
<1>2. workers[i] = NewWorker => ~Busy(i)
  BY DEF Busy, NewWorker
<1>3. (\E b \in 1..Given : Holds(workers[i], CurBlock(b))) => Busy(i) /\ workers[i] # NewWorker
  BY HoldsOne DEF Busy
<1> QED BY <1>1, <1>2, <1>3

LEMMA WorkerRunKeeps ==
  ASSUME WebInv, NEW i \in DOMAIN workers, WorkerRun(i)
  PROVE  WebInv'
<1>1. /\ workers[i].mail # <<>>
      /\ workers' = [workers EXCEPT ![i] = [mail |-> Tail(@.mail),
                                            posted |-> Append(@.posted, Head(@.mail))]]
      /\ UNCHANGED <<clientVars, inbox, answers, blocks, workingCount>>
  BY DEF WorkerRun
<1>2. Busy(i)
  BY <1>1 DEF Busy
<1>3. Running /\ Cur \in Ids /\ ~Ended(answers, Cur)
  BY <1>2, BusyRuns
<1>4. PICK b \in 1..Given : b \in Blocks /\ Holds(workers[i], CurBlock(b))
  BY <1>2, BusyRuns
<1>5. workers[i] = [mail |-> <<CurBlock(b)>>, posted |-> <<>>]
  BY <1>1, <1>4, HoldsOne
<1>6. workers' = [workers EXCEPT ![i] = [mail |-> <<>>, posted |-> <<CurBlock(b)>>]]
  <2>1. /\ Tail(workers[i].mail) = <<>> /\ Head(workers[i].mail) = CurBlock(b)
        /\ Append(workers[i].posted, Head(workers[i].mail)) = <<CurBlock(b)>>
    BY <1>5
  <2> QED BY <1>1, <2>1
<1>7. workers \in Seq([mail : Seq(Block), posted : Seq(Block)])
  BY DEF WebInv, TypeOK
<1>8. Cur' = Cur
  BY <1>1 DEF Cur, clientVars
<1>9. TypeOK'
  <2>1. CurBlock(b) \in Block
    BY <1>3, <1>4 DEF CurBlock, Block
  <2>2. [mail |-> <<>>, posted |-> <<CurBlock(b)>>] \in [mail : Seq(Block), posted : Seq(Block)]
    BY <2>1, WorkerType, Zenon
  <2>3. workers' \in Seq([mail : Seq(Block), posted : Seq(Block)])
    BY <1>6, <1>7, <2>2
  <2> QED BY <1>1, <2>3 DEF WebInv, TypeOK, clientVars
<1>10. InboxOK' /\ ClientOK' /\ AnswersOK'
  BY <1>1, <1>8 DEF WebInv, InboxOK, ClientOK, AnswersOK, clientVars
<1>11. /\ DOMAIN workers' = DOMAIN workers
       /\ \A k \in DOMAIN workers : k # i => workers'[k] = workers[k]
       /\ workers'[i] = [mail |-> <<>>, posted |-> <<CurBlock(b)>>]
  BY <1>6
<1>12. \A k \in DOMAIN workers :
          /\ \A c : Holds(workers'[k], CurBlock(c)) <=> Holds(workers[k], CurBlock(c))
          /\ workers'[k] = NewWorker <=> workers[k] = NewWorker
          /\ Busy(k)' <=> Busy(k)
  <2> SUFFICES ASSUME NEW k \in DOMAIN workers
               PROVE  /\ \A c : Holds(workers'[k], CurBlock(c)) <=> Holds(workers[k], CurBlock(c))
                      /\ workers'[k] = NewWorker <=> workers[k] = NewWorker
                      /\ Busy(k)' <=> Busy(k)
    OBVIOUS
  <2>1. CASE k # i
    BY <1>11, <2>1 DEF Busy
  <2>2. CASE k = i
    <3>1. Holds(workers'[i], CurBlock(b))
      BY <1>11 DEF Holds
    <3>2. \A c : Holds(workers'[i], CurBlock(c)) <=> CurBlock(c) = CurBlock(b)
      BY <3>1, HoldsOne
    <3>3. \A c : Holds(workers[i], CurBlock(c)) <=> CurBlock(c) = CurBlock(b)
      BY <1>4, HoldsOne
    <3>4. Busy(i)' /\ workers'[i] # NewWorker /\ workers[i] # NewWorker
      BY <1>4, <3>1, HoldsOne DEF Busy
    <3> QED BY <1>2, <2>2, <3>2, <3>3, <3>4
  <2> QED BY <2>1, <2>2
<1>13. Running'
  <2>1. BusyWorkers' = BusyWorkers
    BY <1>11, <1>12 DEF BusyWorkers
  <2>2. Given' = Given
    BY <1>1 DEF Given
  <2>3. \A c : CurBlock(c)' = CurBlock(c)
    BY <1>8 DEF CurBlock
  <2>4. \A k \in DOMAIN workers' :
            workers'[k] = NewWorker \/ \E c \in 1..Given : Holds(workers'[k], CurBlock(c))
    BY <1>3, <1>11, <1>12 DEF Running
  <2>5. \A k, l \in DOMAIN workers' : \A c \in Blocks :
            Holds(workers'[k], CurBlock(c)) /\ Holds(workers'[l], CurBlock(c)) => k = l
    BY <1>3, <1>11, <1>12 DEF Running
  <2>6. \A c \in Blocks :
            /\ Has(answers, BlockAnswer("BLOCK_STARTED", CurBlock(c))) <=> c <= Given
            /\ Has(answers, BlockAnswer("BLOCK_COMPLETED", CurBlock(c))) <=>
                  c <= Given /\ \A k \in DOMAIN workers' : ~Holds(workers'[k], CurBlock(c))
    BY <1>3, <1>11, <1>12 DEF Running
  <2>7. /\ Len(blocks') < NumBlocks
        /\ \A j \in 1 .. Len(blocks') : blocks'[j] = CurBlock(Given + j)
        /\ BusyWorkers' # {} /\ workingCount' = Cardinality(BusyWorkers')
    BY <1>1, <1>3, <2>1 DEF Running
  <2>8. answers' = answers
    BY <1>1
  <2> QED BY <2>2, <2>3, <2>4, <2>5, <2>6, <2>7, <2>8 DEF Running
<1>14. WorkOK'
  BY <1>1, <1>3, <1>8, <1>13 DEF WorkOK, WebInv, Ids, Ended
<1> QED BY <1>9, <1>10, <1>14 DEF WebInv

\* Answers about the calculation under way, other than ABORTED, change nothing
\* of what holds of the client and of the calculations before.
LEMMA GrowKeeps ==
  ASSUME WebInv, UNCHANGED <<clientVars, inbox>>,
         answers' \in Seq(Answer), Sound(answers'), Len(answers') >= Len(answers),
         \A x : Has(answers, x) => Has(answers', x),
         \A x : Has(answers', x) => Has(answers, x) \/ (x.id = Cur /\ x.op # "ABORTED")
  PROVE  /\ Cur' = Cur /\ InboxOK' /\ ClientOK' /\ AnswersOK'
         /\ received' \in 0..Len(answers')
<1>0. UNCHANGED <<client, lastId, received, inbox>>
  BY DEF clientVars
<1>1. Cur' = Cur
  BY <1>0 DEF Cur
<1>2. InboxOK'
  BY <1>0 DEF WebInv, InboxOK
<1>3. \A id : Ended(answers, id) => Ended(answers', id)
  BY DEF Ended
<1>4. \A id : Has(answers', EndAnswer("ABORTED", id)) <=> Has(answers, EndAnswer("ABORTED", id))
  BY DEF EndAnswer
<1>5. ClientOK'
  BY <1>0, <1>1, <1>3, <1>4 DEF WebInv, ClientOK
<1>6. \A n \in DOMAIN answers' : answers'[n].id <= Cur
  <2> SUFFICES ASSUME NEW n \in DOMAIN answers'
               PROVE  answers'[n].id <= Cur
    OBVIOUS
  <2>1. Has(answers', answers'[n])
    BY DEF Has
  <2>2. CASE Has(answers, answers'[n])
    BY <2>2 DEF Has, WebInv, AnswersOK
  <2>3. CASE answers'[n].id = Cur
    <3>1. Cur \in Int
      BY CurIs
    <3> QED BY <2>3, <3>1
  <2> QED BY <2>1, <2>2, <2>3
<1>7. AnswersOK'
  BY <1>1, <1>3, <1>6 DEF WebInv, AnswersOK
<1>8. received' \in 0..Len(answers')
  <2>1. received \in 0..Len(answers) /\ Len(answers) \in Nat /\ Len(answers') \in Nat
    BY DEF WebInv, TypeOK
  <2> QED BY <1>0, <2>1
<1> QED BY <1>1, <1>2, <1>5, <1>7, <1>8

\* One more answer to a sound sequence in which the calculation has not ended.
LEMMA BlockAnswered ==
  ASSUME NEW s \in Seq(Answer), Sound(s), NEW id \in Ids, ~Ended(s, id),
         NEW op \in {"BLOCK_STARTED", "BLOCK_COMPLETED"}, NEW b \in Blocks,
         ~Has(s, [op |-> op, id |-> id, block |-> b])
  PROVE  LET a == [op |-> op, id |-> id, block |-> b] IN
         /\ Append(s, a) \in Seq(Answer) /\ Len(Append(s, a)) = Len(s) + 1
         /\ Sound(Append(s, a)) /\ ~Ended(Append(s, a), id)
         /\ \A x : Has(Append(s, a), x) <=> Has(s, x) \/ x = a
<1> DEFINE a == [op |-> op, id |-> id, block |-> b]
<1>1. a \in Answer /\ a.id = id /\ a.op = op
  BY DEF Answer
<1>2. ~Has(s, a)
  OBVIOUS
<1> HIDE DEF a
<1>3. \A n \in DOMAIN s :
          s[n].id = a.id /\ IsEnd(s[n]) => s[n].op = "COMPLETED" /\ a.op = "ABORTED"
  <2> SUFFICES ASSUME NEW n \in DOMAIN s, s[n].id = id, IsEnd(s[n])
               PROVE  FALSE
    BY <1>1
  <2>1. s[n] \in Answer
    OBVIOUS
  <2>2. s[n] = EndAnswer("COMPLETED", id) \/ s[n] = EndAnswer("ABORTED", id)
    BY <2>1 DEF Answer, IsEnd, EndAnswer
  <2> QED BY <2>2 DEF Ended, Has
<1>4. Sound(Append(s, a))
  <2>1. a.op # "COMPLETED"
    BY <1>1
  <2> QED BY <1>1, <1>2, <1>3, <2>1, SoundOne
<1>5. \A x : Has(Append(s, a), x) <=> Has(s, x) \/ x = a
  BY <1>1, HasAppend
<1>6. \A end \in {"COMPLETED", "ABORTED"} : EndAnswer(end, id) # a
  <2>1. \A end \in {"COMPLETED", "ABORTED"} : EndAnswer(end, id).op = end
    BY DEF EndAnswer
  <2> QED BY <1>1, <2>1
<1>7. ~Ended(Append(s, a), id)
  BY <1>5, <1>6 DEF Ended
<1>8. Append(s, a) \in Seq(Answer) /\ Len(Append(s, a)) = Len(s) + 1
  BY <1>1, AppendOne
<1> QED BY <1>4, <1>5, <1>7, <1>8 DEF a

\* Two block answers are the same only if they say the same.
LEMMA BlockAnswersDiffer ==
  ASSUME NEW op1, NEW id1, NEW b1, NEW op2, NEW id2, NEW b2,
         [op |-> op1, id |-> id1, block |-> b1] = [op |-> op2, id |-> id2, block |-> b2]
  PROVE  op1 = op2 /\ id1 = id2 /\ b1 = b2
OBVIOUS

\* The steps of onBlockCompleted: the block of a worker of the calculation under
\* way, and the next one or none.
LEMMA BlockPosted ==
  ASSUME WebInv, NEW i \in DOMAIN workers, OnBlockCompleted(i)
  PROVE  \E b \in 1..Given :
         LET start == BlockAnswer("BLOCK_STARTED", CurBlock(Given + 1))
             done == BlockAnswer("BLOCK_COMPLETED", CurBlock(b)) IN
         /\ b \in Blocks /\ Holds(workers[i], CurBlock(b))
         /\ blocks # <<>> =>
               /\ Given + 1 \in Blocks
               /\ workers' = [workers EXCEPT ![i] =
                                 [mail |-> <<CurBlock(Given + 1)>>, posted |-> <<>>]]
               /\ blocks' \in Seq(Block) /\ Len(blocks') = Len(blocks) - 1
               /\ \A j \in 1 .. Len(blocks) - 1 : blocks'[j] = CurBlock(Given + 1 + j)
               /\ workingCount' = workingCount
               /\ answers' = IF IsLast(workingCount)
                             THEN Append(Append(Append(answers, start), done),
                                         EndAnswer("COMPLETED", Cur))
                             ELSE Append(Append(answers, start), done)
         /\ blocks = <<>> =>
               /\ workers' = [workers EXCEPT ![i] = NewWorker]
               /\ blocks' = <<>>
               /\ workingCount' = workingCount - 1
               /\ answers' = IF IsLast(workingCount - 1)
                             THEN Append(Append(answers, done), EndAnswer("COMPLETED", Cur))
                             ELSE Append(answers, done)
<1> USE WebDispatcherAssumption
<1>1. workers[i].posted # <<>> /\ Busy(i)
  BY DEF OnBlockCompleted, Busy
<1>2. Running /\ Given \in 1..NumBlocks /\ Len(blocks) = NumBlocks - Given /\ Cur \in Ids
  BY <1>1, BusyRuns
<1>3. PICK b \in 1..Given : b \in Blocks /\ Holds(workers[i], CurBlock(b))
  BY <1>1, BusyRuns
<1>4. workers[i] = [mail |-> <<>>, posted |-> <<CurBlock(b)>>]
  BY <1>1, <1>3, HoldsOne
<1> DEFINE ws == [workers EXCEPT ![i].posted = Tail(@)]
           result == Head(workers[i].posted)
           start == BlockAnswer("BLOCK_STARTED", CurBlock(Given + 1))
           done == BlockAnswer("BLOCK_COMPLETED", CurBlock(b))
           end == EndAnswer("COMPLETED", Cur)
<1>5. result = CurBlock(b) /\ result.id = Cur
  BY <1>4 DEF CurBlock
<1>6. ws = [workers EXCEPT ![i] = NewWorker]
  <2>1. ws = [workers EXCEPT ![i] = [workers[i] EXCEPT !.posted = Tail(@)]]
    OBVIOUS
  <2>2. [workers[i] EXCEPT !.posted = Tail(@)] = NewWorker
    <3>1. Tail(workers[i].posted) = <<>>
      BY <1>4
    <3> QED BY <1>4, <3>1 DEF NewWorker
  <2> QED BY <2>1, <2>2
<1>7. answers \in Seq(Answer) /\ blocks \in Seq(Block) /\ workingCount \in Nat
  BY DEF WebInv, TypeOK
<1>8. \A s \in Seq(Answer) : s \o <<>> = s
  OBVIOUS
<1>9. start \in Answer \/ blocks = <<>>
  BY <1>2, <1>7 DEF BlockAnswer, CurBlock, Answer, Blocks
<1>10. done \in Answer /\ end \in Answer
  BY <1>2, <1>3 DEF BlockAnswer, CurBlock, Answer, EndAnswer
<1>11. ASSUME blocks # <<>>
       PROVE  /\ Given + 1 \in Blocks
              /\ Head(blocks) = CurBlock(Given + 1)
              /\ workers' = [workers EXCEPT ![i] =
                                [mail |-> <<CurBlock(Given + 1)>>, posted |-> <<>>]]
              /\ blocks' \in Seq(Block) /\ Len(blocks') = Len(blocks) - 1
              /\ \A j \in 1 .. Len(blocks) - 1 : blocks'[j] = CurBlock(Given + 1 + j)
              /\ workingCount' = workingCount
              /\ answers' = IF IsLast(workingCount)
                            THEN Append(Append(Append(answers, start), done), end)
                            ELSE Append(Append(answers, start), done)
  <2>1. Len(blocks) \in Nat \ {0}
    BY <1>7, <1>11
  <2>2. Given + 1 \in Blocks
    BY <1>2, <2>1 DEF Blocks
  <2>3. \A j \in 1 .. Len(blocks) : blocks[j] = CurBlock(Given + j)
    BY <1>2 DEF Running
  <2>4. Head(blocks) = CurBlock(Given + 1)
    BY <1>7, <2>1, <2>3
  <2>5. workers' = Post(ws, i, Head(blocks)) /\ blocks' = Tail(blocks)
    BY <1>11 DEF OnBlockCompleted
  <2>6. workers' = [workers EXCEPT ![i] = [mail |-> <<CurBlock(Given + 1)>>, posted |-> <<>>]]
    <3>1. ws[i] = NewWorker
      BY <1>6
    <3>2. workers' = [ws EXCEPT ![i] = [ws[i] EXCEPT !.mail = Append(@, CurBlock(Given + 1))]]
      BY <2>4, <2>5 DEF Post
    <3>3. [NewWorker EXCEPT !.mail = Append(@, CurBlock(Given + 1))]
              = [mail |-> <<CurBlock(Given + 1)>>, posted |-> <<>>]
      BY DEF NewWorker
    <3> HIDE DEF ws
    <3> QED BY <1>6, <3>1, <3>2, <3>3
  <2>7. /\ blocks' \in Seq(Block) /\ Len(blocks') = Len(blocks) - 1
        /\ \A j \in 1 .. Len(blocks) - 1 : blocks'[j] = blocks[j + 1]
    BY <1>7, <1>11, <2>5
  <2>8. \A j \in 1 .. Len(blocks) - 1 : j + 1 \in 1 .. Len(blocks) /\ Given + (j + 1) = Given + 1 + j
    BY <1>2, <2>1
  <2>9. \A j \in 1 .. Len(blocks) - 1 : blocks'[j] = CurBlock(Given + 1 + j)
    BY <2>3, <2>7, <2>8
  <2>10. workingCount' = workingCount - 1 + 1 /\ workingCount - 1 + 1 = workingCount
    BY <1>7, <1>11 DEF OnBlockCompleted
  <2>11. answers' = answers \o <<start>> \o <<done>>
                        \o (IF IsLast(workingCount) THEN <<end>> ELSE <<>>)
    BY <1>5, <1>11, <2>4, <2>10 DEF OnBlockCompleted
  <2>12. start \in Answer
    BY <1>9, <1>11
  <2> HIDE DEF start, done, end
  <2>13. answers \o <<start>> = Append(answers, start) /\ Append(answers, start) \in Seq(Answer)
    BY <1>7, <2>12
  <2>14. /\ Append(answers, start) \o <<done>> = Append(Append(answers, start), done)
         /\ Append(Append(answers, start), done) \in Seq(Answer)
    BY <1>10, <2>13
  <2>15. Append(Append(answers, start), done) \o <<end>>
             = Append(Append(Append(answers, start), done), end)
    BY <1>10, <2>14
  <2> QED BY <1>8, <2>2, <2>4, <2>6, <2>7, <2>9, <2>10, <2>11, <2>13, <2>14, <2>15
<1>12. ASSUME blocks = <<>>
       PROVE  /\ workers' = [workers EXCEPT ![i] = NewWorker]
              /\ blocks' = <<>>
              /\ workingCount' = workingCount - 1
              /\ answers' = IF IsLast(workingCount - 1)
                            THEN Append(Append(answers, done), end)
                            ELSE Append(answers, done)
  <2>1. workers' = ws /\ blocks' = blocks
    BY <1>12 DEF OnBlockCompleted
  <2>2. workingCount' = workingCount - 1 + 0 /\ workingCount - 1 + 0 = workingCount - 1
    BY <1>7, <1>12 DEF OnBlockCompleted
  <2>3. answers' = answers \o <<>> \o <<done>>
                       \o (IF IsLast(workingCount - 1) THEN <<end>> ELSE <<>>)
    BY <1>5, <1>12, <2>2 DEF OnBlockCompleted
  <2> HIDE DEF done, end, ws
  <2>4. answers \o <<>> = answers
    BY <1>7
  <2>5. answers \o <<done>> = Append(answers, done) /\ Append(answers, done) \in Seq(Answer)
    BY <1>7, <1>10
  <2>6. Append(answers, done) \o <<end>> = Append(Append(answers, done), end)
    BY <1>10, <2>5
  <2> QED BY <1>6, <1>8, <1>12, <2>1, <2>2, <2>3, <2>4, <2>5, <2>6
<1> QED BY <1>3, <1>11, <1>12

\* Who has which block before a worker's block is reported.
LEMMA HoldsBefore ==
  ASSUME WebInv, NEW i \in DOMAIN workers, NEW b \in 1..Given, Running,
         Holds(workers[i], CurBlock(b))
  PROVE  /\ \A c : Holds(workers[i], CurBlock(c)) <=> c = b
         /\ \A c : \A k \in DOMAIN workers : Holds(workers[k], CurBlock(c)) => c \in 1..Given
         /\ \A k \in DOMAIN workers : b \in Blocks /\ Holds(workers[k], CurBlock(b)) => k = i
         /\ b \in Blocks => ~Has(answers, BlockAnswer("BLOCK_COMPLETED", CurBlock(b)))
         /\ i \in BusyWorkers /\ IsFiniteSet(BusyWorkers)
         /\ workingCount = Cardinality(BusyWorkers) /\ workingCount \in Nat \ {0}
<1>1. \A c, d : CurBlock(c) = CurBlock(d) => c = d
  BY DEF CurBlock
<1>2. \A c : Holds(workers[i], CurBlock(c)) <=> c = b
  BY <1>1, HoldsOne
<1>3. \A c : \A k \in DOMAIN workers : Holds(workers[k], CurBlock(c)) => c \in 1..Given
  <2> SUFFICES ASSUME NEW c, NEW k \in DOMAIN workers, Holds(workers[k], CurBlock(c))
               PROVE  c \in 1..Given
    OBVIOUS
  <2>1. workers[k] # NewWorker
    BY HoldsOne
  <2>2. PICK d \in 1..Given : Holds(workers[k], CurBlock(d))
    BY <2>1 DEF Running
  <2>3. CurBlock(c) = CurBlock(d)
    BY <2>2, HoldsOne
  <2> QED BY <1>1, <2>3
<1>4. \A k \in DOMAIN workers : b \in Blocks /\ Holds(workers[k], CurBlock(b)) => k = i
  BY DEF Running
<1>5. b \in Blocks => ~Has(answers, BlockAnswer("BLOCK_COMPLETED", CurBlock(b)))
  BY DEF Running
<1>6. i \in BusyWorkers
  BY BusyHolds DEF BusyWorkers
<1>7. IsFiniteSet(BusyWorkers)
  <2>1. workers \in Seq([mail : Seq(Block), posted : Seq(Block)])
    BY DEF WebInv, TypeOK
  <2>2. DOMAIN workers = 1 .. Len(workers) /\ 1 \in Int /\ Len(workers) \in Int
    BY <2>1
  <2>3. IsFiniteSet(1 .. Len(workers))
    BY <2>2, FS_Interval
  <2>4. BusyWorkers \subseteq 1 .. Len(workers)
    BY <2>2 DEF BusyWorkers
  <2> QED BY <2>3, <2>4, FS_Subset
<1>8. workingCount = Cardinality(BusyWorkers) /\ workingCount \in Nat \ {0}
  <2>1. Cardinality(BusyWorkers) \in Nat
    BY <1>7, FS_CardinalityType
  <2>2. Cardinality(BusyWorkers) # 0
    BY <1>6, <1>7, FS_EmptySet
  <2> QED BY <2>1, <2>2 DEF Running
<1> QED BY <1>2, <1>3, <1>4, <1>5, <1>6, <1>7, <1>8

\* A worker's block is reported and the worker gets the next one.
LEMMA NextGiven ==
  ASSUME WebInv, NEW i \in DOMAIN workers, OnBlockCompleted(i), blocks # <<>>
  PROVE  WebInv'
<1> USE WebDispatcherAssumption
<1>1. /\ Running /\ Cur \in Ids /\ ~Ended(answers, Cur)
      /\ Given \in 1..NumBlocks /\ Len(blocks) = NumBlocks - Given
  BY BusyRuns DEF OnBlockCompleted, Busy
<1> DEFINE next == [op |-> "BLOCK_STARTED", id |-> Cur, block |-> Given + 1]
           done(b) == [op |-> "BLOCK_COMPLETED", id |-> Cur, block |-> b]
<1>2. PICK b \in 1..Given :
         /\ b \in Blocks /\ Holds(workers[i], CurBlock(b)) /\ Given + 1 \in Blocks
         /\ workers' = [workers EXCEPT ![i] =
                           [mail |-> <<CurBlock(Given + 1)>>, posted |-> <<>>]]
         /\ blocks' \in Seq(Block) /\ Len(blocks') = Len(blocks) - 1
         /\ \A j \in 1 .. Len(blocks) - 1 : blocks'[j] = CurBlock(Given + 1 + j)
         /\ workingCount' = workingCount
         /\ answers' = IF IsLast(workingCount)
                       THEN Append(Append(Append(answers, next), done(b)),
                                   EndAnswer("COMPLETED", Cur))
                       ELSE Append(Append(answers, next), done(b))
  BY BlockPosted DEF BlockAnswer, CurBlock
<1>3. UNCHANGED <<clientVars, inbox>>
  BY DEF OnBlockCompleted
<1>4. /\ \A c : Holds(workers[i], CurBlock(c)) <=> c = b
      /\ \A c : \A k \in DOMAIN workers : Holds(workers[k], CurBlock(c)) => c \in 1..Given
      /\ \A k \in DOMAIN workers : Holds(workers[k], CurBlock(b)) => k = i
      /\ ~Has(answers, BlockAnswer("BLOCK_COMPLETED", CurBlock(b)))
      /\ i \in BusyWorkers
      /\ workingCount = Cardinality(BusyWorkers) /\ workingCount \in Nat \ {0}
  BY <1>1, <1>2, HoldsBefore
<1>5. b # Given + 1 /\ Given \in Nat /\ Given + 1 > Given
  BY <1>1
<1>6. answers' = Append(Append(answers, next), done(b))
  BY <1>2, <1>4 DEF IsLast
<1>7. answers \in Seq(Answer) /\ Sound(answers)
  BY DEF WebInv, TypeOK, AnswersOK
<1>8. ~Has(answers, next) /\ ~Has(answers, done(b))
  <2>1. next = BlockAnswer("BLOCK_STARTED", CurBlock(Given + 1))
    BY DEF BlockAnswer, CurBlock
  <2>2. done(b) = BlockAnswer("BLOCK_COMPLETED", CurBlock(b))
    BY DEF BlockAnswer, CurBlock
  <2>3. ~(Given + 1 <= Given)
    BY <1>5
  <2> QED BY <1>1, <1>2, <1>4, <2>1, <2>2, <2>3 DEF Running
<1> DEFINE s == Append(answers, next)
<1>9. /\ s \in Seq(Answer) /\ Len(s) = Len(answers) + 1 /\ Sound(s) /\ ~Ended(s, Cur)
      /\ \A x : Has(s, x) <=> Has(answers, x) \/ x = next
  BY <1>1, <1>2, <1>7, <1>8, BlockAnswered
<1>10. next # done(b)
  BY BlockAnswersDiffer
<1> HIDE DEF s
<1>11. /\ answers' \in Seq(Answer) /\ Len(answers') = Len(s) + 1 /\ Sound(answers')
       /\ ~Ended(answers', Cur)
       /\ \A x : Has(answers', x) <=> Has(s, x) \/ x = done(b)
  <2>1. answers' = Append(s, done(b)) /\ ~Has(s, done(b))
    BY <1>6, <1>8, <1>9, <1>10 DEF s
  <2>2. /\ s \in Seq(Answer) /\ Sound(s) /\ Cur \in Ids /\ ~Ended(s, Cur) /\ b \in Blocks
        /\ ~Has(s, [op |-> "BLOCK_COMPLETED", id |-> Cur, block |-> b])
    BY <1>1, <1>2, <1>9, <2>1
  <2>3. /\ Append(s, done(b)) \in Seq(Answer) /\ Len(Append(s, done(b))) = Len(s) + 1
        /\ Sound(Append(s, done(b))) /\ ~Ended(Append(s, done(b)), Cur)
        /\ \A x : Has(Append(s, done(b)), x) <=> Has(s, x) \/ x = done(b)
    BY <2>2, BlockAnswered
  <2> QED BY <2>1, <2>3
<1>12. \A x : Has(answers', x) <=> Has(answers, x) \/ x = next \/ x = done(b)
  BY <1>9, <1>11
<1>13. /\ Cur' = Cur /\ InboxOK' /\ ClientOK' /\ AnswersOK'
       /\ received' \in 0..Len(answers')
  <2>1. Len(answers') >= Len(answers)
    <3>1. Len(answers) \in Nat
      BY <1>7
    <3> QED BY <1>9, <1>11, <3>1
  <2>2. /\ next.id = Cur /\ next.op # "ABORTED"
        /\ done(b).id = Cur /\ done(b).op # "ABORTED"
    OBVIOUS
  <2> HIDE DEF next, done
  <2>3. \A x : Has(answers', x) => Has(answers, x) \/ (x.id = Cur /\ x.op # "ABORTED")
    BY <1>12, <2>2
  <2> QED BY <1>3, <1>11, <1>12, <2>1, <2>3, GrowKeeps
<1>14. TypeOK'
  <2>1. workers' \in Seq([mail : Seq(Block), posted : Seq(Block)])
    <3>1. workers \in Seq([mail : Seq(Block), posted : Seq(Block)])
      BY DEF WebInv, TypeOK
    <3>2. CurBlock(Given + 1) \in Block
      BY <1>1, <1>2 DEF CurBlock, Block
    <3>3. [mail |-> <<CurBlock(Given + 1)>>, posted |-> <<>>]
              \in [mail : Seq(Block), posted : Seq(Block)]
      BY <3>2, WorkerType, Zenon
    <3> QED BY <1>2, <3>1, <3>3
  <2> QED BY <1>2, <1>3, <1>11, <1>13, <2>1 DEF WebInv, TypeOK, clientVars
<1>15. /\ DOMAIN workers' = DOMAIN workers
       /\ \A k \in DOMAIN workers : k # i => workers'[k] = workers[k]
       /\ workers'[i] = [mail |-> <<CurBlock(Given + 1)>>, posted |-> <<>>]
  BY <1>2
<1>16. \A c : \A k \in DOMAIN workers : Holds(workers'[k], CurBlock(c)) <=>
          IF k = i THEN c = Given + 1 ELSE Holds(workers[k], CurBlock(c))
  <2>1. Holds(workers'[i], CurBlock(Given + 1))
    BY <1>15 DEF Holds
  <2>2. \A c : Holds(workers'[i], CurBlock(c)) <=> CurBlock(c) = CurBlock(Given + 1)
    BY <2>1, HoldsOne
  <2>3. \A c : CurBlock(c) = CurBlock(Given + 1) <=> c = Given + 1
    BY DEF CurBlock
  <2> QED BY <1>15, <2>2, <2>3
<1>17. BusyWorkers' = BusyWorkers
  <2>1. \A k \in DOMAIN workers : k # i => (Busy(k)' <=> Busy(k))
    BY <1>15 DEF Busy
  <2>2. Busy(i)'
    <3>1. <<CurBlock(Given + 1)>> # <<>>
      OBVIOUS
    <3> QED BY <1>15, <3>1 DEF Busy
  <2> QED BY <1>4, <1>15, <2>1, <2>2 DEF BusyWorkers
<1>18. Given' = Given + 1
  BY <1>1, <1>2, <1>5 DEF Given
<1>19. \A c : CurBlock(c)' = CurBlock(c)
  BY <1>13 DEF CurBlock
<1>20. \A k \in DOMAIN workers' :
          workers'[k] = NewWorker \/ \E c \in 1 .. Given + 1 : Holds(workers'[k], CurBlock(c))
  <2>1. 1..Given \subseteq 1 .. Given + 1 /\ Given + 1 \in 1 .. Given + 1
    BY <1>5
  <2>2. \A k \in DOMAIN workers :
            workers[k] = NewWorker \/ \E c \in 1..Given : Holds(workers[k], CurBlock(c))
    BY <1>1 DEF Running
  <2> QED BY <1>15, <1>16, <2>1, <2>2
<1>21. \A k, l \in DOMAIN workers' : \A c \in Blocks :
          Holds(workers'[k], CurBlock(c)) /\ Holds(workers'[l], CurBlock(c)) => k = l
  <2>1. \A k \in DOMAIN workers : ~Holds(workers[k], CurBlock(Given + 1))
    BY <1>4, <1>5
  <2>2. \A k, l \in DOMAIN workers : \A c \in Blocks :
            Holds(workers[k], CurBlock(c)) /\ Holds(workers[l], CurBlock(c)) => k = l
    BY <1>1 DEF Running
  <2> QED BY <1>15, <1>16, <2>1, <2>2
<1>22. ASSUME NEW c \in Blocks
       PROVE  /\ Has(answers', BlockAnswer("BLOCK_STARTED", CurBlock(c))) <=> c <= Given + 1
              /\ Has(answers', BlockAnswer("BLOCK_COMPLETED", CurBlock(c))) <=>
                    c <= Given + 1 /\ \A k \in DOMAIN workers' : ~Holds(workers'[k], CurBlock(c))
  <2>0. c \in Nat
    BY DEF Blocks
  <2>1. /\ Has(answers, BlockAnswer("BLOCK_STARTED", CurBlock(c))) <=> c <= Given
        /\ Has(answers, BlockAnswer("BLOCK_COMPLETED", CurBlock(c))) <=>
              c <= Given /\ \A k \in DOMAIN workers : ~Holds(workers[k], CurBlock(c))
    BY <1>1 DEF Running
  <2>2. /\ BlockAnswer("BLOCK_STARTED", CurBlock(c)) = next <=> c = Given + 1
        /\ BlockAnswer("BLOCK_STARTED", CurBlock(c)) # done(b)
        /\ BlockAnswer("BLOCK_COMPLETED", CurBlock(c)) # next
        /\ BlockAnswer("BLOCK_COMPLETED", CurBlock(c)) = done(b) <=> c = b
    BY BlockAnswersDiffer DEF BlockAnswer, CurBlock
  <2> HIDE DEF next, done
  <2>3. Has(answers', BlockAnswer("BLOCK_STARTED", CurBlock(c))) <=> c <= Given \/ c = Given + 1
    BY <1>12, <2>1, <2>2
  <2>4. c <= Given + 1 <=> c <= Given \/ c = Given + 1
    BY <1>5, <2>0
  <2>5. Has(answers', BlockAnswer("BLOCK_COMPLETED", CurBlock(c))) <=>
            c = b \/ (c <= Given /\ \A k \in DOMAIN workers : ~Holds(workers[k], CurBlock(c)))
    BY <1>12, <2>1, <2>2
  <2>6. CASE c = b
    <3>1. \A k \in DOMAIN workers' : ~Holds(workers'[k], CurBlock(c))
      BY <1>4, <1>5, <1>15, <1>16, <2>6
    <3>2. c <= Given
      BY <1>1, <2>6
    <3> QED BY <2>3, <2>4, <2>5, <2>6, <3>1, <3>2
  <2>7. CASE c = Given + 1
    <3>1. Holds(workers'[i], CurBlock(c)) /\ i \in DOMAIN workers'
      BY <1>15, <1>16, <2>7
    <3>2. ~(c <= Given) /\ c # b
      BY <1>5, <2>7
    <3> QED BY <2>3, <2>4, <2>5, <3>1, <3>2
  <2>8. CASE c # b /\ c # Given + 1
    <3>1. \A k \in DOMAIN workers : Holds(workers'[k], CurBlock(c)) <=> Holds(workers[k], CurBlock(c))
      BY <1>4, <1>16, <2>8
    <3> QED BY <1>15, <2>3, <2>4, <2>5, <2>8, <3>1
  <2> QED BY <2>6, <2>7, <2>8
<1>23. /\ Len(blocks') < NumBlocks
       /\ \A j \in 1 .. Len(blocks') : blocks'[j] = CurBlock(Given + 1 + j)
  BY <1>1, <1>2, <1>5
<1>24. BusyWorkers' # {} /\ workingCount' = Cardinality(BusyWorkers')
  BY <1>2, <1>4, <1>17
<1>25. Running'
  BY <1>18, <1>19, <1>20, <1>21, <1>22, <1>23, <1>24 DEF Running
<1>26. WorkOK'
  BY <1>1, <1>11, <1>13, <1>25 DEF WorkOK, Ids
<1> QED BY <1>13, <1>14, <1>26 DEF WebInv

\* A worker's block is reported and there is no other for it: the last block of
\* all makes the calculation complete, and leaves nothing behind.
LEMMA NoneGiven ==
  ASSUME WebInv, NEW i \in DOMAIN workers, OnBlockCompleted(i), blocks = <<>>
  PROVE  WebInv'
<1> USE WebDispatcherAssumption
<1>1. /\ Running /\ Cur \in Ids /\ ~Ended(answers, Cur)
      /\ Given \in 1..NumBlocks /\ Len(blocks) = NumBlocks - Given
  BY BusyRuns DEF OnBlockCompleted, Busy
<1> DEFINE end == EndAnswer("COMPLETED", Cur)
           done(b) == [op |-> "BLOCK_COMPLETED", id |-> Cur, block |-> b]
<1>2. PICK b \in 1..Given :
         /\ b \in Blocks /\ Holds(workers[i], CurBlock(b))
         /\ workers' = [workers EXCEPT ![i] = NewWorker]
         /\ blocks' = <<>>
         /\ workingCount' = workingCount - 1
         /\ answers' = IF IsLast(workingCount - 1)
                       THEN Append(Append(answers, done(b)), end)
                       ELSE Append(answers, done(b))
  BY BlockPosted DEF BlockAnswer, CurBlock
<1>3. UNCHANGED <<clientVars, inbox>>
  BY DEF OnBlockCompleted
<1>4. /\ \A c : Holds(workers[i], CurBlock(c)) <=> c = b
      /\ \A k \in DOMAIN workers : Holds(workers[k], CurBlock(b)) => k = i
      /\ ~Has(answers, BlockAnswer("BLOCK_COMPLETED", CurBlock(b)))
      /\ i \in BusyWorkers /\ IsFiniteSet(BusyWorkers)
      /\ workingCount = Cardinality(BusyWorkers) /\ workingCount \in Nat \ {0}
  BY <1>1, <1>2, HoldsBefore
<1>5. Given = NumBlocks
  <2>1. Len(blocks) = 0
    OBVIOUS
  <2> QED BY <1>1, <2>1
<1>6. answers \in Seq(Answer) /\ Sound(answers) /\ Len(answers) \in Nat
  BY DEF WebInv, TypeOK, AnswersOK
<1> DEFINE s == Append(answers, done(b))
<1>7. /\ s \in Seq(Answer) /\ Len(s) = Len(answers) + 1 /\ Sound(s) /\ ~Ended(s, Cur)
      /\ \A x : Has(s, x) <=> Has(answers, x) \/ x = done(b)
  <2>1. ~Has(answers, done(b))
    BY <1>4 DEF BlockAnswer, CurBlock
  <2> QED BY <1>1, <1>2, <1>6, <2>1, BlockAnswered
<1>8. /\ DOMAIN workers' = DOMAIN workers
      /\ \A k \in DOMAIN workers : k # i => workers'[k] = workers[k]
      /\ workers'[i] = NewWorker
  BY <1>2
<1>9. BusyWorkers' = BusyWorkers \ {i}
  <2>1. \A k \in DOMAIN workers : k # i => (Busy(k)' <=> Busy(k))
    BY <1>8 DEF Busy
  <2>2. ~Busy(i)'
    BY <1>8 DEF Busy, NewWorker
  <2> QED BY <1>8, <2>1, <2>2 DEF BusyWorkers
<1>10. IsFiniteSet(BusyWorkers') /\ workingCount' = Cardinality(BusyWorkers')
  BY <1>2, <1>4, <1>9, FS_RemoveElement
<1>11. workingCount' \in Nat /\ workingCount' = workingCount - 1
  BY <1>2, <1>4
<1>12. workingCount' = 0 <=> BusyWorkers' = {}
  BY <1>10, FS_EmptySet
\* Everything has been started; what nobody has, is completed.
<1>13. \A c \in Blocks :
          /\ Has(s, BlockAnswer("BLOCK_STARTED", CurBlock(c)))
          /\ Has(s, BlockAnswer("BLOCK_COMPLETED", CurBlock(c))) <=>
                \A k \in DOMAIN workers' : ~Holds(workers'[k], CurBlock(c))
  <2> SUFFICES ASSUME NEW c \in Blocks
               PROVE  /\ Has(s, BlockAnswer("BLOCK_STARTED", CurBlock(c)))
                      /\ Has(s, BlockAnswer("BLOCK_COMPLETED", CurBlock(c))) <=>
                            \A k \in DOMAIN workers' : ~Holds(workers'[k], CurBlock(c))
    OBVIOUS
  <2>1. c <= Given
    BY <1>5 DEF Blocks
  <2>2. /\ Has(answers, BlockAnswer("BLOCK_STARTED", CurBlock(c)))
        /\ Has(answers, BlockAnswer("BLOCK_COMPLETED", CurBlock(c))) <=>
              \A k \in DOMAIN workers : ~Holds(workers[k], CurBlock(c))
    BY <1>1, <2>1 DEF Running
  <2>3. BlockAnswer("BLOCK_COMPLETED", CurBlock(c)) = done(b) <=> c = b
    BY BlockAnswersDiffer DEF BlockAnswer, CurBlock
  <2> HIDE DEF s, done
  <2>4. ~Holds(workers'[i], CurBlock(c))
    BY <1>8, HoldsOne
  <2>5. CASE c = b
    <3>1. \A k \in DOMAIN workers' : ~Holds(workers'[k], CurBlock(c))
      BY <1>4, <1>8, <2>4, <2>5
    <3> QED BY <1>7, <2>2, <2>3, <2>5, <3>1
  <2>6. CASE c # b
    <3>1. \A k \in DOMAIN workers : Holds(workers'[k], CurBlock(c)) <=> Holds(workers[k], CurBlock(c))
      BY <1>4, <1>8, <2>4, <2>6
    <3> QED BY <1>7, <1>8, <2>2, <2>3, <2>6, <3>1
  <2> QED BY <2>5, <2>6
<1>14. \A k \in DOMAIN workers' :
          workers'[k] = NewWorker \/ \E c \in 1..Given : Holds(workers'[k], CurBlock(c))
  BY <1>1, <1>8 DEF Running
<1>15. workers' \in Seq([mail : Seq(Block), posted : Seq(Block)])
  <2>1. workers \in Seq([mail : Seq(Block), posted : Seq(Block)])
    BY DEF WebInv, TypeOK
  <2>2. CurBlock(b) \in Block
    BY <1>1, <1>2 DEF CurBlock, Block
  <2>3. NewWorker \in [mail : Seq(Block), posted : Seq(Block)]
    BY <2>2, WorkerType, Zenon DEF NewWorker
  <2> QED BY <1>2, <2>1, <2>3
<1>16. done(b).id = Cur /\ done(b).op # "ABORTED" /\ end.id = Cur /\ end.op # "ABORTED"
  BY DEF EndAnswer
<1>17. CASE workingCount' # 0
  <2>1. answers' = s
    BY <1>2, <1>11, <1>17 DEF IsLast
  <2> HIDE DEF s, done, end
  <2>2. /\ Cur' = Cur /\ InboxOK' /\ ClientOK' /\ AnswersOK'
        /\ received' \in 0..Len(answers')
    <3>1. Len(answers') >= Len(answers)
      BY <1>6, <1>7, <2>1
    <3>2. \A x : Has(answers', x) => Has(answers, x) \/ (x.id = Cur /\ x.op # "ABORTED")
      BY <1>7, <1>16, <2>1
    <3> QED BY <1>3, <1>7, <2>1, <3>1, <3>2, GrowKeeps
  <2>3. TypeOK'
    BY <1>2, <1>3, <1>7, <1>11, <1>15, <2>1, <2>2 DEF WebInv, TypeOK, clientVars
  <2>4. Given' = Given /\ \A c : CurBlock(c)' = CurBlock(c)
    BY <1>2, <2>2 DEF Given, CurBlock
  <2>5. \A k, l \in DOMAIN workers' : \A c \in Blocks :
            Holds(workers'[k], CurBlock(c)) /\ Holds(workers'[l], CurBlock(c)) => k = l
    <3>1. \A c : ~Holds(workers'[i], CurBlock(c))
      BY <1>8, HoldsOne
    <3>2. \A k, l \in DOMAIN workers : \A c \in Blocks :
              Holds(workers[k], CurBlock(c)) /\ Holds(workers[l], CurBlock(c)) => k = l
      BY <1>1 DEF Running
    <3> QED BY <1>8, <3>1, <3>2
  <2>6. Len(blocks') < NumBlocks /\ \A j \in 1 .. Len(blocks') : blocks'[j] = CurBlock(Given + j)
    <3>1. Len(blocks') = 0
      BY <1>2
    <3> QED BY <3>1
  <2>7. \A c \in Blocks : c <= Given
    BY <1>5 DEF Blocks
  <2>8. Running'
    BY <1>10, <1>12, <1>13, <1>14, <1>17, <2>1, <2>4, <2>5, <2>6, <2>7 DEF Running
  <2>9. WorkOK'
    BY <1>1, <1>7, <2>1, <2>2, <2>8 DEF WorkOK, Ids
  <2> QED BY <2>2, <2>3, <2>9 DEF WebInv
<1>18. CASE workingCount' = 0
  <2>1. answers' = Append(s, end)
    BY <1>2, <1>11, <1>18 DEF IsLast
  <2>2. Resting'
    <3>1. \A k \in DOMAIN workers' : workers'[k] = NewWorker
      <4> SUFFICES ASSUME NEW k \in DOMAIN workers', workers'[k] # NewWorker
                   PROVE  FALSE
        OBVIOUS
      <4>1. workers'[k].mail # <<>> \/ workers'[k].posted # <<>>
        BY <1>14, HoldsOne
      <4>2. k \in BusyWorkers'
        BY <4>1 DEF BusyWorkers, Busy
      <4> QED BY <1>12, <1>18, <4>2
    <3> QED BY <1>2, <3>1 DEF Resting
  <2>3. end \in Answer /\ end.op = "COMPLETED" /\ end.id = Cur
    BY <1>1 DEF Answer, EndAnswer
  <2>4. ~Has(s, end)
    BY <1>7 DEF Ended
  <2>5. \A n \in DOMAIN s :
            s[n].id = end.id /\ IsEnd(s[n]) => s[n].op = "COMPLETED" /\ end.op = "ABORTED"
    <3> SUFFICES ASSUME NEW n \in DOMAIN s, s[n].id = Cur, IsEnd(s[n])
                 PROVE  FALSE
      BY <2>3
    <3> HIDE DEF s
    <3>1. s[n] \in Answer
      BY <1>7
    <3>2. s[n] = EndAnswer("COMPLETED", Cur) \/ s[n] = EndAnswer("ABORTED", Cur)
      BY <3>1 DEF Answer, IsEnd, EndAnswer
    <3> QED BY <1>7, <3>2 DEF Ended, Has
  <2>6. \A c \in Blocks, op \in {"BLOCK_STARTED", "BLOCK_COMPLETED"} :
            Has(s, [op |-> op, id |-> end.id, block |-> c])
    <3>1. \A c, k : k \in DOMAIN workers' => ~Holds(workers'[k], CurBlock(c))
      BY <2>2, HoldsOne DEF Resting
    <3>2. \A c, op : [op |-> op, id |-> end.id, block |-> c] = BlockAnswer(op, CurBlock(c))
      BY <2>3 DEF BlockAnswer, CurBlock
    <3> HIDE DEF s, end
    <3> QED BY <1>13, <3>1, <3>2
  <2> HIDE DEF s, done, end
  <2>7. /\ answers' \in Seq(Answer) /\ Len(answers') = Len(s) + 1 /\ Sound(answers')
        /\ \A x : Has(answers', x) <=> Has(s, x) \/ x = end
    BY <1>7, <2>1, <2>3, <2>4, <2>5, <2>6, SoundOne, HasAppend, AppendOne
  <2>8. /\ Cur' = Cur /\ InboxOK' /\ ClientOK' /\ AnswersOK'
        /\ received' \in 0..Len(answers')
    <3>1. Len(answers') >= Len(answers)
      BY <1>6, <1>7, <2>7
    <3>2. \A x : Has(answers', x) => Has(answers, x) \/ (x.id = Cur /\ x.op # "ABORTED")
      BY <1>7, <1>16, <2>7
    <3> QED BY <1>3, <1>7, <2>7, <3>1, <3>2, GrowKeeps
  <2>9. TypeOK'
    BY <1>2, <1>3, <1>11, <1>15, <2>7, <2>8 DEF WebInv, TypeOK, clientVars
  <2>10. Ended(answers', Cur')
    BY <2>7, <2>8 DEF Ended, end
  <2>11. WorkOK'
    BY <2>2, <2>10 DEF WorkOK
  <2> QED BY <2>8, <2>9, <2>11 DEF WebInv
<1> QED BY <1>17, <1>18

-----------------------------------------------------------------------------
(* The theorems.                                                           *)

LEMMA WebInit == Init => WebInv
<1> SUFFICES ASSUME Init
             PROVE  WebInv
  OBVIOUS
<1> USE WebDispatcherAssumption DEF Init
<1>1. TypeOK
  BY DEF TypeOK
<1>2. Cur = 0
  BY DEF Cur
<1>3. InboxOK /\ ClientOK
  BY <1>2 DEF InboxOK, ClientOK
<1>4. AnswersOK
  BY <1>2 DEF AnswersOK, Sound
<1>5. WorkOK
  BY <1>2 DEF WorkOK, Resting
<1> QED BY <1>1, <1>3, <1>4, <1>5 DEF WebInv

LEMMA WebStep == WebInv /\ [Next]_vars => WebInv'
<1> SUFFICES ASSUME WebInv, [Next]_vars
             PROVE  WebInv'
  OBVIOUS
<1>1. ASSUME NEW count \in WorkerCounts, ClientStart(count)
      PROVE  WebInv'
  BY <1>1, ClientStartKeeps
<1>2. ASSUME ClientAbort
      PROVE  WebInv'
  BY <1>2, ClientAbortKeeps
<1>3. ASSUME ClientReceive
      PROVE  WebInv'
  BY <1>3, ClientReceiveKeeps
<1>4. ASSUME OnStart
      PROVE  WebInv'
  BY <1>4, OnStartKeeps
<1>5. ASSUME OnAbort
      PROVE  WebInv'
  BY <1>5, OnAbortKeeps
<1>6. ASSUME NEW i \in DOMAIN workers, OnBlockCompleted(i)
      PROVE  WebInv'
  BY <1>6, NextGiven, NoneGiven
<1>7. ASSUME NEW i \in DOMAIN workers, WorkerRun(i)
      PROVE  WebInv'
  BY <1>7, WorkerRunKeeps
<1>8. ASSUME UNCHANGED vars
      PROVE  WebInv'
  <2>1. Cur' = Cur
    BY <1>8 DEF vars, clientVars, Cur
  <2> QED BY <1>8, <2>1, Untouched
          DEF WebInv, TypeOK, InboxOK, ClientOK, vars, clientVars, dispatcherVars
<1> QED BY <1>1, <1>2, <1>3, <1>4, <1>5, <1>6, <1>7, <1>8 DEF Next, Dispatch

THEOREM WebInvariant == Spec => []WebInv
BY WebInit, WebStep, PTL DEF Spec

\* The dispatcher's variables have their types, whatever the client and the
\* workers do.
THEOREM WebTypeCorrect == Spec => []TypeOK
BY WebInvariant, PTL DEF WebInv

LEMMA IdleAtStart == WebInv => StartFindsWorkersIdle
<1> SUFFICES ASSUME WebInv, inbox # <<>>, Head(inbox).op = "START"
             PROVE  blocks = <<>> /\ \A i \in DOMAIN workers : ~Busy(i)
  BY DEF StartFindsWorkersIdle
<1>1. 1 \in DOMAIN inbox /\ inbox[1] = Head(inbox)
  BY CurIs
<1>2. Cur = lastId - 1 /\ lastId > 0 /\ lastId \in Nat
  BY <1>1, CurIs
<1>3. Cur # lastId /\ Cur \in Nat
  BY <1>2
<1>4. Resting
  BY <1>3 DEF WebInv, ClientOK, WorkOK
<1> QED BY <1>4 DEF Resting, Busy, NewWorker

LEMMA CountIsBusy == WebInv => WorkingCountIsBusy
<1> SUFFICES ASSUME WebInv, NEW i \in DOMAIN workers, Busy(i)
             PROVE  /\ workingCount = Cardinality(BusyWorkers)
                    /\ Len(workers[i].mail) + Len(workers[i].posted) = 1
  BY DEF WorkingCountIsBusy, BusyWorkers
<1>1. Running
  BY BusyRuns
<1>2. PICK b \in 1..Given : Holds(workers[i], CurBlock(b))
  BY BusyRuns
<1>3. Len(workers[i].mail) + Len(workers[i].posted) = 1
  <2>1. CASE workers[i] = [mail |-> <<CurBlock(b)>>, posted |-> <<>>]
    BY <2>1
  <2>2. CASE workers[i] = [mail |-> <<>>, posted |-> <<CurBlock(b)>>]
    BY <2>2
  <2> QED BY <1>2, <2>1, <2>2 DEF Holds
<1> QED BY <1>1, <1>3 DEF Running

LEMMA CompleteIsWhole == WebInv => CompletedIsComplete
<1> SUFFICES ASSUME WebInv, NEW n \in DOMAIN answers, answers[n].op = "COMPLETED"
             PROVE  /\ \A blk \in Blocks, op \in {"BLOCK_STARTED", "BLOCK_COMPLETED"} :
                          Times(op, answers[n].id, blk) = 1
                    /\ \A k \in DOMAIN answers :
                          answers[k].id = answers[n].id /\ k # n =>
                              IF k < n THEN ~IsEnd(answers[k]) ELSE answers[k].op = "ABORTED"
  BY DEF CompletedIsComplete
<1>1. /\ Sound(answers) /\ IsEnd(answers[n])
      /\ \A k \in DOMAIN answers : k \in Nat
  BY DEF WebInv, AnswersOK, TypeOK, IsEnd
<1>2. ASSUME NEW blk \in Blocks, NEW op \in {"BLOCK_STARTED", "BLOCK_COMPLETED"}
      PROVE  Times(op, answers[n].id, blk) = 1
  <2> DEFINE a == [op |-> op, id |-> answers[n].id, block |-> blk]
  <2>1. Has(answers, a)
    BY <1>1 DEF Sound
  <2> HIDE DEF a
  <2>2. PICK k \in DOMAIN answers : answers[k] = a
    BY <2>1 DEF Has
  <2>3. {m \in DOMAIN answers : answers[m] = a} = {k}
    BY <1>1, <2>2 DEF Sound
  <2>4. Cardinality({k}) = 1
    BY FS_Singleton
  <2> QED BY <2>3, <2>4 DEF Times, a
<1>3. ASSUME NEW k \in DOMAIN answers, answers[k].id = answers[n].id, k # n
      PROVE  IF k < n THEN ~IsEnd(answers[k]) ELSE answers[k].op = "ABORTED"
  <2>1. CASE k < n
    BY <1>1, <1>3, <2>1 DEF Sound
  <2>2. CASE n < k
    <3>1. ~(k < n)
      BY <1>1, <2>2
    <3> QED BY <1>1, <1>3, <2>2, <3>1 DEF Sound
  <2> QED BY <1>1, <1>3, <2>1, <2>2
<1> QED BY <1>2, <1>3

\* dispatcher.js never mixes two calculations: a START finds all workers idle,
\* workingCount is the number of workers with a block, and COMPLETED is posted
\* once, after each block exactly once, however ABORT crosses the answers.
THEOREM AnswersSound == Spec => []AnswersAreSound
<1>1. WebInv => AnswersAreSound
  BY IdleAtStart, CountIsBusy, CompleteIsWhole DEF AnswersAreSound
<1> QED BY <1>1, WebInvariant, PTL

-----------------------------------------------------------------------------
(* The dispatcher is a CalculationService.                                 *)

\* What is read off the answers of each calculation.
BlocksIn(s, op, id) == {b \in Blocks : Has(s, [op |-> op, id |-> id, block |-> b])}

StatusIn(s, id) ==
    IF Has(s, EndAnswer("COMPLETED", id)) THEN "completed"
    ELSE IF Has(s, EndAnswer("ABORTED", id)) THEN "aborted"
    ELSE IF BlocksIn(s, "BLOCK_STARTED", id) # {} THEN "running"
    ELSE "none"

\* An answer is known by its kind, its calculation and its block.
LEMMA AnswerIs ==
  ASSUME NEW a \in Answer
  PROVE  /\ a.op \in {"COMPLETED", "ABORTED"} => a = EndAnswer(a.op, a.id)
         /\ a.op \in {"BLOCK_STARTED", "BLOCK_COMPLETED"} =>
               a = [op |-> a.op, id |-> a.id, block |-> a.block] /\ a.block \in Blocks
         /\ a.op \in {"COMPLETED", "ABORTED"} \/ a.op \in {"BLOCK_STARTED", "BLOCK_COMPLETED"}
BY DEF Answer, EndAnswer

LEMMA EndPosted ==
  ASSUME NEW s \in Seq(Answer), NEW op \in {"COMPLETED", "ABORTED"}, NEW id
  PROVE  {n \in DOMAIN s : s[n].op = op /\ s[n].id = id} # {} <=> Has(s, EndAnswer(op, id))
<1>1. \A n \in DOMAIN s : s[n] \in Answer
  OBVIOUS
<1>2. ASSUME NEW n \in DOMAIN s, s[n].op = op, s[n].id = id
      PROVE  s[n] = EndAnswer(op, id)
  BY <1>1, <1>2, AnswerIs
<1>3. EndAnswer(op, id).op = op /\ EndAnswer(op, id).id = id
  BY DEF EndAnswer
<1> QED BY <1>2, <1>3 DEF Has

LEMMA BlockPostedIn ==
  ASSUME NEW s \in Seq(Answer), NEW op \in {"BLOCK_STARTED", "BLOCK_COMPLETED"}, NEW id
  PROVE  LET posted == {n \in DOMAIN s : s[n].op = op /\ s[n].id = id} IN
         /\ {s[n].block : n \in posted} = BlocksIn(s, op, id)
         /\ posted # {} <=> BlocksIn(s, op, id) # {}
<1> DEFINE posted == {n \in DOMAIN s : s[n].op = op /\ s[n].id = id}
           a(b) == [op |-> op, id |-> id, block |-> b]
<1>1. \A n \in DOMAIN s : s[n] \in Answer
  OBVIOUS
<1>2. ASSUME NEW n \in posted
      PROVE  s[n] = a(s[n].block) /\ s[n].block \in BlocksIn(s, op, id)
  <2>1. s[n] = a(s[n].block) /\ s[n].block \in Blocks
    BY <1>1, AnswerIs
  <2>2. Has(s, a(s[n].block))
    BY <2>1 DEF Has
  <2> QED BY <2>1, <2>2 DEF BlocksIn
<1>3. ASSUME NEW b \in BlocksIn(s, op, id)
      PROVE  \E n \in posted : s[n].block = b
  <2>1. PICK n \in DOMAIN s : s[n] = a(b)
    BY DEF BlocksIn, Has
  <2>2. s[n].op = op /\ s[n].id = id /\ s[n].block = b
    BY <2>1
  <2> QED BY <2>2
<1>4. {s[n].block : n \in posted} = BlocksIn(s, op, id)
  BY <1>2, <1>3
<1>5. posted # {} <=> BlocksIn(s, op, id) # {}
  BY <1>2, <1>3
<1> QED BY <1>4, <1>5

LEMMA SeenIs ==
  ASSUME TypeOK
  PROVE  /\ Statuses = [id \in Ids |-> StatusIn(answers, id)]
         /\ BlocksPosted("BLOCK_STARTED") = [id \in Ids |-> BlocksIn(answers, "BLOCK_STARTED", id)]
         /\ BlocksPosted("BLOCK_COMPLETED") = [id \in Ids |-> BlocksIn(answers, "BLOCK_COMPLETED", id)]
<1>1. answers \in Seq(Answer)
  BY DEF TypeOK
<1>2. \A id \in Ids :
          /\ Posted("COMPLETED", id) # {} <=> Has(answers, EndAnswer("COMPLETED", id))
          /\ Posted("ABORTED", id) # {} <=> Has(answers, EndAnswer("ABORTED", id))
          /\ Posted("BLOCK_STARTED", id) # {} <=> BlocksIn(answers, "BLOCK_STARTED", id) # {}
  BY <1>1, EndPosted, BlockPostedIn DEF Posted
<1>3. \A op \in {"BLOCK_STARTED", "BLOCK_COMPLETED"} : \A id \in Ids :
          {answers[n].block : n \in Posted(op, id)} = BlocksIn(answers, op, id)
  BY <1>1, BlockPostedIn DEF Posted
<1>4. Statuses = [id \in Ids |-> StatusIn(answers, id)]
  <2>1. \A id \in Ids : StatusPosted(id) = StatusIn(answers, id)
    BY <1>2 DEF StatusPosted, StatusIn
  <2> QED BY <2>1 DEF Statuses
<1> QED BY <1>3, <1>4 DEF BlocksPosted

LEMMA SeenIsNext ==
  ASSUME TypeOK'
  PROVE  /\ Statuses' = [id \in Ids |-> StatusIn(answers', id)]
         /\ BlocksPosted("BLOCK_STARTED")' = [id \in Ids |-> BlocksIn(answers', "BLOCK_STARTED", id)]
         /\ BlocksPosted("BLOCK_COMPLETED")' = [id \in Ids |-> BlocksIn(answers', "BLOCK_COMPLETED", id)]
<1>1. answers' \in Seq(Answer)
  BY DEF TypeOK
<1>2. \A id \in Ids :
          /\ Posted("COMPLETED", id)' # {} <=> Has(answers', EndAnswer("COMPLETED", id))
          /\ Posted("ABORTED", id)' # {} <=> Has(answers', EndAnswer("ABORTED", id))
          /\ Posted("BLOCK_STARTED", id)' # {} <=> BlocksIn(answers', "BLOCK_STARTED", id) # {}
  BY <1>1, EndPosted, BlockPostedIn DEF Posted
<1>3. \A op \in {"BLOCK_STARTED", "BLOCK_COMPLETED"} : \A id \in Ids :
          {answers'[n].block : n \in Posted(op, id)'} = BlocksIn(answers', op, id)
  BY <1>1, BlockPostedIn DEF Posted
<1>4. Statuses' = [id \in Ids |-> StatusIn(answers', id)]
  <2>1. \A id \in Ids : StatusPosted(id)' = StatusIn(answers', id)
    BY <1>2 DEF StatusPosted, StatusIn
  <2> QED BY <2>1 DEF Statuses
<1> QED BY <1>3, <1>4 DEF BlocksPosted

\* Answers about one calculation leave what is seen of the others as it was.
OnlyAbout(id, s, t) ==
    /\ \A x : Has(s, x) => Has(t, x)
    /\ \A x : Has(t, x) => Has(s, x) \/ x.id = id

LEMMA SeenOfOthers ==
  ASSUME NEW s, NEW t, NEW id, OnlyAbout(id, s, t)
  PROVE  \A other \in Ids : other # id =>
            /\ StatusIn(t, other) = StatusIn(s, other)
            /\ \A op : BlocksIn(t, op, other) = BlocksIn(s, op, other)
<1> SUFFICES ASSUME NEW other \in Ids, other # id
             PROVE  /\ StatusIn(t, other) = StatusIn(s, other)
                    /\ \A op : BlocksIn(t, op, other) = BlocksIn(s, op, other)
  OBVIOUS
<1> USE DEF OnlyAbout
<1>1. \A op : Has(t, EndAnswer(op, other)) <=> Has(s, EndAnswer(op, other))
  BY DEF EndAnswer
<1>2. \A op : BlocksIn(t, op, other) = BlocksIn(s, op, other)
  <2>1. \A op, b : Has(t, [op |-> op, id |-> other, block |-> b])
                       <=> Has(s, [op |-> op, id |-> other, block |-> b])
    OBVIOUS
  <2> QED BY <2>1 DEF BlocksIn
<1> QED BY <1>1, <1>2 DEF StatusIn

\* The state of the service after answers about one calculation.
LEMMA SeenChanges ==
  ASSUME WebInv, WebInv', NEW id \in Ids, OnlyAbout(id, answers, answers')
  PROVE  /\ Statuses' = [Statuses EXCEPT ![id] = StatusIn(answers', id)]
         /\ \A op \in {"BLOCK_STARTED", "BLOCK_COMPLETED"} :
               BlocksPosted(op)' = [BlocksPosted(op) EXCEPT ![id] = BlocksIn(answers', op, id)]
<1>1. /\ Statuses = [other \in Ids |-> StatusIn(answers, other)]
      /\ Statuses' = [other \in Ids |-> StatusIn(answers', other)]
      /\ \A op \in {"BLOCK_STARTED", "BLOCK_COMPLETED"} :
            /\ BlocksPosted(op) = [other \in Ids |-> BlocksIn(answers, op, other)]
            /\ BlocksPosted(op)' = [other \in Ids |-> BlocksIn(answers', op, other)]
  BY SeenIs, SeenIsNext DEF WebInv
<1>2. \A other \in Ids : other # id =>
          /\ StatusIn(answers', other) = StatusIn(answers, other)
          /\ \A op : BlocksIn(answers', op, other) = BlocksIn(answers, op, other)
  BY SeenOfOthers
<1>3. Statuses' = [Statuses EXCEPT ![id] = StatusIn(answers', id)]
  BY <1>1, <1>2
<1>4. ASSUME NEW op \in {"BLOCK_STARTED", "BLOCK_COMPLETED"}
      PROVE  BlocksPosted(op)' = [BlocksPosted(op) EXCEPT ![id] = BlocksIn(answers', op, id)]
  <2>1. /\ BlocksPosted(op) = [other \in Ids |-> BlocksIn(answers, op, other)]
        /\ BlocksPosted(op)' = [other \in Ids |-> BlocksIn(answers', op, other)]
    BY <1>1
  <2> QED BY <1>2, <2>1
<1> QED BY <1>3, <1>4

\* Answers that report some more blocks, and COMPLETED exactly with the last one.
LEMMA ReportsBlocks ==
  ASSUME WebInv, WebInv', NEW id \in Ids,
         NEW newStarted \in SUBSET Blocks, NEW newDone \in SUBSET Blocks,
         \A b \in newStarted : ~Has(answers, [op |-> "BLOCK_STARTED", id |-> id, block |-> b]),
         \A b \in newDone :
             /\ Has(answers, [op |-> "BLOCK_STARTED", id |-> id, block |-> b])
             /\ ~Has(answers, [op |-> "BLOCK_COMPLETED", id |-> id, block |-> b]),
         \A x : Has(answers', x) <=>
             \/ Has(answers, x)
             \/ \E b \in newStarted : x = [op |-> "BLOCK_STARTED", id |-> id, block |-> b]
             \/ \E b \in newDone : x = [op |-> "BLOCK_COMPLETED", id |-> id, block |-> b]
             \/ /\ BlocksIn(answers', "BLOCK_COMPLETED", id) = Blocks
                /\ x = EndAnswer("COMPLETED", id),
         ~Ended(answers, id), BlocksIn(answers', "BLOCK_STARTED", id) # {}
  PROVE  Service!Report(id, newStarted, newDone)
<1>1. \A op1, op2, b1, b2 :
          [op |-> op1, id |-> id, block |-> b1] = [op |-> op2, id |-> id, block |-> b2]
              => op1 = op2 /\ b1 = b2
  BY BlockAnswersDiffer
<1>2. /\ \A op, b : op \notin {"COMPLETED", "ABORTED"} =>
            /\ [op |-> op, id |-> id, block |-> b] # EndAnswer("COMPLETED", id)
            /\ [op |-> op, id |-> id, block |-> b] # EndAnswer("ABORTED", id)
      /\ EndAnswer("COMPLETED", id) # EndAnswer("ABORTED", id)
  <2>1. EndAnswer("COMPLETED", id).op = "COMPLETED" /\ EndAnswer("ABORTED", id).op = "ABORTED"
    BY DEF EndAnswer
  <2>2. \A op, b : [op |-> op, id |-> id, block |-> b].op = op
    OBVIOUS
  <2> QED BY <2>1, <2>2
<1>3. \A b : Has(answers', [op |-> "BLOCK_STARTED", id |-> id, block |-> b]) <=>
          Has(answers, [op |-> "BLOCK_STARTED", id |-> id, block |-> b]) \/ b \in newStarted
  BY <1>1, <1>2
<1>4. \A b : Has(answers', [op |-> "BLOCK_COMPLETED", id |-> id, block |-> b]) <=>
          Has(answers, [op |-> "BLOCK_COMPLETED", id |-> id, block |-> b]) \/ b \in newDone
  BY <1>1, <1>2
<1>5. BlocksIn(answers', "BLOCK_STARTED", id) = BlocksIn(answers, "BLOCK_STARTED", id) \cup newStarted
  BY <1>3 DEF BlocksIn
<1>6. BlocksIn(answers', "BLOCK_COMPLETED", id) = BlocksIn(answers, "BLOCK_COMPLETED", id) \cup newDone
  BY <1>4 DEF BlocksIn
<1>7. StatusIn(answers', id) =
          IF BlocksIn(answers', "BLOCK_COMPLETED", id) = Blocks THEN "completed" ELSE "running"
  <2>1. ~Has(answers', EndAnswer("ABORTED", id))
    BY <1>2 DEF Ended
  <2>2. Has(answers', EndAnswer("COMPLETED", id)) <=>
            BlocksIn(answers', "BLOCK_COMPLETED", id) = Blocks
    BY <1>2 DEF Ended
  <2> QED BY <2>1, <2>2 DEF StatusIn
<1>8. OnlyAbout(id, answers, answers')
  <2>1. EndAnswer("COMPLETED", id).id = id
    BY DEF EndAnswer
  <2>2. \A op, b : [op |-> op, id |-> id, block |-> b].id = id
    OBVIOUS
  <2> QED BY <2>1, <2>2 DEF OnlyAbout
<1>9. /\ Statuses' = [Statuses EXCEPT ![id] = StatusIn(answers', id)]
      /\ \A op \in {"BLOCK_STARTED", "BLOCK_COMPLETED"} :
            BlocksPosted(op)' = [BlocksPosted(op) EXCEPT ![id] = BlocksIn(answers', op, id)]
  BY <1>8, SeenChanges
<1>10. \A op \in {"BLOCK_STARTED", "BLOCK_COMPLETED"} :
          /\ BlocksPosted(op) = [other \in Ids |-> BlocksIn(answers, op, other)]
          /\ BlocksPosted(op)' = [other \in Ids |-> BlocksIn(answers', op, other)]
  BY SeenIs, SeenIsNext DEF WebInv
<1>11. /\ BlocksPosted("BLOCK_STARTED")[id] = BlocksIn(answers, "BLOCK_STARTED", id)
       /\ BlocksPosted("BLOCK_COMPLETED")[id] = BlocksIn(answers, "BLOCK_COMPLETED", id)
       /\ BlocksPosted("BLOCK_COMPLETED")'[id] = BlocksIn(answers', "BLOCK_COMPLETED", id)
  BY <1>10
<1>12. newStarted \subseteq Blocks \ BlocksPosted("BLOCK_STARTED")[id]
  BY <1>11 DEF BlocksIn
<1>13. newDone \subseteq BlocksPosted("BLOCK_STARTED")[id] \ BlocksPosted("BLOCK_COMPLETED")[id]
  BY <1>11 DEF BlocksIn
<1>14. /\ BlocksPosted("BLOCK_STARTED")' = [BlocksPosted("BLOCK_STARTED") EXCEPT ![id] = @ \cup newStarted]
       /\ BlocksPosted("BLOCK_COMPLETED")' = [BlocksPosted("BLOCK_COMPLETED") EXCEPT ![id] = @ \cup newDone]
       /\ Statuses' = [Statuses EXCEPT ![id] =
              IF BlocksPosted("BLOCK_COMPLETED")'[id] = Blocks THEN "completed" ELSE "running"]
  BY <1>5, <1>6, <1>7, <1>9, <1>11
<1> QED BY <1>12, <1>13, <1>14 DEF Service!Report

\* What is seen of the calculations that have ended, of those to come, and of
\* the one under way.
LEMMA SeenSofar ==
  ASSUME WebInv, NEW id \in Ids
  PROVE  /\ Ended(answers, id) => StatusIn(answers, id) # "running"
         /\ id > Cur => /\ StatusIn(answers, id) = "none" /\ ~Ended(answers, id)
                        /\ \A op, b : ~Has(answers, [op |-> op, id |-> id, block |-> b])
         /\ id = Cur => BlocksIn(answers, "BLOCK_STARTED", id) # {}
         /\ id = Cur /\ ~Ended(answers, id) => StatusIn(answers, id) = "running"
<1>0. id \in Nat /\ Cur \in Int /\ id >= 1
  BY CurIs DEF Ids
<1>1. Ended(answers, id) => StatusIn(answers, id) # "running"
  BY DEF Ended, StatusIn
<1>2. ASSUME id > Cur
      PROVE  /\ StatusIn(answers, id) = "none" /\ ~Ended(answers, id)
             /\ \A op, b : ~Has(answers, [op |-> op, id |-> id, block |-> b])
  <2>1. \A n \in DOMAIN answers : answers[n].id # id
    <3>1. \A n \in DOMAIN answers : answers[n].id <= Cur
      BY DEF WebInv, AnswersOK
    <3> QED BY <1>0, <1>2, <3>1
  <2>2. \A op, b : ~Has(answers, [op |-> op, id |-> id, block |-> b])
    <3>1. \A op, b : [op |-> op, id |-> id, block |-> b].id = id
      OBVIOUS
    <3> QED BY <2>1, <3>1 DEF Has
  <2>3. \A op : ~Has(answers, EndAnswer(op, id))
    <3>1. \A op : EndAnswer(op, id).id = id
      BY DEF EndAnswer
    <3> QED BY <2>1, <3>1 DEF Has
  <2> QED BY <2>2, <2>3 DEF StatusIn, Ended, BlocksIn
<1>3. ASSUME id = Cur
      PROVE  BlocksIn(answers, "BLOCK_STARTED", id) # {}
  <2>1. id \in 1..Cur
    BY <1>0, <1>3
  <2> QED BY <2>1 DEF WebInv, AnswersOK, BlocksIn
<1>4. id = Cur /\ ~Ended(answers, id) => StatusIn(answers, id) = "running"
  BY <1>3 DEF StatusIn, Ended
<1> QED BY <1>1, <1>2, <1>3, <1>4

LEMMA StartBegins ==
  ASSUME WebInv, WebInv', OnStart
  PROVE  Service!Begin(lastId)
<1> USE WebDispatcherAssumption
<1>1. PICK given \in 1..NumBlocks :
         /\ lastId \in Nat \ {0} /\ lastId \in Ids
         /\ Cur = lastId - 1 /\ Cur' = lastId
         /\ (Cur > 0 => Ended(answers, Cur))
         /\ answers' = answers \o StartedUpTo(lastId, given)
  BY Started
<1>2. lastId > Cur /\ Cur \in Nat
  BY <1>1
<1>3. /\ StatusIn(answers, lastId) = "none" /\ ~Ended(answers, lastId)
      /\ \A op, b : ~Has(answers, [op |-> op, id |-> lastId, block |-> b])
  BY <1>1, <1>2, SeenSofar
<1>4. Statuses = [id \in Ids |-> StatusIn(answers, id)]
  BY SeenIs DEF WebInv
<1>5. Statuses[lastId] = "none"
  BY <1>1, <1>3, <1>4
<1>6. ASSUME NEW other \in Ids
      PROVE  Statuses[other] # "running"
  <2>0. other \in Nat \ {0}
    BY DEF Ids
  <2>1. CASE other > Cur
    BY <1>4, <2>1, SeenSofar
  <2>2. CASE other = Cur
    BY <1>1, <1>2, <1>4, <2>0, <2>2, SeenSofar
  <2>3. CASE other < Cur
    <3>1. other \in 1..Cur
      BY <1>2, <2>0, <2>3
    <3>2. Ended(answers, other)
      BY <2>3, <3>1 DEF WebInv, AnswersOK
    <3> QED BY <1>4, <3>2, SeenSofar
  <2> QED BY <1>2, <2>0, <2>1, <2>2, <2>3
<1> DEFINE new == 1..given
<1>7. \A x : Has(answers', x) <=>
          \/ Has(answers, x)
          \/ \E b \in new : x = [op |-> "BLOCK_STARTED", id |-> lastId, block |-> b]
  <2>1. answers \in Seq(Answer) /\ Sound(answers)
    BY DEF WebInv, TypeOK, AnswersOK
  <2>2. \A n \in DOMAIN answers : answers[n].id # lastId
    <3>1. \A n \in DOMAIN answers : answers[n].id <= Cur
      BY DEF WebInv, AnswersOK
    <3> QED BY <1>1, <1>2, <3>1
  <2>3. answers' = answers \o StartedUpTo(lastId, given)
    BY <1>1
  <2> QED BY <1>1, <2>1, <2>2, <2>3, SoundStarts
<1>8. new \in SUBSET Blocks /\ 1 \in new
  <2>1. given \in Nat \ {0} /\ given <= NumBlocks /\ NumBlocks \in Nat
    OBVIOUS
  <2> QED BY <2>1 DEF Blocks
<1> HIDE DEF new
<1>9. BlocksIn(answers', "BLOCK_STARTED", lastId) # {}
  BY <1>7, <1>8 DEF BlocksIn
<1>10. BlocksIn(answers', "BLOCK_COMPLETED", lastId) # Blocks
  <2>1. ~Has(answers', [op |-> "BLOCK_COMPLETED", id |-> lastId, block |-> 1])
    BY <1>3, <1>7, BlockAnswersDiffer
  <2> QED BY <1>8, <2>1 DEF BlocksIn
<1>11. Service!Report(lastId, new, {})
  <2>1. \A x : Has(answers', x) <=>
             \/ Has(answers, x)
             \/ \E b \in new : x = [op |-> "BLOCK_STARTED", id |-> lastId, block |-> b]
             \/ \E b \in {} : x = [op |-> "BLOCK_COMPLETED", id |-> lastId, block |-> b]
             \/ /\ BlocksIn(answers', "BLOCK_COMPLETED", lastId) = Blocks
                /\ x = EndAnswer("COMPLETED", lastId)
    BY <1>7, <1>10
  <2>2. {} \in SUBSET Blocks
    OBVIOUS
  <2> QED BY <1>1, <1>3, <1>8, <1>9, <2>1, <2>2, ReportsBlocks
<1> QED BY <1>5, <1>6, <1>8, <1>11 DEF Service!Begin

LEMMA AbortAborts ==
  ASSUME WebInv, WebInv', OnAbort
  PROVE  Service!Next \/ UNCHANGED Service!serviceVars
<1> DEFINE a == EndAnswer("ABORTED", Cur)
<1>1. Cur \in Ids /\ Head(inbox).id = Cur /\ ~Has(answers, a)
  BY AbortIsOfCur
<1>2. answers' = Append(answers, a)
  BY <1>1 DEF OnAbort
<1>3. a.id = Cur /\ a.op = "ABORTED" /\ a \in Answer
  BY <1>1 DEF EndAnswer, Answer
<1>4. \A x : Has(answers', x) <=> Has(answers, x) \/ x = a
  <2>1. answers \in Seq(Answer)
    BY DEF WebInv, TypeOK
  <2> QED BY <1>2, <1>3, <2>1, HasAppend
<1>5. OnlyAbout(Cur, answers, answers')
  BY <1>3, <1>4 DEF OnlyAbout
<1>6. /\ Statuses' = [Statuses EXCEPT ![Cur] = StatusIn(answers', Cur)]
      /\ \A op \in {"BLOCK_STARTED", "BLOCK_COMPLETED"} :
            BlocksPosted(op)' = [BlocksPosted(op) EXCEPT ![Cur] = BlocksIn(answers', op, Cur)]
  BY <1>1, <1>5, SeenChanges
<1>7. /\ Statuses = [id \in Ids |-> StatusIn(answers, id)]
      /\ \A op \in {"BLOCK_STARTED", "BLOCK_COMPLETED"} :
            BlocksPosted(op) = [id \in Ids |-> BlocksIn(answers, op, id)]
  BY SeenIs DEF WebInv
<1>8. EndAnswer("COMPLETED", Cur) # a
  <2>1. EndAnswer("COMPLETED", Cur).op = "COMPLETED"
    BY DEF EndAnswer
  <2> QED BY <1>3, <2>1
<1>9. \A op \in {"BLOCK_STARTED", "BLOCK_COMPLETED"} :
          BlocksIn(answers', op, Cur) = BlocksIn(answers, op, Cur)
  <2>1. \A op \in {"BLOCK_STARTED", "BLOCK_COMPLETED"} : \A b :
            [op |-> op, id |-> Cur, block |-> b] # a
    <3>1. \A op, b : [op |-> op, id |-> Cur, block |-> b].op = op
      OBVIOUS
    <3> QED BY <1>3, <3>1
  <2> QED BY <1>4, <2>1 DEF BlocksIn
<1>10. \A op \in {"BLOCK_STARTED", "BLOCK_COMPLETED"} : BlocksPosted(op)' = BlocksPosted(op)
  <2> SUFFICES ASSUME NEW op \in {"BLOCK_STARTED", "BLOCK_COMPLETED"}
               PROVE  BlocksPosted(op)' = BlocksPosted(op)
    OBVIOUS
  <2>1. /\ BlocksPosted(op) = [id \in Ids |-> BlocksIn(answers, op, id)]
        /\ BlocksPosted(op)' = [BlocksPosted(op) EXCEPT ![Cur] = BlocksIn(answers, op, Cur)]
    BY <1>6, <1>7, <1>9
  <2> QED BY <2>1
<1> HIDE DEF a
<1>11. Has(answers', a)
  BY <1>4
<1>12. CASE Has(answers, EndAnswer("COMPLETED", Cur))
  <2>1. StatusIn(answers, Cur) = "completed" /\ StatusIn(answers', Cur) = "completed"
    BY <1>4, <1>12 DEF StatusIn
  <2>2. Statuses' = Statuses
    BY <1>6, <1>7, <2>1
  <2> QED BY <1>10, <2>2 DEF Service!serviceVars
<1>13. CASE ~Has(answers, EndAnswer("COMPLETED", Cur))
  <2>1. ~Ended(answers, Cur)
    BY <1>1, <1>13 DEF Ended, a
  <2>2. Statuses[Cur] = "running"
    BY <1>1, <1>7, <2>1, SeenSofar
  <2>3. StatusIn(answers', Cur) = "aborted"
    BY <1>4, <1>8, <1>11, <1>13 DEF StatusIn, a
  <2>4. Service!Abort(Cur)
    BY <1>6, <1>10, <2>2, <2>3 DEF Service!Abort
  <2> QED BY <1>1, <2>4 DEF Service!Next
<1> QED BY <1>12, <1>13

\* COMPLETED has been posted exactly if every block has been.
LEMMA CompletedIfAll ==
  ASSUME WebInv', Cur' \in Ids, ~Has(answers', EndAnswer("ABORTED", Cur'))
  PROVE  BlocksIn(answers', "BLOCK_COMPLETED", Cur') = Blocks
             <=> Has(answers', EndAnswer("COMPLETED", Cur'))
<1>1. ASSUME Has(answers', EndAnswer("COMPLETED", Cur'))
      PROVE  BlocksIn(answers', "BLOCK_COMPLETED", Cur') = Blocks
  <2>1. PICK n \in DOMAIN answers' : answers'[n] = EndAnswer("COMPLETED", Cur')
    BY <1>1 DEF Has
  <2>2. answers'[n].op = "COMPLETED" /\ answers'[n].id = Cur'
    BY <2>1 DEF EndAnswer
  <2>3. \A b \in Blocks : Has(answers', [op |-> "BLOCK_COMPLETED", id |-> Cur', block |-> b])
    BY <2>2 DEF WebInv, AnswersOK, Sound
  <2> QED BY <2>3 DEF BlocksIn
<1>2. ASSUME ~Has(answers', EndAnswer("COMPLETED", Cur'))
      PROVE  BlocksIn(answers', "BLOCK_COMPLETED", Cur') # Blocks
  <2>1. ~Ended(answers', Cur') /\ Cur' # 0
    BY <1>2 DEF Ended, Ids
  <2>2. Running'
    BY <2>1 DEF WebInv, WorkOK
  <2>3. PICK k \in DOMAIN workers' : workers'[k].mail # <<>> \/ workers'[k].posted # <<>>
    BY <2>2 DEF Running, BusyWorkers, Busy
  <2>4. workers'[k] # NewWorker
    BY <2>3 DEF NewWorker
  <2>5. PICK c \in 1 .. Given' : Holds(workers'[k], CurBlock(c)')
    BY <2>2, <2>4 DEF Running
  <2>6. c \in Blocks
    <3>1. Given' \in Int /\ Given' <= NumBlocks /\ NumBlocks \in Nat
      BY WebDispatcherAssumption DEF WebInv, TypeOK, Given
    <3> QED BY <3>1 DEF Blocks
  <2>7. ~Has(answers', BlockAnswer("BLOCK_COMPLETED", CurBlock(c)'))
    BY <2>2, <2>5, <2>6 DEF Running
  <2>8. BlockAnswer("BLOCK_COMPLETED", CurBlock(c)')
            = [op |-> "BLOCK_COMPLETED", id |-> Cur', block |-> c]
    BY DEF BlockAnswer, CurBlock
  <2> QED BY <2>6, <2>7, <2>8 DEF BlocksIn
<1> QED BY <1>1, <1>2

LEMMA BlockProgresses ==
  ASSUME WebInv, WebInv', NEW i \in DOMAIN workers, OnBlockCompleted(i)
  PROVE  Service!Progress(Cur) /\ Cur \in Ids
<1> USE WebDispatcherAssumption
<1>1. /\ Running /\ Cur \in Ids /\ ~Ended(answers, Cur)
      /\ Given \in 1..NumBlocks
  BY BusyRuns DEF OnBlockCompleted, Busy
<1> DEFINE next(c) == [op |-> "BLOCK_STARTED", id |-> Cur, block |-> c]
           done(c) == [op |-> "BLOCK_COMPLETED", id |-> Cur, block |-> c]
           end == EndAnswer("COMPLETED", Cur)
           new == IF blocks = <<>> THEN {} ELSE {Given + 1}
<1>2. PICK b \in 1..Given :
         /\ b \in Blocks /\ Holds(workers[i], CurBlock(b))
         /\ blocks # <<>> =>
               /\ Given + 1 \in Blocks
               /\ answers' = IF IsLast(workingCount)
                             THEN Append(Append(Append(answers, next(Given + 1)), done(b)), end)
                             ELSE Append(Append(answers, next(Given + 1)), done(b))
         /\ blocks = <<>> =>
               answers' = IF IsLast(workingCount - 1)
                          THEN Append(Append(answers, done(b)), end)
                          ELSE Append(answers, done(b))
  BY BlockPosted DEF BlockAnswer, CurBlock
<1>3. ~Has(answers, done(b))
  <2>1. ~Has(answers, BlockAnswer("BLOCK_COMPLETED", CurBlock(b)))
    BY <1>1, <1>2, HoldsBefore
  <2> QED BY <2>1 DEF BlockAnswer, CurBlock
<1>4. Has(answers, next(b)) /\ \A c \in new : ~Has(answers, next(c))
  <2>1. \A c : next(c) = BlockAnswer("BLOCK_STARTED", CurBlock(c))
    BY DEF BlockAnswer, CurBlock
  <2>2. b <= Given /\ ~(Given + 1 <= Given)
    BY <1>1
  <2> QED BY <1>1, <1>2, <2>1, <2>2 DEF Running
<1>5. /\ answers \in Seq(Answer) /\ done(b) \in Answer /\ end \in Answer
      /\ blocks # <<>> => next(Given + 1) \in Answer
  BY <1>1, <1>2 DEF WebInv, TypeOK, Answer, EndAnswer
<1>6. Cur' = Cur
  BY DEF OnBlockCompleted, clientVars, Cur
<1> HIDE DEF next, done, end
<1>7. \E last \in BOOLEAN : \A x : Has(answers', x) <=>
          \/ Has(answers, x)
          \/ \E c \in new : x = next(c)
          \/ x = done(b)
          \/ last /\ x = end
  <2>1. CASE blocks # <<>>
    <3> DEFINE s == Append(answers, next(Given + 1))
               t == Append(s, done(b))
    <3>1. s \in Seq(Answer) /\ \A x : Has(s, x) <=> Has(answers, x) \/ x = next(Given + 1)
      BY <1>5, <2>1, HasAppend, AppendOne
    <3> HIDE DEF s
    <3>2. t \in Seq(Answer) /\ \A x : Has(t, x) <=> Has(s, x) \/ x = done(b)
      BY <1>5, <3>1, HasAppend, AppendOne
    <3> HIDE DEF t
    <3>3. answers' = IF IsLast(workingCount) THEN Append(t, end) ELSE t
      BY <1>2, <2>1 DEF s, t
    <3>4. \A x : Has(Append(t, end), x) <=> Has(t, x) \/ x = end
      BY <1>5, <3>2, HasAppend
    <3>5. \A x : (\E c \in new : x = next(c)) <=> x = next(Given + 1)
      BY <2>1
    <3>6. CASE IsLast(workingCount)
      <4>1. \A x : Has(answers', x) <=>
                \/ Has(answers, x) \/ (\E c \in new : x = next(c)) \/ x = done(b) \/ (TRUE /\ x = end)
        BY <3>1, <3>2, <3>3, <3>4, <3>5, <3>6
      <4> QED BY <4>1
    <3>7. CASE ~IsLast(workingCount)
      <4>1. \A x : Has(answers', x) <=>
                \/ Has(answers, x) \/ (\E c \in new : x = next(c)) \/ x = done(b) \/ (FALSE /\ x = end)
        BY <3>1, <3>2, <3>3, <3>5, <3>7
      <4> QED BY <4>1
    <3> QED BY <3>6, <3>7
  <2>2. CASE blocks = <<>>
    <3> DEFINE t == Append(answers, done(b))
    <3>2. t \in Seq(Answer) /\ \A x : Has(t, x) <=> Has(answers, x) \/ x = done(b)
      BY <1>5, HasAppend, AppendOne
    <3> HIDE DEF t
    <3>3. answers' = IF IsLast(workingCount - 1) THEN Append(t, end) ELSE t
      BY <1>2, <2>2 DEF t
    <3>4. \A x : Has(Append(t, end), x) <=> Has(t, x) \/ x = end
      BY <1>5, <3>2, HasAppend
    <3>5. \A x : ~\E c \in new : x = next(c)
      BY <2>2
    <3>6. CASE IsLast(workingCount - 1)
      <4>1. \A x : Has(answers', x) <=>
                \/ Has(answers, x) \/ (\E c \in new : x = next(c)) \/ x = done(b) \/ (TRUE /\ x = end)
        BY <3>2, <3>3, <3>4, <3>5, <3>6
      <4> QED BY <4>1
    <3>7. CASE ~IsLast(workingCount - 1)
      <4>1. \A x : Has(answers', x) <=>
                \/ Has(answers, x) \/ (\E c \in new : x = next(c)) \/ x = done(b) \/ (FALSE /\ x = end)
        BY <3>2, <3>3, <3>5, <3>7
      <4> QED BY <4>1
    <3> QED BY <3>6, <3>7
  <2> QED BY <2>1, <2>2
<1>8. PICK last \in BOOLEAN : \A x : Has(answers', x) <=>
          \/ Has(answers, x)
          \/ \E c \in new : x = next(c)
          \/ x = done(b)
          \/ last /\ x = end
  BY <1>7
<1>9. \A op, c : op \in {"COMPLETED", "ABORTED"} =>
          EndAnswer(op, Cur) # next(c) /\ EndAnswer(op, Cur) # done(c)
  <2>1. \A op : EndAnswer(op, Cur).op = op
    BY DEF EndAnswer
  <2>2. \A c : next(c).op = "BLOCK_STARTED" /\ done(c).op = "BLOCK_COMPLETED"
    BY DEF next, done
  <2> QED BY <2>1, <2>2
<1>10. Has(answers', end) <=> last
  BY <1>1, <1>8, <1>9 DEF Ended, end
<1>11. ~Has(answers', EndAnswer("ABORTED", Cur))
  <2>1. EndAnswer("ABORTED", Cur) # end
    <3>1. EndAnswer("ABORTED", Cur).op = "ABORTED" /\ EndAnswer("COMPLETED", Cur).op = "COMPLETED"
      BY DEF EndAnswer
    <3> QED BY <3>1 DEF end
  <2> QED BY <1>1, <1>8, <1>9, <2>1 DEF Ended
<1>12. last <=> BlocksIn(answers', "BLOCK_COMPLETED", Cur) = Blocks
  BY <1>1, <1>6, <1>10, <1>11, CompletedIfAll DEF end
<1>13. new \in SUBSET Blocks /\ {b} \in SUBSET Blocks
  BY <1>2
<1>14. BlocksIn(answers', "BLOCK_STARTED", Cur) # {}
  <2>1. Has(answers', next(b))
    BY <1>4, <1>8
  <2> QED BY <1>2, <2>1 DEF BlocksIn, next
<1>15. Service!Report(Cur, new, {b})
  <2>1. \A c \in new : ~Has(answers, [op |-> "BLOCK_STARTED", id |-> Cur, block |-> c])
    BY <1>4 DEF next
  <2>2. \A c \in {b} :
            /\ Has(answers, [op |-> "BLOCK_STARTED", id |-> Cur, block |-> c])
            /\ ~Has(answers, [op |-> "BLOCK_COMPLETED", id |-> Cur, block |-> c])
    BY <1>3, <1>4 DEF next, done
  <2>3. \A x : Has(answers', x) <=>
            \/ Has(answers, x)
            \/ \E c \in new : x = [op |-> "BLOCK_STARTED", id |-> Cur, block |-> c]
            \/ \E c \in {b} : x = [op |-> "BLOCK_COMPLETED", id |-> Cur, block |-> c]
            \/ /\ BlocksIn(answers', "BLOCK_COMPLETED", Cur) = Blocks
               /\ x = EndAnswer("COMPLETED", Cur)
    BY <1>8, <1>12 DEF next, done, end
  <2> HIDE DEF new
  <2> QED BY <1>1, <1>13, <1>14, <2>1, <2>2, <2>3, ReportsBlocks
<1>16. Statuses[Cur] = "running"
  <2>1. Statuses = [id \in Ids |-> StatusIn(answers, id)]
    BY SeenIs DEF WebInv
  <2> QED BY <1>1, <2>1, SeenSofar
<1> HIDE DEF new
<1> QED BY <1>1, <1>13, <1>15, <1>16 DEF Service!Progress

\* The dispatcher promises what CalculationService says, as seen from the answers
\* it posts: blocks are started before they are done, COMPLETED comes with the
\* last, one calculation runs at a time, and an abort ends it.
THEOREM ServiceImplemented == Spec => ImplementsService
<1>1. Init => Service!Init
  <2> SUFFICES ASSUME Init
               PROVE  Service!Init
    OBVIOUS
  <2>1. answers = <<>> /\ DOMAIN answers = {}
    BY DEF Init
  <2>2. \A op, id : Posted(op, id) = {}
    BY <2>1 DEF Posted
  <2>3. Statuses = [id \in Ids |-> "none"]
    BY <2>2 DEF Statuses, StatusPosted
  <2>4. \A op : BlocksPosted(op) = [id \in Ids |-> {}]
    BY <2>2 DEF BlocksPosted
  <2> QED BY <2>3, <2>4 DEF Service!Init
<1>2. WebInv /\ WebInv' /\ [Next]_vars => [Service!Next]_(Service!serviceVars)
  <2> SUFFICES ASSUME WebInv, WebInv', [Next]_vars
               PROVE  Service!Next \/ UNCHANGED Service!serviceVars
    OBVIOUS
  <2>1. ASSUME UNCHANGED answers
        PROVE  UNCHANGED Service!serviceVars
    BY <2>1 DEF Service!serviceVars, Statuses, StatusPosted, BlocksPosted, Posted
  <2>2. ASSUME OnStart
        PROVE  Service!Next
    <3>1. lastId \in Ids
      BY <2>2, Started
    <3> QED BY <2>2, <3>1, StartBegins DEF Service!Next
  <2>3. ASSUME OnAbort
        PROVE  Service!Next \/ UNCHANGED Service!serviceVars
    BY <2>3, AbortAborts
  <2>4. ASSUME NEW i \in DOMAIN workers, OnBlockCompleted(i)
        PROVE  Service!Next
    BY <2>4, BlockProgresses DEF Service!Next
  <2>5. ASSUME NEW count \in WorkerCounts, ClientStart(count)
        PROVE  UNCHANGED answers
    BY <2>5 DEF ClientStart, dispatcherVars
  <2>6. ASSUME ClientAbort \/ ClientReceive
        PROVE  UNCHANGED answers
    BY <2>6 DEF ClientAbort, ClientReceive, dispatcherVars
  <2>7. ASSUME NEW i \in DOMAIN workers, WorkerRun(i)
        PROVE  UNCHANGED answers
    BY <2>7 DEF WorkerRun
  <2>8. ASSUME UNCHANGED vars
        PROVE  UNCHANGED answers
    BY <2>8 DEF vars, dispatcherVars
  <2> QED BY <2>1, <2>2, <2>3, <2>4, <2>5, <2>6, <2>7, <2>8 DEF Next, Dispatch
<1> QED BY <1>1, <1>2, WebInvariant, PTL DEF Spec, ImplementsService, Service!Spec
=============================================================================
