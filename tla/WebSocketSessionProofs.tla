----------------------- MODULE WebSocketSessionProofs -----------------------
(***************************************************************************)
(* Proofs about how the C++ server reads its connection: for frames of any *)
(* size, cut into any pieces, receive() returns the messages written.      *)
(***************************************************************************)
EXTENDS WebSocketSession, TLAPS

-----------------------------------------------------------------------------
(* The inductive invariant.                                                *)

\* A frame used for the message under way, at its place k and not its last.
InMessage(k, frame) ==
    frame.op = (IF k = 1 THEN "text" ELSE "continuation") /\ ~frame.fin

FragmentsOK ==
    /\ \A k \in DOMAIN fragments : InMessage(k, written[fragments[k]])
    /\ reader = "idle" => fragments = <<>>
    /\ reader = "recv" => (opcode = "continuation" <=> fragments = <<>>)

\* Nothing is written before the handshake, and nothing comes after an error.
StreamOK ==
    /\ reader = "handshake" => written = <<>> /\ fragments = <<>>
    /\ stream = "error" => wire = 0
    /\ Len(written) <= MaxFrames

\* Messages are made of frames that were used.
DeliveredOK ==
    \A m \in DOMAIN delivered : \A k \in DOMAIN delivered[m] : delivered[m][k] \in 1..taken

SessionInv == TypeOK /\ MessagesAreWhole /\ FragmentsOK /\ StreamOK /\ DeliveredOK

-----------------------------------------------------------------------------
(* Sizes and sequences.                                                    *)

\* The sizes of a frame are numbers, and its head is part of it.
LEMMA FrameSizes ==
  ASSUME NEW frame \in Frame
  PROVE  /\ FrameSize(frame) \in Nat /\ FrameSize(frame) >= 2
         /\ UnmaskedSize(frame) \in Nat
         /\ FrameSize(frame) >= UnmaskedSize(frame)
<1>1. frame.size \in Nat /\ LengthSize[frame.size] \in Nat /\ frame.masked \in BOOLEAN
  BY WebSocketSessionAssumption DEF Frame
<1>2. UnmaskedSize(frame) \in Nat /\ UnmaskedSize(frame) >= 2
  BY <1>1 DEF UnmaskedSize, HeadSize
<1> QED  BY <1>1, <1>2 DEF FrameSize, MaskSize

\* What is appended comes last, and what was there stays.
LEMMA AppendOne ==
  ASSUME NEW S, NEW s \in Seq(S), NEW e \in S
  PROVE  /\ Append(s, e) \in Seq(S)
         /\ Len(Append(s, e)) = Len(s) + 1
         /\ DOMAIN Append(s, e) = 1 .. Len(s) + 1
         /\ DOMAIN s = 1 .. Len(s)
         /\ Len(s) \in Nat
         /\ \A n \in 1 .. Len(s) : Append(s, e)[n] = s[n]
         /\ Append(s, e)[Len(s) + 1] = e
         /\ Append(s, e) # <<>>
OBVIOUS

\* A sequence that is not empty has a last element.
LEMMA LastOne ==
  ASSUME NEW S, NEW s \in Seq(S), s # <<>>
  PROVE  Len(s) \in DOMAIN s /\ Len(s) \in Nat \ {0} /\ s[Len(s)] \in S
OBVIOUS

\* The number of frames that the messages returned are made of.
LEMMA FramesAreCounted ==
  ASSUME TypeOK, FramesInOrder
  PROVE  FramesOf(Len(delivered)) \in Nat
<1>1. delivered \in Seq(Seq(1..MaxFrames))
  BY DEF TypeOK
<1>2. CASE Len(delivered) = 0
  BY <1>2 DEF FramesOf
<1>3. CASE Len(delivered) # 0
  <2> DEFINE m == Len(delivered)
  <2>1. m \in DOMAIN delivered
    BY <1>1, <1>3
  <2>2. delivered[m] # <<>>
    BY <2>1 DEF FramesInOrder
  <2>3. delivered[m] \in Seq(1..MaxFrames)
    BY <1>1, <2>1
  <2>4. delivered[m][Len(delivered[m])] \in 1..MaxFrames
    BY <2>2, <2>3, LastOne
  <2> QED  BY <1>3, <2>4 DEF FramesOf, Last
<1> QED  BY <1>2, <1>3

\* What the message under way is made of was used.
LEMMA FragmentsUsed ==
  ASSUME TypeOK, FramesInOrder
  PROVE  \A k \in DOMAIN fragments : fragments[k] \in 1..taken
<1>1. fragments \in Seq(1..MaxFrames) /\ taken \in Nat
  BY DEF TypeOK
<1>2. Len(fragments) \in Nat /\ DOMAIN fragments = 1 .. Len(fragments)
  BY <1>1
<1>3. FramesOf(Len(delivered)) \in Nat
  BY FramesAreCounted
<1>4. ASSUME NEW k \in DOMAIN fragments
      PROVE  fragments[k] \in 1..taken
  <2>1. fragments[k] = FramesOf(Len(delivered)) + k
    BY DEF FramesInOrder
  <2>2. taken = FramesOf(Len(delivered)) + Len(fragments)
    BY DEF FramesInOrder
  <2> QED  BY <1>1, <1>2, <1>3, <2>1, <2>2
<1> QED  BY <1>4

-----------------------------------------------------------------------------
(* The client.                                                             *)

\* A frame more on the connection changes nothing of those before it.
LEMMA WritesKeeps ==
  ASSUME SessionInv, NEW frame \in Frame, ClientWrites(frame)
  PROVE  SessionInv'
<1> USE DEF clientVars, messageVars
<1>1. /\ written \in Seq(Frame) /\ ends \in Seq(Nat) /\ Len(ends) = Len(written)
      /\ wire \in Nat /\ data \in Nat /\ taken \in 0 .. Len(written)
      /\ fragments \in Seq(1..MaxFrames) /\ delivered \in Seq(Seq(1..MaxFrames))
  BY DEF SessionInv, TypeOK
<1>2. FrameSize(frame) \in Nat
  BY FrameSizes
<1> DEFINE last == Len(written)
<1>3. last \in Nat /\ BytesOf(last) \in Nat
  BY <1>1 DEF BytesOf
<1>4. /\ written' \in Seq(Frame) /\ Len(written') = last + 1
      /\ \A n \in 1..last : written'[n] = written[n]
      /\ written'[last + 1] = frame
      /\ DOMAIN written = 1..last /\ DOMAIN written' = 1 .. last + 1
  BY <1>1, AppendOne DEF ClientWrites
<1>5. /\ ends' \in Seq(Nat) /\ Len(ends') = last + 1
      /\ \A n \in 1..last : ends'[n] = ends[n]
      /\ ends'[last + 1] = BytesOf(last) + FrameSize(frame)
  BY <1>1, <1>2, <1>3, AppendOne DEF ClientWrites
<1>6. TypeOK'
  BY <1>1, <1>2, <1>4, <1>5 DEF SessionInv, TypeOK, ClientWrites
<1>7. \A n \in 0..last : BytesOf(n)' = BytesOf(n)
  BY <1>3, <1>5 DEF BytesOf
<1>8. BytesOf(Len(written))' = BytesOf(last) + FrameSize(frame)
  BY <1>3, <1>4, <1>5 DEF BytesOf
<1>9. BytesAreKept'
  <2>1. ASSUME NEW n \in DOMAIN written'
        PROVE  ends'[n] = BytesOf(n - 1)' + FrameSize(written'[n])
    <3>1. CASE n = last + 1
      BY <1>3, <1>4, <1>5, <1>7, <3>1
    <3>2. CASE n # last + 1
      <4>1. n \in 1..last /\ n - 1 \in 0..last
        BY <1>3, <1>4, <3>2
      <4>2. ends[n] = BytesOf(n - 1) + FrameSize(written[n])
        BY <1>4, <4>1 DEF SessionInv, MessagesAreWhole, BytesAreKept
      <4> QED  BY <1>4, <1>5, <1>7, <4>1, <4>2
    <3> QED  BY <3>1, <3>2
  <2>2. ASSUME reader' \in {"idle", "recv"} /\ stream' # "error"
        PROVE  BytesOf(Len(written))' = BytesOf(taken)' + data' + wire'
    <3>1. BytesOf(last) = BytesOf(taken) + data + wire
      BY <2>2 DEF SessionInv, MessagesAreWhole, BytesAreKept, ClientWrites
    <3>2. BytesOf(taken)' = BytesOf(taken) /\ taken' = taken
      BY <1>1, <1>3, <1>7 DEF ClientWrites, BytesOf
    <3>3. BytesOf(taken) \in Nat
      BY <1>1 DEF BytesOf
    <3> QED  BY <1>1, <1>2, <1>3, <1>8, <3>1, <3>2, <3>3 DEF ClientWrites
  <2> QED  BY <2>1, <2>2 DEF BytesAreKept
<1>10. FramesInOrder'
  BY DEF SessionInv, MessagesAreWhole, FramesInOrder, FramesOf, ClientWrites
<1>11. \A n \in 1..taken : written'[n] = written[n]
  BY <1>1, <1>4
<1>12. EndsInPlace'
  <2> SUFFICES ASSUME NEW m \in DOMAIN delivered, NEW k \in DOMAIN delivered[m]
               PROVE  /\ written'[delivered[m][k]].op
                            = (IF k = 1 THEN "text" ELSE "continuation")
                      /\ written'[delivered[m][k]].fin <=> k = Len(delivered[m])
    BY DEF EndsInPlace, ClientWrites
  <2>1. written'[delivered[m][k]] = written[delivered[m][k]]
    BY <1>11 DEF SessionInv, DeliveredOK
  <2> QED  BY <2>1 DEF SessionInv, MessagesAreWhole, EndsInPlace
<1>13. FragmentsOK'
  <2>1. \A k \in DOMAIN fragments : written'[fragments[k]] = written[fragments[k]]
    BY <1>11, FragmentsUsed DEF SessionInv, MessagesAreWhole
  <2>2. \A k \in DOMAIN fragments : InMessage(k, written'[fragments[k]])
    BY <2>1 DEF SessionInv, FragmentsOK
  <2>3. UNCHANGED <<fragments, reader, opcode>>
    BY DEF ClientWrites
  <2> QED  BY <2>2, <2>3 DEF SessionInv, FragmentsOK, InMessage
<1>14. StreamOK'
  BY <1>1, <1>4, WebSocketSessionAssumption DEF SessionInv, StreamOK, ClientWrites
<1>15. DeliveredOK'
  BY DEF SessionInv, DeliveredOK, ClientWrites
<1> QED  BY <1>6, <1>9, <1>10, <1>12, <1>13, <1>14, <1>15 DEF SessionInv, MessagesAreWhole

\* The end of the connection takes nothing but bytes under way.
LEMMA EndKeeps ==
  ASSUME SessionInv, NEW how \in {"end", "error"}, StreamEnds(how)
  PROVE  SessionInv'
<1> USE DEF clientVars, messageVars, SessionInv, StreamEnds
<1>1. TypeOK' /\ StreamOK'
  BY DEF TypeOK, StreamOK
<1>2. BytesAreKept'
  BY DEF MessagesAreWhole, BytesAreKept, BytesOf
<1>3. FramesInOrder' /\ EndsInPlace' /\ FragmentsOK' /\ DeliveredOK'
  BY DEF MessagesAreWhole, FramesInOrder, EndsInPlace, FramesOf, FragmentsOK, DeliveredOK
<1> QED  BY <1>1, <1>2, <1>3 DEF MessagesAreWhole

-----------------------------------------------------------------------------
(* The server.                                                             *)

\* Nothing of what was used changes.
LEMMA QuietKeeps ==
  ASSUME SessionInv, UNCHANGED <<clientVars, stream, messageVars>>, TypeOK', StreamOK',
         BytesAreKept',
         reader' = "idle" => fragments = <<>>,
         reader' = "recv" => (opcode = "continuation" <=> fragments = <<>>)
  PROVE  SessionInv'
<1> USE DEF clientVars, messageVars, SessionInv
<1>1. FramesInOrder' /\ EndsInPlace' /\ DeliveredOK'
  BY DEF MessagesAreWhole, FramesInOrder, EndsInPlace, FramesOf, DeliveredOK
<1>2. FragmentsOK'
  BY DEF FragmentsOK
<1> QED  BY <1>1, <1>2 DEF MessagesAreWhole

LEMMA FailKeeps ==
  ASSUME SessionInv, Fail, UNCHANGED <<clientVars, stream>>,
         garbled' \in BOOLEAN, wire' \in Nat, wire' <= wire
  PROVE  SessionInv'
<1> USE DEF clientVars, messageVars, Fail
<1>1. TypeOK' /\ StreamOK'
  BY DEF SessionInv, TypeOK, StreamOK
<1>2. BytesAreKept'
  BY DEF SessionInv, MessagesAreWhole, BytesAreKept, BytesOf
<1> QED  BY <1>1, <1>2, QuietKeeps

LEMMA HandshakeKeeps ==
  ASSUME SessionInv, NEW n \in 1..BufferSize, Handshake(n)
  PROVE  SessionInv'
<1> USE DEF clientVars, messageVars, Receive
<1>1. n \in Nat /\ wire' \in Nat /\ wire' <= wire /\ garbled' \in BOOLEAN
  BY WebSocketSessionAssumption DEF SessionInv, TypeOK, Handshake
<1>2. UNCHANGED <<clientVars, stream>> /\ data \in Nat
  BY DEF Handshake, SessionInv, TypeOK
<1>3. CASE Fail
  BY <1>1, <1>2, <1>3, FailKeeps
<1>4. CASE data' = data + n /\ UNCHANGED <<reader, messageVars>>
  <2>1. TypeOK' /\ StreamOK' /\ BytesAreKept'
    BY <1>1, <1>2, <1>4
       DEF Handshake, SessionInv, TypeOK, StreamOK, MessagesAreWhole, BytesAreKept, BytesOf
  <2> QED  BY <1>2, <1>4, <2>1, QuietKeeps DEF Handshake
<1>5. CASE wire' = 0 /\ reader' = "idle" /\ data' = 0 /\ UNCHANGED messageVars
  <2>1. written = <<>> /\ fragments = <<>> /\ taken = 0
    BY DEF Handshake, SessionInv, StreamOK, TypeOK
  <2>2. TypeOK' /\ StreamOK'
    BY <1>1, <1>2, <1>5, <2>1 DEF Handshake, SessionInv, TypeOK, StreamOK
  <2>3. BytesAreKept'
    BY <1>1, <1>2, <1>5, <2>1 DEF SessionInv, MessagesAreWhole, BytesAreKept, BytesOf
  <2> QED  BY <1>2, <1>5, <2>1, <2>2, <2>3, QuietKeeps
<1> QED  BY <1>3, <1>4, <1>5 DEF Handshake

LEMMA CallKeeps ==
  ASSUME SessionInv, ReceiveCall
  PROVE  SessionInv'
<1> USE DEF clientVars, messageVars, ReceiveCall
<1>1. fragments = <<>> /\ fragments' = <<>>
  BY DEF SessionInv, FragmentsOK
<1>2. TypeOK' /\ StreamOK' /\ BytesAreKept'
  BY <1>1 DEF SessionInv, TypeOK, StreamOK, MessagesAreWhole, BytesAreKept, BytesOf
<1>3. FramesInOrder' /\ EndsInPlace' /\ DeliveredOK'
  BY <1>1
     DEF SessionInv, MessagesAreWhole, FramesInOrder, EndsInPlace, FramesOf, DeliveredOK
<1>4. FragmentsOK'
  BY <1>1 DEF FragmentsOK
<1> QED  BY <1>2, <1>3, <1>4 DEF SessionInv, MessagesAreWhole

\* Bytes to receive belong to a frame that was written and not yet used.
LEMMA FrameIsWritten ==
  ASSUME SessionInv, reader = "recv", NEW n \in 1..BufferSize, n <= wire
  PROVE  /\ stream # "error"
         /\ taken + 1 \in DOMAIN written
         /\ BytesOf(taken + 1) = BytesOf(taken) + FrameSize(written[taken + 1])
<1>1. n >= 1 /\ wire \in Nat /\ n \in Nat /\ data \in Nat /\ taken \in 0 .. Len(written)
      /\ written \in Seq(Frame) /\ ends \in Seq(Nat) /\ Len(ends) = Len(written)
  BY WebSocketSessionAssumption DEF SessionInv, TypeOK
<1>2. stream # "error"
  BY <1>1 DEF SessionInv, StreamOK
<1>3. BytesOf(Len(written)) = BytesOf(taken) + data + wire
  BY <1>2 DEF SessionInv, MessagesAreWhole, BytesAreKept
<1>4. BytesOf(taken) \in Nat
  BY <1>1 DEF BytesOf
<1>5. taken # Len(written)
  BY <1>1, <1>3, <1>4
<1>6. taken + 1 \in DOMAIN written /\ taken + 1 # 0 /\ taken + 1 - 1 = taken
  BY <1>1, <1>5
<1>7. ends[taken + 1] = BytesOf(taken) + FrameSize(written[taken + 1])
  <2> DEFINE next == taken + 1
  <2>1. ends[next] = BytesOf(next - 1) + FrameSize(written[next])
    BY <1>6 DEF SessionInv, MessagesAreWhole, BytesAreKept
  <2>2. next - 1 = taken
    BY <1>1
  <2> QED  BY <2>1, <2>2
<1> QED  BY <1>2, <1>6, <1>7 DEF BytesOf

\* A frame that is used comes after those used before, and where the client put
\* it in its message.
LEMMA UseKeeps ==
  ASSUME SessionInv, reader = "recv", NEW n \in 1..BufferSize, Receive(n), UNCHANGED garbled,
         LET frame == written[taken + 1] IN
            /\ Complete(frame, data + n)
            /\ ~Unexpected(frame)
            /\ MessageOpcode(frame) = "text"
            /\ data' = Rest(frame, data + n)
            /\ Use(frame)
  PROVE  SessionInv'
<1> DEFINE frame == written[taken + 1]
           parts == Append(fragments, taken + 1)
           count == Len(delivered)
<1> USE DEF clientVars, messageVars, Receive
<1>1. /\ n \in Nat /\ n <= wire /\ wire \in Nat /\ data \in Nat
      /\ taken \in Nat /\ written \in Seq(Frame) /\ garbled \in BOOLEAN
      /\ fragments \in Seq(1..MaxFrames) /\ delivered \in Seq(Seq(1..MaxFrames))
      /\ opcode \in {"continuation", "text"}
  BY WebSocketSessionAssumption DEF SessionInv, TypeOK
<1>2. /\ taken + 1 \in DOMAIN written /\ stream # "error"
      /\ BytesOf(taken + 1) = BytesOf(taken) + FrameSize(frame)
  BY FrameIsWritten
<1>3. frame \in Frame /\ taken + 1 \in 1..MaxFrames /\ taken + 1 \in 1 .. Len(written)
  BY <1>1, <1>2, WebSocketSessionAssumption DEF SessionInv, StreamOK
<1>4. FrameSize(frame) \in Nat
  BY <1>3, FrameSizes
<1>5. /\ parts \in Seq(1..MaxFrames) /\ Len(parts) = Len(fragments) + 1
      /\ \A k \in 1 .. Len(fragments) : parts[k] = fragments[k]
      /\ parts[Len(fragments) + 1] = taken + 1 /\ parts # <<>>
      /\ DOMAIN parts = 1 .. Len(fragments) + 1
      /\ DOMAIN fragments = 1 .. Len(fragments) /\ Len(fragments) \in Nat
  <2> DEFINE S == 1..MaxFrames
  <2>1. fragments \in Seq(S) /\ taken + 1 \in S
    BY <1>1, <1>3
  <2> HIDE DEF S
  <2>2. parts \in Seq(S) /\ Len(parts) = Len(fragments) + 1
    BY <2>1, AppendOne
  <2>3. /\ \A k \in 1 .. Len(fragments) : parts[k] = fragments[k]
        /\ parts[Len(fragments) + 1] = taken + 1 /\ parts # <<>>
        /\ DOMAIN parts = 1 .. Len(fragments) + 1
        /\ DOMAIN fragments = 1 .. Len(fragments) /\ Len(fragments) \in Nat
    BY <2>1, AppendOne
  <2> QED  BY <2>2, <2>3 DEF S
<1>6. /\ Append(delivered, parts) \in Seq(Seq(1..MaxFrames))
      /\ Len(Append(delivered, parts)) = count + 1
      /\ \A m \in 1..count : Append(delivered, parts)[m] = delivered[m]
      /\ Append(delivered, parts)[count + 1] = parts
      /\ DOMAIN Append(delivered, parts) = 1 .. count + 1
      /\ DOMAIN delivered = 1..count /\ count \in Nat
  BY <1>1, <1>5, AppendOne
<1>7. /\ taken' = taken + 1 /\ opcode' = "text"
      /\ fragments' = IF frame.fin THEN <<>> ELSE parts
      /\ delivered' = IF frame.fin THEN Append(delivered, parts) ELSE delivered
      /\ reader' = IF frame.fin THEN "idle" ELSE "recv"
      /\ data' = data + n - FrameSize(frame) /\ data + n >= FrameSize(frame)
      /\ wire' = wire - n /\ UNCHANGED <<clientVars, stream, garbled>>
  <2>1. /\ taken' = taken + 1 /\ opcode' = MessageOpcode(frame)
        /\ fragments' = IF frame.fin THEN <<>> ELSE parts
        /\ delivered' = IF frame.fin THEN Append(delivered, parts) ELSE delivered
        /\ reader' = IF frame.fin THEN "idle" ELSE "recv"
    BY DEF Use
  <2>2. data' = data + n - FrameSize(frame) /\ data + n >= FrameSize(frame)
    BY <1>1, <1>4 DEF Rest, Complete
  <2>3. wire' = wire - n /\ UNCHANGED <<clientVars, stream, garbled>>
    OBVIOUS
  <2> QED  BY <2>1, <2>2, <2>3
<1>8. TypeOK'
  <2>1. fragments' \in Seq(1..MaxFrames) /\ delivered' \in Seq(Seq(1..MaxFrames))
    <3>1. CASE frame.fin
      BY <1>6, <1>7, <3>1
    <3>2. CASE ~frame.fin
      BY <1>1, <1>5, <1>7, <3>2
    <3> QED  BY <3>1, <3>2
  <2>2. wire' \in Nat /\ data' \in Nat /\ taken' \in 0 .. Len(written)
    BY <1>1, <1>3, <1>4, <1>7
  <2> QED  BY <1>7, <2>1, <2>2 DEF SessionInv, TypeOK
<1>9. StreamOK'
  BY <1>2, <1>7 DEF SessionInv, StreamOK
<1>10. BytesAreKept'
  <2>1. BytesOf(Len(written)) = BytesOf(taken) + data + wire
    BY <1>2 DEF SessionInv, MessagesAreWhole, BytesAreKept
  <2>2. BytesOf(taken) \in Nat
    BY <1>1 DEF BytesOf, SessionInv, TypeOK
  <2>6. data' = data + n - FrameSize(frame) /\ wire' = wire - n
    BY <1>7
  <2>3. BytesOf(Len(written)) = BytesOf(taken + 1) + data' + wire'
    <3> DEFINE size == FrameSize(frame)
    <3>1. size \in Nat /\ BytesOf(taken + 1) = BytesOf(taken) + size
      BY <1>2, <1>4
    <3>2. data' = data + n - size /\ wire' = wire - n
      BY <2>6
    <3>3. \A b, all \in Nat : all = b + data + wire => all = b + size + data' + wire'
      <4>1. data \in Nat /\ wire \in Nat /\ n \in Nat /\ size \in Nat
        BY <1>1, <3>1
      <4> HIDE DEF size
      <4> QED  BY <3>2, <4>1
    <3>4. BytesOf(Len(written)) \in Nat
      BY <1>1, <2>1, <2>2
    <3> QED  BY <2>1, <2>2, <3>1, <3>3, <3>4
  <2>4. BytesOf(Len(written))' = BytesOf(Len(written)) /\ BytesOf(taken)' = BytesOf(taken + 1)
    BY <1>7 DEF BytesOf
  <2>5. \A k \in Nat : BytesOf(k)' = BytesOf(k)
    BY <1>7 DEF BytesOf
  <2>7. \A k \in DOMAIN written : k - 1 \in Nat
    BY <1>1
  <2> QED  BY <1>7, <2>3, <2>4, <2>5, <2>7 DEF SessionInv, MessagesAreWhole, BytesAreKept
\* The frame's place in its message.
<1>11. /\ \A k \in 1 .. Len(fragments) : InMessage(k, written[parts[k]])
       /\ frame.op = (IF Len(fragments) = 0 THEN "text" ELSE "continuation")
  <2>1. \A k \in 1 .. Len(fragments) : InMessage(k, written[parts[k]])
    BY <1>5 DEF SessionInv, FragmentsOK
  <2>2. opcode = "continuation" <=> Len(fragments) = 0
    BY <1>1 DEF SessionInv, FragmentsOK
  <2>3. (frame.op = "continuation") <=> opcode # "continuation"
    BY <1>1 DEF Unexpected
  <2>4. opcode = "continuation" => frame.op = "text"
    BY DEF MessageOpcode
  <2> QED  BY <2>1, <2>2, <2>3, <2>4
<1>12. FragmentsOK'
  <2>1. CASE frame.fin
    BY <1>7, <2>1 DEF FragmentsOK
  <2>2. CASE ~frame.fin
    <3>1. \A k \in DOMAIN parts : InMessage(k, written[parts[k]])
      BY <1>5, <1>11, <2>2 DEF InMessage
    <3>2. fragments' = parts /\ reader' = "recv" /\ opcode' = "text" /\ written' = written
      BY <1>7, <2>2
    <3> QED  BY <1>5, <3>1, <3>2 DEF FragmentsOK, InMessage
  <2> QED  BY <2>1, <2>2
<1>13. \A k \in DOMAIN parts : parts[k] = FramesOf(count) + k /\ parts[k] \in 1 .. taken + 1
  <2>1. taken = FramesOf(count) + Len(fragments)
    BY DEF SessionInv, MessagesAreWhole, FramesInOrder
  <2>2. \A k \in DOMAIN fragments : fragments[k] = FramesOf(count) + k /\ fragments[k] \in 1..taken
    BY FragmentsUsed DEF SessionInv, MessagesAreWhole, FramesInOrder
  <2>3. FramesOf(count) \in Nat
    BY FramesAreCounted DEF SessionInv, MessagesAreWhole
  <2> QED  BY <1>1, <1>5, <2>1, <2>2, <2>3
<1>14. CASE frame.fin
  <2>1. /\ delivered' = Append(delivered, parts) /\ fragments' = <<>>
        /\ written' = written /\ taken' = taken + 1
    BY <1>7, <1>14
  <2>2. \A m \in 1 .. count + 1 : IF m = count + 1 THEN delivered'[m] = parts
                                                   ELSE delivered'[m] = delivered[m]
    BY <1>6, <2>1
  <2>3. \A m \in 0..count : FramesOf(m)' = FramesOf(m)
    <3> SUFFICES ASSUME NEW m \in 0..count  PROVE FramesOf(m)' = FramesOf(m)
      OBVIOUS
    <3>1. m = 0 \/ (m \in 1..count /\ m \in 1 .. count + 1 /\ m # count + 1)
      BY <1>6
    <3>2. m = 0 \/ delivered'[m] = delivered[m]
      BY <2>2, <3>1
    <3> QED  BY <3>2 DEF FramesOf, Last
  <2>4. FramesOf(Len(delivered))' = taken + 1
    <3>1. Len(delivered') = count + 1 /\ delivered'[count + 1] = parts
      BY <1>6, <2>1
    <3>2. Last(parts) = taken + 1
      BY <1>5 DEF Last
    <3> QED  BY <1>6, <3>1, <3>2 DEF FramesOf
  <2>5. FramesInOrder'
    <3>1. DOMAIN delivered' = 1 .. count + 1 /\ DOMAIN fragments' = {} /\ Len(fragments') = 0
      BY <1>6, <2>1
    <3>2. ASSUME NEW m \in DOMAIN delivered'
          PROVE  /\ delivered'[m] # <<>>
                 /\ \A k \in DOMAIN delivered'[m] : delivered'[m][k] = FramesOf(m - 1)' + k
      <4>1. m - 1 \in 0..count /\ FramesOf(m - 1)' = FramesOf(m - 1)
        BY <1>6, <2>3, <3>1
      <4>2. CASE m = count + 1
        <5>1. m - 1 = count /\ delivered'[m] = parts
          BY <1>6, <2>2, <3>1, <4>2
        <5> QED  BY <1>5, <1>13, <4>1, <5>1
      <4>3. CASE m # count + 1
        <5>1. m \in DOMAIN delivered /\ delivered'[m] = delivered[m]
          BY <1>6, <2>2, <3>1, <4>3
        <5> QED  BY <4>1, <5>1 DEF SessionInv, MessagesAreWhole, FramesInOrder
      <4> QED  BY <4>2, <4>3
    <3>3. taken' = FramesOf(Len(delivered))' + Len(fragments')
      BY <1>1, <2>1, <2>4, <3>1
    <3> QED  BY <3>1, <3>2, <3>3 DEF FramesInOrder
  <2>6. EndsInPlace'
    <3>1. DOMAIN delivered' = 1 .. count + 1
      BY <1>6, <2>1
    <3> SUFFICES ASSUME NEW m \in DOMAIN delivered', NEW k \in DOMAIN delivered'[m]
                 PROVE  /\ written[delivered'[m][k]].op
                              = (IF k = 1 THEN "text" ELSE "continuation")
                        /\ written[delivered'[m][k]].fin <=> k = Len(delivered'[m])
      BY <2>1 DEF EndsInPlace
    <3>2. CASE m = count + 1
      <4>1. delivered'[m] = parts
        BY <2>2, <3>1, <3>2
      <4>2. CASE k = Len(fragments) + 1
        <5>1. written[delivered'[m][k]] = frame /\ k = Len(delivered'[m])
          BY <1>5, <4>1, <4>2
        <5>2. k = 1 <=> Len(fragments) = 0
          BY <1>5, <4>2
        <5> QED  BY <1>11, <1>14, <5>1, <5>2
      <4>3. CASE k # Len(fragments) + 1
        <5>1. k \in 1 .. Len(fragments) /\ delivered'[m][k] = parts[k] /\ k # Len(delivered'[m])
          BY <1>5, <4>1, <4>3
        <5> QED  BY <1>11, <5>1 DEF InMessage
      <4> QED  BY <4>2, <4>3
    <3>3. CASE m # count + 1
      <4>1. m \in DOMAIN delivered /\ delivered'[m] = delivered[m]
        BY <1>6, <2>2, <3>1, <3>3
      <4> QED  BY <4>1 DEF SessionInv, MessagesAreWhole, EndsInPlace
    <3> QED  BY <3>2, <3>3
  <2>7. DeliveredOK'
    <3>1. DOMAIN delivered' = 1 .. count + 1
      BY <1>6, <2>1
    <3>2. ASSUME NEW m \in DOMAIN delivered', NEW k \in DOMAIN delivered'[m]
          PROVE  delivered'[m][k] \in 1 .. taken + 1
      <4>1. CASE m = count + 1
        BY <1>13, <2>2, <3>1, <4>1
      <4>2. CASE m # count + 1
        <5>1. m \in DOMAIN delivered /\ delivered'[m] = delivered[m]
          BY <1>6, <2>2, <3>1, <4>2
        <5>2. delivered'[m][k] \in 1..taken
          BY <5>1 DEF SessionInv, DeliveredOK
        <5> QED  BY <1>1, <5>2
      <4> QED  BY <4>1, <4>2
    <3> QED  BY <2>1, <3>2 DEF DeliveredOK
  <2> QED  BY <1>8, <1>9, <1>10, <1>12, <2>5, <2>6, <2>7 DEF SessionInv, MessagesAreWhole
<1>15. CASE ~frame.fin
  <2>1. delivered' = delivered /\ fragments' = parts /\ written' = written /\ taken' = taken + 1
    BY <1>7, <1>15
  <2>2. FramesInOrder'
    <3>1. \A m \in Nat : FramesOf(m)' = FramesOf(m)
      BY <2>1 DEF FramesOf
    <3>2. \A m \in DOMAIN delivered : m - 1 \in Nat
      BY <1>6
    <3>3. FramesOf(Len(delivered))' = FramesOf(count)
      BY <2>1 DEF FramesOf
    <3>4. taken + 1 = FramesOf(count) + Len(parts)
      BY <1>5, <1>13
    <3> QED  BY <1>13, <2>1, <3>1, <3>2, <3>3, <3>4
             DEF SessionInv, MessagesAreWhole, FramesInOrder
  <2>3. EndsInPlace'
    BY <2>1 DEF SessionInv, MessagesAreWhole, EndsInPlace
  <2>4. DeliveredOK'
    BY <1>1, <2>1 DEF SessionInv, DeliveredOK
  <2> QED  BY <1>8, <1>9, <1>10, <1>12, <2>2, <2>3, <2>4 DEF SessionInv, MessagesAreWhole
<1> QED  BY <1>14, <1>15

LEMMA RecvKeeps ==
  ASSUME SessionInv, NEW n \in 1..BufferSize, Recv(n)
  PROVE  SessionInv'
<1> DEFINE frame == written[taken + 1]
<1> USE DEF clientVars, messageVars
<1>1. /\ n \in Nat /\ data \in Nat /\ wire \in Nat /\ garbled \in BOOLEAN
      /\ reader = "recv" /\ n <= wire /\ wire' = wire - n
      /\ UNCHANGED <<clientVars, stream, garbled>>
  BY WebSocketSessionAssumption DEF SessionInv, TypeOK, Recv, Receive
<1>2. wire' \in Nat /\ wire' <= wire
  BY <1>1
<1>3. CASE Fail
  BY <1>1, <1>2, <1>3, FailKeeps
<1>4. CASE data' = data + n /\ UNCHANGED <<reader, messageVars>>
  <2>1. data + n + (wire - n) = data + wire /\ data' \in Nat
    BY <1>1, <1>4
  <2>2. BytesOf(taken) \in Nat
    BY DEF SessionInv, TypeOK, BytesOf
  <2>3. BytesAreKept'
    <3>1. BytesOf(taken) + data + wire = BytesOf(taken) + data' + wire'
      BY <1>1, <1>4, <2>2
    <3> QED  BY <1>1, <1>4, <3>1 DEF SessionInv, MessagesAreWhole, BytesAreKept, BytesOf
  <2>4. TypeOK' /\ StreamOK'
    BY <1>1, <1>2, <1>4, <2>1 DEF SessionInv, TypeOK, StreamOK
  <2> QED  BY <1>1, <1>4, <2>3, <2>4, QuietKeeps DEF SessionInv, FragmentsOK
<1>5. CASE reader' = "closed" /\ UNCHANGED <<data, messageVars>>
  <2>1. TypeOK' /\ StreamOK'
    BY <1>1, <1>2, <1>5 DEF SessionInv, TypeOK, StreamOK
  <2>2. BytesAreKept'
    BY <1>1, <1>5 DEF SessionInv, MessagesAreWhole, BytesAreKept, BytesOf
  <2> QED  BY <1>1, <1>5, <2>1, <2>2, QuietKeeps
<1>6. CASE /\ Complete(frame, data + n) /\ ~Unexpected(frame)
           /\ MessageOpcode(frame) = "text" /\ data' = Rest(frame, data + n) /\ Use(frame)
  BY <1>1, <1>6, UseKeeps DEF Receive
<1> QED  BY <1>3, <1>4, <1>5, <1>6 DEF Recv, HandleFrame

-----------------------------------------------------------------------------
(* The theorems.                                                           *)

LEMMA SessionInit == Init => SessionInv
<1> SUFFICES ASSUME Init  PROVE SessionInv
  OBVIOUS
<1> USE WebSocketSessionAssumption DEF Init
<1>1. TypeOK
  <2>1. wire \in Nat /\ data \in Nat /\ taken \in 0 .. Len(written) /\ Len(ends) = Len(written)
    BY DEF TypeOK
  <2>2. /\ request \in {"websocket", "other"} /\ stream = "open" /\ reader = "handshake"
        /\ garbled = FALSE /\ opcode = "continuation"
    OBVIOUS
  <2>3. /\ written \in Seq(Frame) /\ ends \in Seq(Nat) /\ fragments \in Seq(1..MaxFrames)
        /\ delivered \in Seq(Seq(1..MaxFrames))
    OBVIOUS
  <2> QED  BY <2>1, <2>2, <2>3 DEF TypeOK
<1>3. StreamOK /\ FragmentsOK /\ DeliveredOK
  BY DEF StreamOK, FragmentsOK, DeliveredOK
<1>2. BytesAreKept /\ FramesInOrder /\ EndsInPlace
  BY DEF BytesAreKept, FramesInOrder, EndsInPlace, FramesOf
<1> QED  BY <1>1, <1>2, <1>3 DEF SessionInv, MessagesAreWhole

LEMMA SessionStep == SessionInv /\ [Next]_vars => SessionInv'
<1> SUFFICES ASSUME SessionInv, [Next]_vars  PROVE SessionInv'
  OBVIOUS
<1>1. ASSUME NEW frame \in Frame, ClientWrites(frame)
      PROVE  SessionInv'
  BY <1>1, WritesKeeps
<1>2. ASSUME NEW how \in {"end", "error"}, StreamEnds(how)
      PROVE  SessionInv'
  BY <1>2, EndKeeps
<1>3. CASE RecvFails
  BY <1>3, FailKeeps DEF RecvFails, SessionInv, TypeOK
<1>4. ASSUME NEW n \in 1..BufferSize, Handshake(n)
      PROVE  SessionInv'
  BY <1>4, HandshakeKeeps
<1>5. CASE ReceiveCall
  BY <1>5, CallKeeps
<1>6. ASSUME NEW n \in 1..BufferSize, Recv(n)
      PROVE  SessionInv'
  BY <1>6, RecvKeeps
<1>7. CASE UNCHANGED vars
  <2> USE <1>7 DEF vars, clientVars, messageVars, SessionInv
  <2>1. TypeOK' /\ StreamOK' /\ BytesAreKept'
    BY DEF TypeOK, StreamOK, MessagesAreWhole, BytesAreKept, BytesOf
  <2> QED  BY <2>1, QuietKeeps DEF FragmentsOK
<1> QED  BY <1>1, <1>2, <1>3, <1>4, <1>5, <1>6, <1>7 DEF Next, Server

LEMMA SessionInvariant == Spec => []SessionInv
  BY SessionInit, SessionStep, PTL DEF Spec

\* The variables of the session keep their types; in particular no frame is used
\* that was not written.
THEOREM SessionTypeCorrect == Spec => []TypeOK
<1>1. SessionInv => TypeOK
  BY DEF SessionInv
<1> QED  BY <1>1, SessionInvariant, PTL

\* However the bytes of any frames are cut into pieces, receive() returns the
\* messages written, in order and whole, and loses no byte between them.
THEOREM MessagesWhole == Spec => []MessagesAreWhole
<1>1. SessionInv => MessagesAreWhole
  BY DEF SessionInv
<1> QED  BY <1>1, SessionInvariant, PTL
=============================================================================
