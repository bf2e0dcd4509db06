-------------------------- MODULE WebSocketSession --------------------------
(***************************************************************************)
(* How the C++ server reads a WebSocket connection                         *)
(* (src/cpp-server/src/web_socket_session.cpp): the handshake in the       *)
(* constructor and receive(), which cuts what arrives, in pieces of any    *)
(* size, into frames and joins frames to messages.                         *)
(*                                                                         *)
(* Bytes are counted, not spelled out: a frame is its opcode, the two      *)
(* flags and the size of its payload, and the data on the connection are   *)
(* the frames in the order the client wrote them.                          *)
(***************************************************************************)
EXTENDS Naturals, Sequences, SequencesExt

CONSTANTS
    RequestSize,    \* bytes of the handshake request
    Payloads,       \* sizes of payloads
    LengthSize,     \* LengthSize[p]: bytes of the extended length of size p
    BufferSize,     \* most bytes that one recv returns
    MaxFrames       \* bound on the number of frames

ASSUME WebSocketSessionAssumption ==
    /\ RequestSize \in Nat /\ RequestSize > 4
    /\ Payloads \subseteq Nat
    /\ LengthSize \in [Payloads -> Nat]
    /\ BufferSize \in Nat \ {0}
    /\ MaxFrames \in Nat

VARIABLES
    request,        \* does the client ask for a WebSocket?
    written,        \* the frames the client wrote
    ends,           \* ends[n]: number of bytes up to the end of the n-th frame
    wire,           \* number of bytes written and not yet received
    stream,         \* "open", or "end" or "error" after the last byte
    reader,         \* where the main thread is
    garbled,        \* has a short first piece made the request unreadable?
    data,           \* number of bytes received and not yet used
    taken,          \* number of frames used
    opcode,         \* message_opcode
    fragments,      \* the frames of the message being received
    delivered       \* all messages returned, as the frames they are made of

clientVars == <<request, written, ends>>
messageVars == <<taken, opcode, fragments, delivered>>
vars == <<clientVars, wire, stream, reader, garbled, data, messageVars>>

Frame == [op : {"continuation", "text", "ping", "close"}, fin : BOOLEAN,
          masked : BOOLEAN, size : Payloads]

HeadSize == 2
MaskSize == 4

\* What must be there before the mask flag is looked at, and all of a frame.
UnmaskedSize(frame) == HeadSize + LengthSize[frame.size]
FrameSize(frame) ==
    UnmaskedSize(frame) + (IF frame.masked THEN MaskSize ELSE 0) + frame.size

\* Number of bytes in the first n frames.
BytesOf(n) == IF n = 0 THEN 0 ELSE ends[n]

-----------------------------------------------------------------------------
(* The client.                                                             *)

Init ==
    /\ request \in {"websocket", "other"}
    /\ written = <<>> /\ ends = <<>> /\ wire = RequestSize /\ stream = "open"
    /\ reader = "handshake" /\ garbled = FALSE /\ data = 0
    /\ taken = 0 /\ opcode = "continuation" /\ fragments = <<>>
    /\ delivered = <<>>

\* Is the client in the middle of a message?
Unfinished ==
    LET parts == SelectSeq(written, LAMBDA f : f.op \in {"text", "continuation"}) IN
    parts # <<>> /\ ~Last(parts).fin

\* Control frames may come between the frames of a message.
ClientWrites(frame) ==
    /\ reader \in {"idle", "recv"} /\ stream = "open"
    /\ Len(written) < MaxFrames
    /\ frame.op = "text" => ~Unfinished
    /\ frame.op = "continuation" => Unfinished
    /\ frame.op \in {"ping", "close"} => frame.fin
    /\ written' = Append(written, frame)
    /\ ends' = Append(ends, BytesOf(Len(written)) + FrameSize(frame))
    /\ wire' = wire + FrameSize(frame)
    /\ UNCHANGED <<request, stream, reader, garbled, data, messageVars>>

\* The connection ends in order, or it is lost with what is under way.
StreamEnds(how) ==
    /\ stream = "open"
    /\ stream' = how
    /\ wire' \in IF how = "error" THEN {0} ELSE {wire}
    /\ UNCHANGED <<clientVars, reader, garbled, data, messageVars>>

-----------------------------------------------------------------------------
(* The server.                                                             *)

\* ::close(_socket), and OsError to the main loop.
Fail == reader' = "failed" /\ UNCHANGED <<data, messageVars>>

\* recv gives some of what is there.  At the end of the stream it gives 0
\* bytes, which changes nothing: both loops call it again, and again.
Receive(n) ==
    /\ n <= wire
    /\ wire' = wire - n
    /\ UNCHANGED <<clientVars, stream>>

\* recv returns -1: the connection is lost, or silent for too long.
RecvFails ==
    /\ reader \in {"handshake", "recv"}
    /\ wire = 0 /\ stream # "end"
    /\ Fail
    /\ UNCHANGED <<clientVars, wire, stream, garbled>>

\* The constructor.  A first piece of less than four bytes puts the string
\* stream in a failed state, after which nothing is written to it; then only
\* the last four bytes in a piece of their own end the loop, with OsError.
Handshake(n) ==
    /\ reader = "handshake"
    /\ Receive(n)
    /\ garbled' = (garbled \/ data + n < 4)
    /\ \/ /\ IF garbled' THEN n # 4 \/ wire' > 0 ELSE wire' > 0
          /\ data' = data + n
          /\ UNCHANGED <<reader, messageVars>>
       \/ /\ wire' = 0
          /\ IF garbled' THEN n = 4 ELSE request = "other"
          /\ Fail
       \/ /\ wire' = 0 /\ ~garbled' /\ request = "websocket"
          /\ reader' = "idle" /\ data' = 0
          /\ UNCHANGED messageVars

\* receive() is called.
ReceiveCall ==
    /\ reader = "idle"
    /\ reader' = "recv"
    /\ opcode' = "continuation" /\ fragments' = <<>>
    /\ UNCHANGED <<clientVars, wire, stream, garbled, data, taken, delivered>>

\* Mutant of Complete: one byte is missing.
AlmostComplete(frame, length) == length + 1 >= FrameSize(frame)

Complete(frame, length) == length >= FrameSize(frame)

\* Mutant of Unexpected: control frames are let through.
UnexpectedContinuation(frame) == frame.op = "continuation" /\ opcode = "continuation"

\* A continuation of nothing, or a frame between the frames of a message.
Unexpected(frame) == (frame.op = "continuation") <=> (opcode = "continuation")

MessageOpcode(frame) == IF opcode = "continuation" THEN frame.op ELSE opcode

Use(frame) ==
    LET parts == Append(fragments, taken + 1) IN
    /\ taken' = taken + 1
    /\ opcode' = MessageOpcode(frame)
    /\ fragments' = IF frame.fin THEN <<>> ELSE parts
    /\ delivered' = IF frame.fin THEN Append(delivered, parts) ELSE delivered
    /\ reader' = IF frame.fin THEN "idle" ELSE "recv"

\* Mutant of Rest: what comes after the frame is dropped.
NoRest(frame, length) == 0

\* _incoming_data
Rest(frame, length) == length - FrameSize(frame)

\* ping and close both close the session, and null is returned.
HandleFrame(frame, length) ==
    \/ /\ Unexpected(frame)
       /\ Fail
    \/ /\ ~Unexpected(frame)
       /\ MessageOpcode(frame) \in {"ping", "close"}
       /\ reader' = "closed"
       /\ UNCHANGED <<data, messageVars>>
    \/ /\ ~Unexpected(frame)
       /\ MessageOpcode(frame) = "text"
       /\ data' = Rest(frame, length)
       /\ Use(frame)

\* One turn of the loop in receive(): recv, then the header is parsed as far
\* as it is there.
Recv(n) ==
    /\ reader = "recv"
    /\ Receive(n)
    /\ LET length == data + n
           frame == written[taken + 1] IN
       \/ /\ length < UnmaskedSize(frame) \/ (frame.masked /\ ~Complete(frame, length))
          /\ data' = length
          /\ UNCHANGED <<reader, messageVars>>
       \/ /\ length >= UnmaskedSize(frame) /\ ~frame.masked
          /\ Fail
       \/ /\ frame.masked /\ Complete(frame, length)
          /\ HandleFrame(frame, length)
    /\ UNCHANGED garbled

Server ==
    \/ RecvFails
    \/ \E n \in 1..BufferSize : Handshake(n)
    \/ ReceiveCall
    \/ \E n \in 1..BufferSize : Recv(n)

Next ==
    \/ \E frame \in Frame : ClientWrites(frame)
    \/ \E how \in {"end", "error"} : StreamEnds(how)
    \/ Server

Spec == Init /\ [][Next]_vars

\* The main thread runs, and recv returns what is there.
FairSpec == Spec /\ WF_vars(Server)

-----------------------------------------------------------------------------
(* Properties.                                                             *)

TypeOK ==
    /\ request \in {"websocket", "other"}
    /\ written \in Seq(Frame)
    /\ ends \in Seq(Nat) /\ Len(ends) = Len(written)
    /\ wire \in Nat
    /\ stream \in {"open", "end", "error"}
    /\ reader \in {"handshake", "idle", "recv", "failed", "closed"}
    /\ garbled \in BOOLEAN
    /\ data \in Nat
    /\ taken \in 0..Len(written)
    /\ opcode \in {"continuation", "text"}
    /\ fragments \in Seq(1..MaxFrames)
    /\ delivered \in Seq(Seq(1..MaxFrames))

\* No byte is lost or used twice: what was written is used, kept or still on
\* the connection.
BytesAreKept ==
    /\ \A n \in DOMAIN written : ends[n] = BytesOf(n - 1) + FrameSize(written[n])
    /\ reader \in {"idle", "recv"} /\ stream # "error" =>
          BytesOf(Len(written)) = BytesOf(taken) + data + wire

\* The frames that the first n messages are made of.
FramesOf(n) == IF n = 0 THEN 0 ELSE Last(delivered[n])

\* The messages returned and the one under way are made of the frames used, each
\* once and in order, ...
FramesInOrder ==
    /\ \A m \in DOMAIN delivered :
          /\ delivered[m] # <<>>
          /\ \A k \in DOMAIN delivered[m] : delivered[m][k] = FramesOf(m - 1) + k
    /\ \A k \in DOMAIN fragments : fragments[k] = FramesOf(Len(delivered)) + k
    /\ taken = FramesOf(Len(delivered)) + Len(fragments)

\* ... and end where the client ended them.
EndsInPlace ==
    \A m \in DOMAIN delivered : \A k \in DOMAIN delivered[m] :
        LET frame == written[delivered[m][k]] IN
        /\ frame.op = (IF k = 1 THEN "text" ELSE "continuation")
        /\ frame.fin <=> k = Len(delivered[m])

\* However the stream was cut into pieces, what receive() returns are the messages
\* the client wrote, and no byte of a frame is lost between them.
MessagesAreWhole == BytesAreKept /\ FramesInOrder /\ EndsInPlace

\* "Block until one message is received, returns null if connection was
\* closed while waiting." (web_socket_session.hpp:11)
EndIsNoticed == (stream = "end" /\ reader = "recv") ~> (reader # "recv")
=============================================================================
