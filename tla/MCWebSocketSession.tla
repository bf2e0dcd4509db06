------------------------- MODULE MCWebSocketSession -------------------------
(* Instances of WebSocketSession for TLC. *)
EXTENDS WebSocketSession

\* Sizes in place of those below 126 and of those up to 65535.
ShortAndLong == {0, 3}
LengthOf == [p \in ShortAndLong |-> IF p = 0 THEN 0 ELSE 2]
=============================================================================
