--------------------------- MODULE MCGoDispatcher ---------------------------
(* Instances of GoDispatcher for TLC. *)
EXTENDS GoDispatcher

\* The first calculation has two blocks, the second one.
TwoThenOne == <<2, 1>>
JustTwo == <<2>>

\* As many workers as blocks of the first calculation, and fewer or not.
OneAndTwo == {1, 2}
Two == {2}
=============================================================================
