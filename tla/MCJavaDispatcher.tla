-------------------------- MODULE MCJavaDispatcher --------------------------
(* Instances of JavaDispatcher for TLC. *)
EXTENDS JavaDispatcher

\* As many workers as blocks.
Two == {2}
=============================================================================
