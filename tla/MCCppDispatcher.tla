-------------------------- MODULE MCCppDispatcher --------------------------
(* Instances of CppDispatcher for TLC. *)
EXTENDS CppDispatcher

\* The first calculation has two blocks, the second one.
TwoThenOne == <<2, 1>>
=============================================================================
