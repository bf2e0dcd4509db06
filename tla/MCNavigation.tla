---------------------------- MODULE MCNavigation ----------------------------
(***************************************************************************)
(* Navigation alone, for the run that follows max_n through the history.   *)
(***************************************************************************)
EXTENDS Navigation

\* One rectangle to draw.
OneRectangle == {<<<<0, 0>>, <<2, 1>>>>}
=============================================================================
