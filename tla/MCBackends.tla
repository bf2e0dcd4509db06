----------------------------- MODULE MCBackends -----------------------------
(* Instances of Backends for TLC. *)
EXTENDS Backends, TLC

CONSTANTS js, cpp, home, zoomed, b1, b2

OneRemote == {cpp}
NoRemote == {}
HomeAndZoomed == {home, zoomed}
OneBlock == {b1}
TwoBlocks == {b1, b2}

\* Different numbers of workers, one above the user's choice of 3.
WorkersOf == [b \in Backend |-> IF b = js THEN 2 ELSE 8]

BlockSymmetry == Permutations(Blocks)
=============================================================================
