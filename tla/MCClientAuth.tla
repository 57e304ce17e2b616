---------------------------- MODULE MCClientAuth ----------------------------
(* A small instance of the client credentials. *)
EXTENDS ClientAuth, TLC

CONSTANTS r1, r2, o1, o2

TwoRequests == {r1, r2}
TwoOperators == {o1, o2}
Symmetry == Permutations(TwoRequests) \cup Permutations(TwoOperators)
=============================================================================
