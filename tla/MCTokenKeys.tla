----------------------------- MODULE MCTokenKeys -----------------------------
(* A small instance of the rotation of the token keys. *)
EXTENDS TokenKeys, TLC

CONSTANTS schedule, operator

TwoRotators == {schedule, operator}
Symmetry == Permutations(Rotators)
=============================================================================
