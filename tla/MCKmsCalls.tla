----------------------------- MODULE MCKmsCalls -----------------------------
(* Small instances of the calls to the KMS. *)
EXTENDS KmsCalls, TLC

CONSTANTS r1, r2, r3

ThreeCallers == {r1, r2, r3}
TwoCallers == {r1, r2}
Symmetry == Permutations(Callers)
=============================================================================
