------------------------------- MODULE Breaker -------------------------------
(* The circuit breaker shared by the API's client of the KMS and by the KMS's *)
(* client of Vault (platform/breaker).  openUntil is the time left until it:  *)
(* it is read only in comparisons with now.  failures stops at Limit, beyond  *)
(* which the code compares it no further.                                     *)
EXTENDS Naturals

CONSTANTS
  Limit,   \* failures in a row that open it
  Wait     \* time it stays open

ASSUME BreakerAssumption == Limit \in Nat \ {0} /\ Wait \in Nat \ {0}

Breakers == [failures : 0..Limit, left : 0..Wait, probe : BOOLEAN]

\* New.
Closed == [failures |-> 0, left |-> 0, probe |-> FALSE]

Tripped(b) == b.failures >= Limit

\* Open: it refuses calls.
IsOpen(b) == Tripped(b) /\ b.left > 0

\* Allow, its answer: closed, or half open with no probe out.
Allows(b) == Tripped(b) => b.left = 0 /\ ~b.probe

\* Allow, what a granted call leaves.
Admit(b) == [b EXCEPT !.probe = @ \/ Tripped(b)]

\* Success: a closed breaker; openUntil keeps its old value.
Success(b) == [b EXCEPT !.failures = 0, !.probe = FALSE]

\* Mutant: a failure leaves the probe as it was.
FailureKeepsProbe(b) ==
  LET n == IF b.failures < Limit THEN b.failures + 1 ELSE Limit
  IN [b EXCEPT !.failures = n, !.left = IF n = Limit THEN Wait ELSE @]

\* Mutant: only the failure that opens it starts the wait.
FailureOpensOnce(b) ==
  LET n == IF b.failures < Limit THEN b.failures + 1 ELSE Limit
  IN [failures |-> n, left |-> IF n = Limit /\ b.failures < Limit THEN Wait ELSE b.left, probe |-> FALSE]

\* Failure: one more in the row; at the limit the wait starts again.
Failure(b) ==
  LET n == IF b.failures < Limit THEN b.failures + 1 ELSE Limit
  IN [failures |-> n, left |-> IF n = Limit THEN Wait ELSE b.left, probe |-> FALSE]

\* Time passes.
Elapse(b) == [b EXCEPT !.left = IF @ = 0 THEN 0 ELSE @ - 1]
=============================================================================
