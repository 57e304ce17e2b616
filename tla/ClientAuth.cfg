CONSTANTS
  r1 = r1
  r2 = r2
  o1 = o1
  o2 = o2
  Requests <- TwoRequests
  Operators <- TwoOperators
  PairTolerance = 1
  IpTolerance = 1
  Initial = 1
  Factor = 2
  Cap = 3
  Forget = 1
  MaxCount = 4
  MaxLocalKeys = 1
  MaxSecret = 2
SPECIFICATION Spec
SYMMETRY Symmetry
INVARIANTS
  OldSecretDies
  SameFormula
PROPERTIES
  RevokedStaysRevoked
  BlockHolds
