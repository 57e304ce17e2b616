CONSTANTS
  CsMax = 99
  Day = 99
  Ms = 4
  GroupWindow = 8
  MinHalfWidth = 2
  MaxDrift = 1
  w1 = w1
  w2 = w2
  Workers = {w1, w2}
  Scopes <- MCScopes
SPECIFICATION Spec
INVARIANTS LinesEncloseTruth AnchorsAreUsed LinesFollowNeighbors
PROPERTIES AnchorsPrevail
CHECK_DEADLOCK FALSE
