CONSTANTS
  schedule = schedule
  operator = operator
  Rotators <- TwoRotators
  Period = 2
  Validity = 1
  Leeway = 1
  Margin = 1
  Skew = 1
  KidInterval = 2
  CallTime = 1
  Oldest = 3
  MaxVersion = 3
SPECIFICATION Spec
SYMMETRY Symmetry
INVARIANTS
  NoTokenOutlivesKey
  RefusalIsShort
