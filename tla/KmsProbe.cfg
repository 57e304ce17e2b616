CONSTANTS
  r1 = r1
  r2 = r2
  r3 = r3
  Callers <- TwoCallers
  Limit = 2
  Wait = 3
  ApiSlots = 1
  VaultSlots = 1
  Timeout = 1
  Retries = 1
SPECIFICATION Spec
SYMMETRY Symmetry
INVARIANTS
  HalfOpenAdmits
