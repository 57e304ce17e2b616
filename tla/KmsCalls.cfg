CONSTANTS
  r1 = r1
  r2 = r2
  r3 = r3
  Callers <- ThreeCallers
  Limit = 1
  Wait = 3
  ApiSlots = 1
  VaultSlots = 2
  Timeout = 1
  Retries = 1
SPECIFICATION Spec
SYMMETRY Symmetry
PROPERTIES
  ProbeDecides
  LostOnlyAtTheGate
  ClosesOnService
