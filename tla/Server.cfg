CONSTANTS
  CsMax = 99
  Day = 2
  MaxPending = 1
  Validity = 8
  RttMax = 3
  AllowNone = TRUE
  Clock32 = 16
  Dev = "dev"
  Profile = "none"
  BootIds = 2
  Bounds <- MCBounds
  Steps = {7}
  TestRows <- MCRows
  RowAnchors <- MCAnchors
  Estimates <- MCEstimates
  Blocks <- MCBlocks
SPECIFICATION AdaptersSpec
INVARIANTS SameStores BootsCoverBlocks AnchorsAreTrue StateIsSound
PROPERTIES StateOnlyAdvances
CHECK_DEADLOCK FALSE
