\* Transfer under fairness: discards, a rotten record, reconnection, resends.
SPECIFICATION FairSpec
CONSTANTS
  SegCap = 1
  MaxSegs = 2
  MaxBlocks = 2
  MaxLossRun = 2
  MaxRequest = 1
  MaxGap = 0
  MaxSeq = 3
  MaxBoots = 1
  MaxConns = 2
  MaxDamage = 1
  MaxCs = 1
  MaxBatch = 1
  RoundTrips = {TRUE}
CHECK_DEADLOCK FALSE
INVARIANTS
  LossIsReal
PROPERTIES
  PromiseKept
  EverythingConfirmed
