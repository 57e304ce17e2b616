\* Replays, late messages, discards and a reboot that skips a seq.
SPECIFICATION Spec
CONSTANTS
  SegCap = 1
  MaxSegs = 2
  MaxBlocks = 2
  MaxLossRun = 2
  MaxRequest = 1
  MaxGap = 1
  MaxSeq = 3
  MaxBoots = 2
  MaxConns = 2
  MaxDamage = 0
  MaxCs = 2
  MaxBatch = 1
  RoundTrips = {TRUE}
CHECK_DEADLOCK FALSE
INVARIANTS
  OneResponsePerChallenge
  SessionOrRetry
  NothingSkipped
  GapsAreTrue
  EachSeqDecidedOnce
