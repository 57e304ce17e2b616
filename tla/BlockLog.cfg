\* Power losses, failed writes, and up to one rotten record or formatted partition.
SPECIFICATION Spec
CONSTANTS
  SegCap = 2
  MaxSegs = 3
  MaxBlocks = 4
  Step = 2
  LegacySeq = 1
  MaxSeq = 6
  MaxBoots = 3
  MaxDamage = 1
INVARIANTS
  TypeOK
  NoSeqReused
  GapsDeclared
  LogIsExact
  HeadIsLastUsed
PROPERTIES
  NothingVanishesUnreported
