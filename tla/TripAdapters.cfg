\* Three trips, one with two rows of data, or five rows of data alone.
CONSTANTS
  TripIds = {1, 2, 3}
  Entries <- MCEntries
  Results <- MCResults
  BootRows <- MCBoots
  BlockRows <- MCBlocks
  ReadingRows <- MCReadings
  PositionRows <- MCPositions
  MaxData <- MCMaxData
SPECIFICATION Spec
INVARIANTS AdaptersAgree PagesVisitAll
