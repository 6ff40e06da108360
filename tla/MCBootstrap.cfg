SPECIFICATION FairSpec
CONSTANTS
  MaxHeight = 5
  BatchWritePeriod = 2
INVARIANTS
  IntervalsMatchBlocks
  GapsAreRequested
  ExecutesInOrder
PROPERTIES
  SyncingEnds
