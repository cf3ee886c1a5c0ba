SPECIFICATION FairSpec
CONSTANTS
  MaxWorkers = 3
  MaxGenerations = 2
  Generation = 2
  Jobs = 5
  Required = 2
INVARIANTS
  TypeOK
  DrainCostBounded
  CountedAtMostTwice
  ReportNamesTheRequester
PROPERTIES
  RecordIsFinal
  RunIsCollected
CHECK_DEADLOCK FALSE
