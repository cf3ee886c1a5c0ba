SPECIFICATION FairSpec
CONSTANTS
  NumLanes = 2
  MaxDesigns = 3
  MaxBatches = 2
INVARIANTS
  TypeOK
  EachStartedOnce
  NothingOwedAtCollect
  OneLateCandidatePerLane
PROPERTIES
  ImplementsContract
  RequestEndsBatch
\* A search really ends: after its last batch nothing more happens.
CHECK_DEADLOCK FALSE
