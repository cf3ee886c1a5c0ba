SPECIFICATION Spec
CONSTANTS
  NumLanes = 2
  MaxDesigns = 3
  MaxBatches = 1
INVARIANT AfterRequestIsReported
CHECK_DEADLOCK FALSE
