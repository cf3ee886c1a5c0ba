SPECIFICATION Spec
CONSTANTS
  MaxWorkers = 1
  MaxGenerations = 2
  Generation = 1
  Jobs = 3
  Required = 1
INVARIANT RecordedPlaceWasEntered
CHECK_DEADLOCK FALSE
