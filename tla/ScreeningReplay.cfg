SPECIFICATION Spec
CONSTANTS
  MaxEvaluations = 4
  MaxRejects = 2
  BatchSize = 3
  MaxWorkers = 2
INVARIANT ReplayScoresTheSame
CHECK_DEADLOCK FALSE
