SPECIFICATION FairSpec
CONSTANTS
  MaxEvaluations = 4
  MaxRejects = 2
  BatchSize = 3
  MaxWorkers = 2
INVARIANTS
  TypeOK
  ScoredIsSamplePrefix
  UntimedRunIsSequential
  ReplayAnalysesTheSame
  StageCountsAgree
PROPERTY StageEnds
\* The stage returns.
CHECK_DEADLOCK FALSE
