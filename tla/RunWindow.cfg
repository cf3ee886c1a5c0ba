SPECIFICATION FairSpec
CONSTANTS
  Sections = 3
  PoolSize = 2
  Order <- MCOrder
  Mission = "mission"
  Mses = "mses"
  MaxRuns = 2
  MaxCases = 2
INVARIANTS
  TypeOK
  SnapshotsAreCumulative
  StageIsSerial
  ShownIsWhatItClaims
PROPERTY
  RunEnds
\* The bounded runs end with the window at rest.
CHECK_DEADLOCK FALSE
