SPECIFICATION FairSpec
CONSTANTS
  MaxOutput = 1
  Plans <- MCPlans
  Points = 2
  MaxRuns = 2
  MaxRevision = 1
INVARIANTS
  TypeOK
  ShownIsForTheInputs
  OneMoreToolAtMost
  IdleIsQuiet
PROPERTY
  BusyEnds
\* The bounded runs end with the window at rest.
CHECK_DEADLOCK FALSE
