SPECIFICATION Spec
CONSTANTS
  Budgets = {1, 8}
  MaxRejects = 5
  Schedules = {3, 4}
  Reserve = 1
  Population = 3
  Minimum = 2
  OperatorMin = 2
  Free = 1
  MaxPolls = 2
INVARIANTS
  TypeOK
  LimitsHold
  ReplayIsTheRun
\* The stage and its replay return.
CHECK_DEADLOCK FALSE
