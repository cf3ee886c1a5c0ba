SPECIFICATION Spec
CONSTANTS
  Threads = {t1, t2}
  Invocations = 3
SYMMETRY Symmetry
INVARIANTS
  TypeOK
  EntryIsComplete
  HitIsTheRun
  OnlyAHalfRestoreChangesARun
\* Every thread has made its invocations.
CHECK_DEADLOCK FALSE
