SPECIFICATION FairSpec
CONSTANTS
  Streams = {"stdout", "stderr"}
  First = "stdout"
  Capacity = 1
  Output = 2
INVARIANTS
  TypeOK
  TextWithoutNoteIsWhole
  StoppedRunIsDead
PROPERTIES
  EveryRunReturns
  ToolIsNeverStalled
CHECK_DEADLOCK FALSE
