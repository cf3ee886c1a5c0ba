SPECIFICATION Spec
CONSTANTS
  Streams = {"stdout"}
  First = "stdout"
  Capacity = 1
  Output = 1
INVARIANT CapturedBytesAreReturned
CHECK_DEADLOCK FALSE
