SPECIFICATION Spec
CONSTANTS
  Readers = {r1}
  Capacity = 1
  MaxIterations = 2
  None = None
  MaxForwarded = 2
  MaxProgress = 1
CHECK_DEADLOCK FALSE
INVARIANT NoSendOnClosed
