SPECIFICATION RunsSpec
CONSTANTS
  Readers = {r1}
  Capacity = 1
  MaxIterations = 2
  None = None
  MaxForwarded = 2
  MaxProgress = 1
  j1 = j1
  j2 = j2
  Training = {j1, j2}
  OutputName <- OneName
  TrainingRequests <- Requests
  MaxTrainingRestarts = 1
  MaxTrainingFaults = 0
CHECK_DEADLOCK FALSE
INVARIANTS RunsTypeOK ShownToTheEnd DetachedAndTold
PROPERTIES RunEnds HandlerReturns CancelStopsTraining
