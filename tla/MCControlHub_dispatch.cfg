SPECIFICATION Spec
CONSTANTS
  t1 = t1  a1 = a1  k1 = k1
  Tasks = {t1}
  Users = {u1, u2}
  Actions = {a1}
  Keys = {k1}
  TaskOf <- OneTaskOf
  KeyOf <- OneKeyOf
  SeqOf <- OneSeqOf
  Dispatchers = {w1, w2}
  Runs = {}
  Stops = {}
  Readers = {r1}
  Reports <- SuccessReports
  Ends = {}
  CompletedLimit = 1
  None = None
  MaxClock = 1
  MaxLinks = 2
  MaxRestarts = 1
  MaxFaults = 1
CHECK_DEADLOCK FALSE
SYMMETRY Symmetric
INVARIANTS TypeOK SingleFlight ReplayNotResent ReturnedIsDurable
