SPECIFICATION FairSpec
CONSTANTS
  d1 = d1
  Devices = {d1}
  Users = {u1}
  Conns = {c1, c2}
  DeviceOf <- OneDevice
  Capable = {c1}
  Requests = {q1}
  None = None
  MaxHubs = 2
  MaxFaults = 1
CHECK_DEADLOCK FALSE
PROPERTIES SupersededEnds SilentForgotten ConnectedShownOnline
