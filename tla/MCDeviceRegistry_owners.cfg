SPECIFICATION Spec
CONSTANTS
  d1 = d1
  Devices = {d1}
  Users = {u1, u2}
  Conns = {c1, c2}
  DeviceOf <- OneDevice
  Capable = {c1, c2}
  Requests = {q1, q2}
  None = None
  MaxHubs = 2
  MaxFaults = 1
CHECK_DEADLOCK FALSE
SYMMETRY Symmetric
INVARIANTS TypeOK ExclusiveUse MemoryOwnerStored ReadMeansRegistered
PROPERTY OwnerStays
