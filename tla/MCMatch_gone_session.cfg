SPECIFICATION Spec
CONSTANTS
  s1 = s1  s2 = s2  s3 = s3
  d1 = d1  d2 = d2
  i1 = i1  i2 = i2
  Socket = {s1, s2}
  Device = {d1, d2}
  Instance = {i1, i2}
  Room = {r1}
  NoSocket = NoSocket
  NoRoom = NoRoom
  DeviceOf <- PairDeviceOf
  HomeOf <- PairHomeOf
  Instant = {s2}
  Apart = {}
  Caps <- NoCaps
  Crashing = {}
  Draining = {i1}
  Lapsing = {}
  Env = {"graceOver"}
INVARIANTS
  GoneSessionsStayReachable
