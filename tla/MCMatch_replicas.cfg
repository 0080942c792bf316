SPECIFICATION Spec
CONSTANTS
  s1 = s1  s2 = s2  s3 = s3
  d1 = d1  d2 = d2
  i1 = i1  i2 = i2
  Socket = {s1, s2, s3}
  Device = {d1, d2}
  Instance = {i1, i2}
  Room = {r1}
  NoSocket = NoSocket
  NoRoom = NoRoom
  DeviceOf <- TabsDeviceOf
  HomeOf <- TabsHomeOf
  Instant = {s3}
  Apart = {}
  Caps <- NoCaps
  Crashing = {i1}
  Draining = {i2}
  Lapsing = {i2}
  Env = {}
INVARIANTS
  RoomsMatchSessions
  OneSessionPerDevice
  CallsStartOnce
CHECK_DEADLOCK FALSE
