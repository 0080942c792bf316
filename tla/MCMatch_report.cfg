SPECIFICATION Spec
CONSTANTS
  s1 = s1  s2 = s2  s3 = s3
  d1 = d1  d2 = d2
  i1 = i1  i2 = i2
  Socket = {s1, s2}
  Device = {d1, d2}
  Instance = {i1}
  Room = {r1, r2}
  NoSocket = NoSocket
  NoRoom = NoRoom
  DeviceOf <- PairDeviceOf
  HomeOf <- PairOneHome
  Instant = {s2}
  Apart = {}
  Caps <- SomeCaps
  Crashing = {}
  Draining = {i1}
  Lapsing = {}
  Env = {"closed", "lockFails", "refuse", "report"}
SYMMETRY RoomSymmetry
INVARIANTS
  QueueHoldsTheWaiting
CHECK_DEADLOCK FALSE
