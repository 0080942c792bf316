SPECIFICATION WritesSpec
CONSTANTS
  Parts = {"writes"}
  d1 = d1  d2 = d2
  v1 = v1  v2 = v2
  r1 = r1  r2 = r2
  home = home
  Visit = {r1, r2}
  Host = {v1, v2}
  Guest = {d1, d2}
  PrintOf <- SamePrint
  HostOf <- VisitsHost
  NewPerDay = 1
  MaxWaiting = 1
  MaxSecret = 2
  MaxRequeues = 1
  c1 = c1  c2 = c2  p1 = p1  p2 = p2  p3 = p3
  Reviewer = {c1, c2}
  Outsider = {p1}
  Reporter = Reporter
  Missing = Missing
  Device = {d1, d2}
  Asking <- AskingPairs
  AddressOf <- SameAddress
  NoAddress = NoAddress
  PerDevice = 1
  PerAddress = 1
  MaxHours = 1
  MaxHits = 2
  Order = {o1}
  Request = {r1, r2}
  InitialCoins = 1
  PackCoins = 2
  Price = 2
  Reward = 1
  MaxSpending = 2
  NoOrder = NoOrder
  Replica = {i1, i2}
  Mortal = {i2}
  BeatTtl = 3
  MaxOutages = 2
  MaxStarts = 1
  k1 = k1  k2 = k2  k3 = k3  k4 = k4  k5 = k5  office = office
  t1 = t1  t2 = t2  f1 = f1  f2 = f2
  Tag = {t1, t2}
  Files = {f1, f2}
  Initial = f1
  None = None
  Conn <- Connections
  Session = {d1, d2}
  SessionOf <- ConnectionsSession
  Ip = {home, office}
  IpOf <- ConnectionsIp
  Network = {home}
  NetworkOf <- IpsNetwork
  MaxTotal = 3
  MaxPerIp = 2
  MaxPerNetwork = 4
  MaxPerSession = 1
  OverSamples = 2
  ClearSamples = 3
  Person = {p1, p2, p3}
  Server = {r1, r2}
  Profile <- Three
  Primary <- Subtags
  Filters <- Picky
  RelaxTopics = 1  RelaxLanguage = 2  LowDelay = 1
  BlockTicks = 3
  Budget = 3
  Horizon = 4
  MaxJoins = 3
  MaxLosses = 1
  Socket = {k1, k3}
  Owner = {d1, d2}
  OwnerOf <- PairOwner
  RoomId = {v1}
  Eager = {k3}
  MaxFaults = 1
  NoSocket = NoSocket  NoRoom = NoRoom
PROPERTY PartnersAreRequeued
CHECK_DEADLOCK FALSE
