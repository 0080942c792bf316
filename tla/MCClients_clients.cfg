SPECIFICATION ClientsSpec
CONSTANTS
  Parts = {"signaling", "peer", "camera", "moderation", "purchase", "gate page", "restrictions"}
  MaxHellos = 3
  MaxRooms = 2
  MaxWire = 1
  MaxTries = 3
  Ask = {a1, a2, a3}
  SafeStreak = 3
  MaxCalls = 3
  Payment = {o1, o2, o3}
  Storable = {o1, o2}
  NoPayment = NoPayment
  AutoRetries = 2
  d1 = d1  d2 = d2  b1 = b1  b2 = b2
  Visitor = {d1, d2}
  Browser = {b1, b2}
  Households <- OneOrTwoBrowsers
  Place = {home}
  Accused = {d1}
  Ruling = {u1, u2}
  Entry = {e1}
  PauseTicks = 1  BanTicks = 2  NetworkTtl = 1  LastTick = 1
  MaxUnderWay = 1
  Nobody = Nobody
INVARIANTS
  ScreenIsTrue
  NeverStranded
  DescriptionsAgree
  CaptureIsShown
  VideoIsCleared
  ProofSurvives
  NeverLeftWaiting
  TheRestrictedStayOut
CHECK_DEADLOCK FALSE
