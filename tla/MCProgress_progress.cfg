SPECIFICATION ProgressSpec
CONSTANTS
  Parts = {"wallet", "heartbeats", "spend", "peer", "queue"}
  Order = {o1}
  Request = {r1, r2}
  InitialCoins = 1
  PackCoins = 2
  Price = 2
  Reward = 1
  MaxSpending = 1
  NoOrder = NoOrder
  Replica = {i1, i2}
  Mortal = {i2}
  BeatTtl = 3
  MaxOutages = 1
  MaxStarts = 1
  Instance = {i1, i2}
  FailsafeAfter = 2
  Free = Free
  MaxTrouble = 2
  MaxTries = 2
  p1 = p1  p2 = p2  p3 = p3
  Person = {p1, p2, p3}
  Server = {i1}
  Profile <- Mixed
  Primary <- Subtags
  Filters <- Men
  RelaxTopics = 1
  RelaxLanguage = 1
  LowDelay = 1
  BlockTicks = 1
  Budget = 3
  Horizon = 2
  MaxJoins = 3
  MaxLosses = 1
PROPERTIES
  PaymentsAreCredited
  TheDeadAreReaped
  SpendIsCapped
  BlindSpendIsCut
  CallsAreDecided
  PairsMeetInTheEnd
CHECK_DEADLOCK FALSE
