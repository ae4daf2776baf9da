SPECIFICATION FairSpec
CONSTANTS
  c1 = c1
  c2 = c2
  c3 = c3
  a1 = a1
  a2 = a2
  Calls <- MCThreeCalls
  Accounts <- MCAccounts
  Id <- MCId
  Account <- MCAccount
  Key <- MCOwnKey
  Price <- MCPrice
  Ids = {"i1", "i2", "i3"}
  IdemKeys = {"k1", "k2", "k3"}
  Amount = 3
  RequestLimit = 1
  DailyLimit = 2
  MaxDay = 0
  MaxActive = 1
  MaxPerAccount = 1
  MaxWaiting = 2
  MaxAuth = 1
  MaxLife = 1
  Stops = {}
  OverCharge = FALSE
  NoCost = NoCost
CHECK_DEADLOCK FALSE
INVARIANTS
  SentWithFreshAuthority
  QueueSound
PROPERTIES
  WaitersServed
