SPECIFICATION Spec
CONSTANTS
  c1 = c1
  c2 = c2
  c3 = c3
  a1 = a1
  a2 = a2
  Calls <- MCThreeCalls
  Accounts <- MCAccounts
  Id <- MCId
  Account <- MCOneAccount
  Key <- MCRetryKey
  Price <- MCPrice
  Ids = {"i1", "i2", "i3"}
  IdemKeys = {"k1", "k2", "k3"}
  Amount = 2
  RequestLimit = 1
  DailyLimit = 1
  MaxDay = 1
  MaxActive = 1
  MaxPerAccount = 2
  MaxWaiting = 2
  MaxAuth = 0
  MaxLife = 3
  Stops = {TRUE, FALSE}
  OverCharge = TRUE
  NoCost = NoCost
CHECK_DEADLOCK FALSE
INVARIANTS
  TypeOK
  ChargesCovered
  SentOnce
  ExposureBounded
PROPERTIES
  ReceiptIsFinal
