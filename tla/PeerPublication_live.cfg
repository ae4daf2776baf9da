SPECIFICATION FairSpec
CONSTANTS
  p1 = p1
  p2 = p2
  Procs = {p1, p2}
  Keys = {"k1"}
  Contents = {"c1"}
  Inspectable = {"c1"}
  Sizes = {1}
  Size <- MCSize
  Reasons = {"why"}
  MaxRecords = 1
  StatMayFail = TRUE
  Missing = "missing"
  NoDigest = "nodigest"
  NoReason = "noreason"
  NoRecord = NoRecord
  NoOne = NoOne
  Orphan = Orphan
PROPERTIES
  CallsReturn
