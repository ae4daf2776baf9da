SPECIFICATION Spec
CONSTANTS
  p1 = p1
  p2 = p2
  Procs = {p1, p2}
  Keys = {"k1"}
  Contents <- MCContents
  Inspectable = {"c1", "c2"}
  Sizes <- MCSizes
  Size <- MCSize
  Reasons = {"why"}
  MaxRecords = 1
  StatMayFail = FALSE
  Missing = "missing"
  NoDigest = "nodigest"
  NoReason = "noreason"
  NoRecord = NoRecord
  NoOne = NoOne
  Orphan = Orphan
SYMMETRY MCProcSymmetry
INVARIANTS
  TypeOK
  OutcomeTruthful
PROPERTIES
  DigestMatchesSize
  ReviewBinding
