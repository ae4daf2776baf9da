SPECIFICATION Spec
CONSTANTS
  o1 = o1
  o2 = o2
  Ops = {o1, o2}
  Bytes = {"b1", "b2"}
  Registered = "b1"
  HasDigest = TRUE
  MaxRevision = 2
  OneAtATime = TRUE
  Somebody = Somebody
  Absent = Absent
SYMMETRY MCOpSymmetry
CHECK_DEADLOCK FALSE
INVARIANTS
  TypeOK
PROPERTIES
  OldOutputSurvives
  StageOutcomeTruthful
