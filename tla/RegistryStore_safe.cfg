SPECIFICATION Spec
CONSTANTS
  p1 = p1
  p2 = p2
  p3 = p3
  Procs = {p1, p2, p3}
  Nobody = Nobody
  Names = {"Ops", "ops"}
  Lower <- MCLower
  Labels = {"v1", "v2"}
  a = a
  b = b
  n = n
  Paths = {a, b, n}
  Upstreams = {a}
  Anchor <- MCAnchor
  Number <- MCNumber
  Parts = {"x", "y"}
  Kinds = {TRUE, FALSE}
  Absent = Absent
  Columns = {"producer"}
SYMMETRY MCProcSymmetry
CHECK_DEADLOCK FALSE
INVARIANTS
  ServeAllOrNothing
  TeamsOnce
  LookupsAgree
PROPERTIES
  ReceiptAfterCopy
