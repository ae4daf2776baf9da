SPECIFICATION CatalogSpec
CONSTANTS
  Config <- MCConfig
  serving = serving
  dirA = dirA
  dirB = dirB
  Dirs = {serving, dirA, dirB}
  Owner <- MCOwner
  Items = {1, 2, 3}
  Space <- MCSpace
  Wanted = {1, 2, 3}
  PageLimit = 1
  InputLimit = 2
  MaxMoves = 2
  MaxRev = 2
  Nowhere = Nowhere
  None = None
SYMMETRY MCDirSymmetry
CHECK_DEADLOCK FALSE
INVARIANTS
  PagesAreOneInstant
  ResolveSound
