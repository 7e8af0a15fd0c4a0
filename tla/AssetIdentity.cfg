SPECIFICATION IdentitySpec
CONSTANTS
  aot = aot
  aotBK = aotBK
  Spellings = {aot, aotBK}
  Canonical <- MCCanonical
  Bundled = {aot}
  Venue = {aotBK}
  Shapes <- MCShapes
  Watched = {aotBK}
  RunIds = {r1}
  Absent = Absent
  MaxRows = 2
  MaxEdits = 4
INVARIANTS
  IdsNameTheListing
PROPERTIES
  CutoverHidesNothing
CHECK_DEADLOCK FALSE
