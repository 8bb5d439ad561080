CONSTANTS
  b1 = b1
  b2 = b2
  p1 = p1
  s1 = s1
  s2 = s2
  Chairs = {1, 2, 3, 4, 5, 6, 7}
  Buyers = {b1}
  Posters = {p1}
  Initializers = {}
  Want <- MCWant
  Batch <- NewChair
  InitFile <- MCFile
  ResetsChairDB = TRUE
  Faults = {"db", "crash"}
  Searchers = {s1, s2}
  Attr <- MCAttr
  Query <- MCQuery
  PerPage = 2
  PartOf <- NamesApart
SPECIFICATION SearchSpec
INVARIANTS
  SearchTypeOK
  ShownTwiceOnlyIfShifted
  WalkMissesOnlyShifted
PROPERTIES
  PageLikeReference
CHECK_DEADLOCK FALSE
