CONSTANTS
  b1 = b1
  b2 = b2
  p1 = p1
  s1 = s1
  s2 = s2
  Chairs = {1, 2, 3, 4, 5, 6, 7}
  Buyers = {b1}
  Posters = {}
  Initializers = {}
  Want <- MCWant
  Batch <- NoBatch
  InitFile <- MCFile
  ResetsChairDB = TRUE
  Faults = {}
  Searchers = {s1}
  Attr <- NestedAttr
  Query <- MCQuery
  PerPage = 2
  PartOf <- NamesNested
SPECIFICATION SearchSpec
PROPERTIES
  PageLikeReference
CHECK_DEADLOCK FALSE
