CONSTANTS
  p1 = p1
  p2 = p2
  p3 = p3
  Estates <- MCEstates
  Sizes <- MCSizes
  Users = {1, 2, 3}
  Asks <- MCAsks
  Limit = 2
  Lots <- MCLots
  FileInserts <- MCFileInserts
  EstatePosters = {p1, p2, p3}
  EstateBatch <- MCBatch
  Questions <- MCQuestions
  ListLimit = 4
  NazotteLimit = 2
  PartOf <- MCPartOf
  MaxInt = 7
  Columns = {"id"}
  Fields = {"limit"}
  MaxCalls = 7
  MaxNew = 2
  MaxRows = 2
SPECIFICATION MCSpec
INVARIANTS
  EstatesTypeOK
  DiffersOnlyIfShared
PROPERTIES
  AnswersLikeReference
  PostedIsFound
  EstatePageLikeReference
  CountAgreesUnlessMoved
  NazotteLosesNone
  NazotteIsPolygon
CHECK_DEADLOCK FALSE
