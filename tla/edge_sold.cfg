CONSTANTS
  c1 = c1
  c2 = c2
  b1 = b1
  b2 = b2
  p1 = p1
  v1 = v1
  v2 = v2
  v3 = v3
  Chairs <- MCChairs
  Buyers = {b2}
  Posters = {p1}
  Initializers = {}
  Want <- Wants
  Batch <- OneBatch
  InitFile <- OneRow
  ResetsChairDB = TRUE
  Viewers = {v1, v2, v3}
  Asks <- PostedZero
  Faults = {}
SYMMETRY SamePlain
SPECIFICATION EdgeSpec
INVARIANTS
  EdgeTypeOK
  SoldOutIsHidden
  NoFalseSoldOut
