CONSTANTS
  c1 = c1
  c2 = c2
  b1 = b1
  b2 = b2
  b3 = b3
  p1 = p1
  p2 = p2
  Chairs <- MCChairs
  Buyers = {b1, b2, b3}
  Posters = {p1, p2}
  Initializers = {}
  Want <- AllWantC1
  Batch <- ClashingBatches
  InitFile <- OneRow
  ResetsChairDB = TRUE
  Faults = {"db", "redis", "crash"}
SYMMETRY BuyerSymmetry
SPECIFICATION Spec
INVARIANTS
  ShopTypeOK
  UnitsConserved
  RemainderSeenOnce
  SoldOutIsListed
PROPERTIES
  PostIsWhole
  ImplementsSale
CHECK_DEADLOCK FALSE
