CONSTANTS
  c1 = c1
  c2 = c2
  b1 = b1
  b2 = b2
  b3 = b3
  p1 = p1
  p2 = p2
  Chairs <- MCChairs
  Buyers = {b1}
  Posters = {p1}
  Initializers = {i1}
  Want <- AllWantC1
  Batch <- ClashingBatches
  InitFile <- TwoRows
  ResetsChairDB = TRUE
  Faults = {"db", "redis", "crash"}
SPECIFICATION FairSpec
INVARIANTS
  ListedInStockOnlyByStraggler
PROPERTIES
  EveryRequestAnswered
  InitializeRestoresStock
CHECK_DEADLOCK FALSE
