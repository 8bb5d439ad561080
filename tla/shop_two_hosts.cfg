CONSTANTS
  c1 = c1
  c2 = c2
  b1 = b1
  b2 = b2
  b3 = b3
  p1 = p1
  p2 = p2
  Chairs <- MCChairs
  Buyers = {b1, b2}
  Posters = {}
  Initializers = {i1}
  Want <- BothWanted
  Batch <- NoBatch
  InitFile <- TwoRows
  ResetsChairDB = FALSE
  Faults = {}
SPECIFICATION Spec
PROPERTIES
  InitializeRestoresStock
CHECK_DEADLOCK FALSE
