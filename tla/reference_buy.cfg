CONSTANTS
  c1 = c1
  b1 = b1
  b2 = b2
  b3 = b3
  Chairs = {c1}
  Supplied <- TwoUnits
  Buyers = {b1, b2, b3}
  Want <- MCWant
  PoolSize = 2
  Faults = {"query", "connection", "crash"}
SPECIFICATION RefFairSpec
INVARIANTS
  PoolConserved
  LocksAreHeld
PROPERTIES
  TransactionImplementsSale
  EveryBuyerAnswered
CHECK_DEADLOCK FALSE
