CONSTANTS
  Criteria = {"cheap", "tall"}
  Counts = {0, 1, 3}
  MaxRequests = 3
  Points <- MCPoints
  NazotteLimit = 3
  MaxPath = 3
  MaxPosts = 2
SPECIFICATION MCSpec
INVARIANTS
  BrowserTypeOK
  ScreenFollowsNewest
  MapIsTrueUnlessAstray
PROPERTIES
  PostedCoversDrawing
CHECK_DEADLOCK FALSE
