CONSTANTS
  Starters = {"s1", "s2"}
  Stoppers = {"p1", "p2", "p3"}
  MaxPending = 2
  Phases <- MCPhases
  FeatureList <- MCFeatures
  KnownIds = {1}
  Clouds <- MCClouds
  OldFiles <- MCOldFiles
SPECIFICATION MCSpec
INVARIANTS
  ToolsTypeOK
  PhasesAreBarriers
  HullsAreConvex
PROPERTIES
  StoppedFiresNoMore
  StopIsHeard
  EveryRunEnds
CHECK_DEADLOCK FALSE
