SPECIFICATION MeshSpec
CONSTANTS
  NumX = 3
  NumY = 3
  NumLocal = 2
  Sides = {0, 1, 2, 3}
  RouteAlgo = "XY"
  XYRouteOpt = TRUE
  CoordBits = 2
  Programmes <- OneOrTwo
INVARIANTS
  LeavesAtDestination
  RoutesConnected
  CollectivesComplete
  NoCycles
CHECK_DEADLOCK FALSE
