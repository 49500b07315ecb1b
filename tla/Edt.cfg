SPECIFICATION RoadSpec
CONSTANTS
  INF = 4000
  Uninitialised <- MCUninitialised
  Worlds <- MCWorlds
  XYExpand = 1
  ZThickness = 3
  RobotHeight = 3
  SafeMargin = 3
  MinCenters = 3
  MaxNodes = 3
  Radius = 37
  KNeigh = 1
  StepsPerVoxel = 2
  MaxSlope = 1
INVARIANT DistanceIsToNearest
CHECK_DEADLOCK FALSE
