SPECIFICATION PlanningSpec
CONSTANTS
  Point <- MCPoint
  Vertex <- MCVertex
  Free <- MCPoint
  Adj <- MCAdj
  Cost <- MCCost
  Dist <- MCDist
  StepSize = 3
  Waypoints <- MCWaypoints
  Legs = {0, 100}
  MaxVertices = 12
  SampleRate = 20
  EndStrategy = "keep_original"
  Goal = {g1, g2}
  NoGoal = NoGoal
  Headings = 4
  Controls <- MCControls
  INF = 4000
  Uninitialised <- MCUninitialised
  Worlds <- MCWorlds
  XYExpand = 1
  ZThickness = 3
  RobotHeight = 3
  SafeMargin = 3
  MinCenters = 3
  MaxNodes = 3
  Radius = 37
  KNeigh = 1
  StepsPerVoxel = 4
  MaxSlope = 1
INVARIANTS SearchIsPlanResult NoPointLost NeverBlocksOnItself PlanMovesOnlyOnTask
INVARIANTS DistancesAreExact EdgesKeepOffObstacles
PROPERTIES PlansAreAnswered
CHECK_DEADLOCK FALSE
