SPECIFICATION FairSpec
CONSTANTS
  Point <- LiveVertex
  Vertex <- LiveVertex
  Free <- LiveVertex
  Adj <- LiveAdj
  Cost <- LiveCost
  Dist <- LiveDist
  StepSize = 4
  Yaw = {0}
  NoGoal = NoGoal
  PosTol = 2
  PosTolExit = 8
  AutoReplan = TRUE
  ReplanTicks = 3
PROPERTIES BlockedPathReplanned ArrivalNoticed
