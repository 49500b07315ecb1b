SPECIFICATION Spec
CONSTANTS
  Point <- MCPoint
  Vertex <- MCVertex
  Free <- MCFree
  Adj <- MCAdj
  Cost <- MCCost
  Dist <- MCDist
  StepSize = 4
  Yaw = {0, 1}
  NoGoal = NoGoal
  PosTol = 2
  PosTolExit = 8
  AutoReplan = TRUE
  ReplanTicks = 2
INVARIANTS PathBelongsToTask PublishedPathLeadsToGoal
PROPERTIES AnnouncedStatesFollowDiagram ImplementsTask
