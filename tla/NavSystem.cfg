SPECIFICATION Spec
CONSTANTS
  Point <- MCPoint
  Vertex <- MCPoint
  Free <- MCPoint
  Adj <- MCAdj
  Cost <- MCDist
  Dist <- MCDist
  StepSize = 4
  Headings = 1
  NoGoal = NoGoal
  PosTol = 2
  PosTolExit = 8
  AutoReplan = TRUE
  ReplanTicks = 2
  ManualTag = manual
  Cancels = TRUE
  EndHeadingKept = TRUE
  MaxGoals = 2
  QueueBound = 1
INVARIANTS LocalFollowsPlanner NoStalePathAtRest
