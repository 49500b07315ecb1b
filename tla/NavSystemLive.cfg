SPECIFICATION LiveSpec
CONSTANTS
  Point <- MCPoint
  Vertex <- MCPoint
  Free <- MCPoint
  Adj <- MCAdj
  Cost <- MCDist
  Dist <- MCDist
  StepSize = 4
  Headings = 4
  NoGoal = NoGoal
  PosTol = 2
  PosTolExit = 8
  AutoReplan = FALSE
  ReplanTicks = 1
  ManualTag = manual
  Cancels = TRUE
  EndHeadingKept = TRUE
  MaxGoals = 1
  QueueBound = 1
PROPERTIES StopsAfterTask TurningAligns
