SPECIFICATION FairSpec
CONSTANTS
  Point <- MCPoint
  Vertex <- MCPoint
  Free <- MCPoint
  Adj <- MCAdj
  Cost <- MCDist
  Dist <- MCDist
  StepSize = 4
  Headings = 2
  NoGoal = NoGoal
  PosTol = 2
  PosTolExit = 8
  AutoReplan = FALSE
  ReplanTicks = 1
  ManualTag = manual
  Cancels = FALSE
  EndHeadingKept = FALSE
  MaxGoals = 1
  QueueBound = 1
PROPERTIES AlignmentEnds
