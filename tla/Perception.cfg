SPECIFICATION PerceptionSpec
CONSTANTS
  Points = {1, 2, 3}
  BelowF = {1, 2}
  BelowS = {1, 2}
  Boxes <- Stretches
  Searchers = {s1, s2}
  MaxOperations = 3
  MaxStamp = 12
  ScanTime = 3
  SampleTime = 2
  MaxIniCount = 1
  BufferBound = 2
  Axis = {x, y}
  CubeLen = 14
  HalfRange = 1
  MaxStep = 1
  MaxPos = 8
  MaxPoses = 2
  MaxScans = 3
  queue_maxsize = 2
  Place = {0, 1, 2, 3}
  Height = {0, 1, 2, 3}
  Worlds <- MCWorlds
  MaxWorlds = 1
  LocalMapSize = 1
  CacheThreshold = 2
  LayerGap = 1
  MergeMinPoints = 2
  Tolerance = 1
  GridThreshold = 2
  FallbackThreshold = 1
INVARIANTS TreeIsSet ReadNodesLive FilterKeepsTime OdometryIsOfItsScan
INVARIANTS RobotWellInside NoPoseLost
PROPERTIES RebuildEnds DeletesWhatItLeaves CropCatchesUp NewThingsAreObstacles NearbyIsKnown
CHECK_DEADLOCK FALSE
