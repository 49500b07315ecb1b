SPECIFICATION DriversSpec
CONSTANTS
  Handles = {a, b, c}
  InFile = {a}
  Keys = {k1, k2}
  Wished = {k1, k2}
  MaxSources = 2
  MaxReports = 2
  LidarCount = 2
  Configured = {0}
  Frames = {f}
  NoFrame = none
  QueueSize = 2
  IdxBits = 2
  Turn = 3
  PacketPoolMax = 1
  CloudPointMax = 3
  WaitForDifop = TRUE
  MaxClouds = 2
  MaxSyncDiff = 1
  queue_size = 2
  Layouts = {"xyzi", "padded"}
  Period = 3
  MaxScanStamp = 6
INVARIANTS NoWakeUpLost WholeCloudsAreTurns NoCounterpartLost
PROPERTIES ReportedIsSampled ImplementsFrameQueue LeavingEnds StopEnds
CHECK_DEADLOCK FALSE
