SPECIFICATION DriveSpec
CONSTANTS
  Speed <- MCSpeed
  Still <- MCStill
  Command <- MCCommand
  ManualTag = "manual"
  Keys = {"", "w", "s", "i", "q"}
  MaxSpeed = 1
  StartInAuto = FALSE
  Timeout = 1
  Zeros = 1
  CallsFail = FALSE
INVARIANTS EmergencyStopStops
