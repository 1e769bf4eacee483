SPECIFICATION MCSpec
CONSTANTS
  Replicas = {"a"}
  Clients = {"c", "d"}
  Shared = TRUE
  TTL = 2
  MaxFrames = 2
  PageSize = 1
  Parts = {"evidence"}
  MaxWrites = 2
  MaxReports = 0
  MaxRequests = 2
  MaxTime = 3
  MaxKey = 1
INVARIANTS ShownFrameIsTrue QuietBuildSucceeds
PROPERTIES CursorsSurviveRotation
