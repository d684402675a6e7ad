SPECIFICATION MCSpec
CONSTANTS
  t1 = t1  t2 = t2  hall = hall  a = a  b = b  yard = yard
  None = None
  Threads <- TwoThreads
  Sirens <- OneSiren
  Eager = TRUE
  Requests <- TwoRequests
  MaxCrashes = 2
  MaxManual = 1
  MaxFaults = 2
  Cameras <- OneCamera
  CameraRequests <- ForOneCamera
  MaxFlaps = 3
  CameraCrashes = 1
  Services = {"door", "camera", "incident", "siren"}
  Executions = {x1, x2}
  Releases = {1, 2, 3}
  Active <- ActiveVersions
  Retained <- RetainedVersions
  Limits = {1, 2}
  MaxDeployments = 2
INVARIANTS
  EndedInSilence
  RecordIsTrue
  RepairIsBounded
  FollowsItsPlan
PROPERTIES
  ExecutionsSettle
  StartedEnds
CHECK_DEADLOCK FALSE
