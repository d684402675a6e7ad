SPECIFICATION MCSpec
CONSTANTS
  yard = yard  door = door  garage = garage
  Cams <- TwoCams
  Manual <- OneManual
  Versions = {1, 2}
  MaxEdits = 2
  MaxFaults = 2
  MaxCrashes = 1
  Configured = TRUE
  MaxConnections = 2
  MaxEvents = 3
INVARIANTS
  AppliedRuns
  AnnouncedOrOnTheWay
PROPERTIES
  HealthSettles
  CloseEnds
CHECK_DEADLOCK FALSE
