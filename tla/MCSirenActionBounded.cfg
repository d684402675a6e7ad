SPECIFICATION FairSpec
CONSTANTS
  t1 = t1  t2 = t2  hall = hall  a = a  b = b
  None = None
  Threads <- TwoThreads
  Sirens <- OneSiren
  Eager = TRUE
  Requests <- OneRequest
  MaxCrashes = 0
  MaxManual = 0
  MaxFaults = 1
PROPERTIES
  EnableIsBounded
CHECK_DEADLOCK FALSE
