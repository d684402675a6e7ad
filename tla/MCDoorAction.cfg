SPECIFICATION FairSpec
CONSTANTS
  p1 = p1  p2 = p2  t1 = t1  t2 = t2  t3 = t3  front = front  a = a  b = b
  None = None
  Procs <- MCProcs
  Threads <- MCThreads
  ProcOf <- MCProcOf
  Doors <- OneDoor
  Requests <- FrontRequests
  MaxCrashes = 2
  MaxManual = 1
  MaxRetries = 1
  MaxFaults = 2
INVARIANT NoUnlockWithoutApproval
PROPERTIES
  ReservesDoors
  StartedSettles
CHECK_DEADLOCK FALSE
