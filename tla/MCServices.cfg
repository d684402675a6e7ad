SPECIFICATION MCSpec
CONSTANTS
  p1 = p1  p2 = p2  p3 = p3  k1 = k1  k2 = k2  e1 = e1  e2 = e2  e3 = e3
  None = None
  Processes <- Three
  Keys <- TwoKeys
  Entries <- Heap
  Padded <- MCPadded
  IdOrder <- MCIdOrder
  MaxNesting = 2
  MaxInt = 50
  Exponential = 90
  MaxFloat = 200
  Documents <- MCDocuments
  Registries <- MCRegistries
  Contexts <- MCContexts
  UnlockIds = {"unlock"}
  DoorOpenIds = {"door.open"}
  SirenIds = {"siren"}
  AlarmIds = {"alarm"}
INVARIANTS
  DryRunFollowsPlan
  AxiomNeedsNoState
  EqualDigestEqualPlan
  CheckedConditionsEvaluate
PROPERTIES
  WaitersEnter
CHECK_DEADLOCK FALSE
