SPECIFICATION Spec
CONSTANTS
  d1 = d1  d2 = d2  u1 = u1  u2 = u2  e1 = e1  e2 = e2  i1 = i1  i2 = i2
  None = None
  Deliveries <- TwoDeliveries
  Users <- TwoUsers
  Messages <- RetryMessages
  InitRole <- MCInitRole
  MaxRequests = 3
  MaxCrashes = 0
  MaxRoleChanges = 0
INVARIANT
  EventAppliedOnce
CHECK_DEADLOCK FALSE
