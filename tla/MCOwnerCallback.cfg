SPECIFICATION FairSpec
CONSTANTS
  d1 = d1  d2 = d2  u1 = u1  u2 = u2  e1 = e1  e2 = e2  i1 = i1  i2 = i2
  None = None
  Deliveries <- TwoDeliveries
  Users <- TwoUsers
  Messages <- MCMessages
  InitRole <- MCInitRole
  MaxRequests = 3
  MaxCrashes = 1
  MaxRoleChanges = 1
INVARIANTS
  SuccessMeansApplied
  NothingFollowsFinalDecision
PROPERTY CommittedDecisionIsArchived
CHECK_DEADLOCK FALSE
