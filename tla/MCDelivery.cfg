SPECIFICATION MCSpec
CONSTANTS
  Callers = {c1, c2}
  Keys = {k1}
  Messages = {m1, m2}
  Recipients = {1, 2}
  MaxClaims = 2
  MaxCalls = 3
  MaxChanges = 1
  MaxCrashes = 1
  Clients = {c3}
  MaxOperations = 2
  MaxWrites = 1
INVARIANTS
  NoBlindResend
  SuccessIsTrue
  SucceededIsRestorable
PROPERTIES
  CallsEnd
  BackupCloseEnds
CHECK_DEADLOCK FALSE
