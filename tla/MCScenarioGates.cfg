SPECIFICATION CompileSpec
CONSTANTS
  Padded <- MCPadded
  IdOrder <- MCIdOrder
  MaxNesting = 2
  MaxInt = 50
  Exponential = 90
  MaxFloat = 200
  Documents <- MCDocuments
  Registries <- MCRegistries
  Contexts <- MCContexts
  UnlockIds = {"unlock"}
  DoorOpenIds = {"door.open"}
  SirenIds = {"siren"}
  AlarmIds = {"alarm"}
INVARIANT EveryUnlockIsGated
CHECK_DEADLOCK FALSE
