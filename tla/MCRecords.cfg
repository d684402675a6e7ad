SPECIFICATION MCSpec
CONSTANTS
  Releases = {1, 2, 3}
  Schema <- SchemaOf
  MinReadable <- ReadableFrom
  First = 1
  MaxWrites = 3
  MaxUpdates = 2
  MaxTroubles = 3
  Messages = {1, 2}
  Workers = {w1, w2}
  Second = 2
  Lease = 2
  Limits = {1, 2}
  Delays = {0, 2}
  MaxTime = 4
  MaxFails = 1
  Users = {ann, bob}
  Requests = {r1, r2}
  Given = {"admin", "viewer"}
  SessionTTL = 0
  MaxAge = 0
  MaxClock = 2
  MaxLogins = 1
  MaxTokens = 2
  Observations <- SixObservations
  Window = 3
  MaxLateness = 2
  MaxEventsPerGroup = 3
  MaxSeenEvents = 4
  MaxArtifacts = 2
  Descriptors <- Lamps
  EntityOffers <- OneRoom
  Documents <- TwoDocuments
  Scenarios = {s1}
  MaxRevisions = 2
  MaxRemovals = 1
  MaxEdits = 2
  MaxVersion = 2
INVARIANTS
  
  UseIsKnown
  ShuffledAgree
PROPERTIES
  RollbackRestores
  RespectsTimes
  AccessIsGoverned
  RiskOnlyRises
CHECK_DEADLOCK FALSE
