SPECIFICATION MCSpec
CONSTANTS
  c1 = c1  c2 = c2  k1 = k1  k2 = k2  n1 = n1  n2 = n2  r1 = r1  r2 = r2
  Callers <- TwoCallers
  KeyIDs <- MCKeyIDs
  Nonces <- MCNonces
  Routes <- MCRoutes
  Tokens <- MCTokens
  Capacity = 2
  MaxTTL = 4
  ClockSkew = 1
  NoCall = NoCall
  MaxClock = 4
  MaxAdmissions = 4
  MaxRestarts = 1
  StateKeys = {"lock"}
  Requests = {q1}
  TTL = 1
  IntercomClock = 2
  MaxInputs = 2
  MaxTroubles = 2
  ann = ann  bob = bob  phone = phone  tablet = tablet
  Users = {ann, bob}
  Accounts = {phone, tablet}
  Admins = {ann}
  Paired <- PairedAtFirst
  NoUser = 0
  PrepareTTL = 1
  ConfirmTTL = 0
  MaxActionTTL = 1
  PairingTTL = 0
  Buffer = 1
  TelegramClock = 1
  MaxRings = 1
  MaxCodes = 1
  MaxUpdates = 3
  MaxChanges = 1
  TelegramTroubles = 1
INVARIANTS
  ReplayNeedsEvictionOrLaterClock
  PressRingsOnce
  OpenedIsExplained
  UnlockPerConfirmation
SYMMETRY CallerSymmetry
CHECK_DEADLOCK FALSE
