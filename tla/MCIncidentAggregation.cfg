SPECIFICATION FairSpec
CONSTANTS
  front = front  ann = ann  bob = bob  c1 = c1  c2 = c2
  None = None
  Kinds <- MCKinds
  Window = 1
  Buffer = 2
  MaxEvents = 3
  MaxTime = 4
  MaxMishaps = 1
INVARIANTS
  PeopleApart
  NothingVanishes
PROPERTY OpenIsClosed
CHECK_DEADLOCK FALSE
