SPECIFICATION FairSpec
CONSTANTS
  Keys <- AllKeys
  Settings <- ManySettings
  Cids = {v1, v2}
  Pubs = {p1, p2}
  OldCids = {v1, v2}
  NoCid = NoCid
  NoKey = NoKey
  Capacity = 3
INVARIANTS
  PassTypeOK
  CurrentIsAlwaysPinned
PROPERTIES
  ProtectedIsKept
  FinalNameIsConfirmed
  WorkerComesToRest
  OldPinsGoAway
CHECK_DEADLOCK FALSE
