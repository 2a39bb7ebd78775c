SPECIFICATION Spec
CONSTANTS
  Keys <- DocumentKeys
  Settings <- DegradedOnly
  Cids = {v0, v1, v2}
  Pubs = {p1, p2}
  OldCids = {v0}
  NoCid = NoCid
  NoKey = NoKey
  Capacity = 2
INVARIANTS
  CurrentIsKept
CHECK_DEADLOCK FALSE
