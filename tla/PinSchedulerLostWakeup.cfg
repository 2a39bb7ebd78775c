SPECIFICATION SchedSpec
CONSTANTS
  Keys = {k1, k2}
  Cids = {c1}
  NoCid = NoCid
  NoKey = NoKey
  Capacity = 1
PROPERTIES
  AcceptedHasWakeup
