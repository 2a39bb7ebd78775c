SPECIFICATION FairSchedSpec
CONSTANTS
  Keys = {k1, k2, k3}
  Cids = {c1, c2}
  NoCid = NoCid
  NoKey = NoKey
  Capacity = 3
INVARIANTS
  NewestWins
  NoLostWakeup
PROPERTIES
  PendingIsServed
  ImplementsFairMailbox
