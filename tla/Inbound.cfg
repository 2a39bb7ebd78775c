SPECIFICATION MCSpec
CONSTANTS
  Capacity = 1
  Items <- MCItems
  Exp <- MCExp
  Local <- MCLocal
  Ids <- MCIds
  Streams = {s1, s2}
  Never = Never
  NoItem = NoItem
  Window = 2
  Skew = 1
  MaxTime = 4
  MaxPushes = 2
INVARIANTS
  RedeliveryIsBounded
  ActorSeesOnlyChecked
PROPERTIES
  NoDuplicateInWindow
  RefusalsHaveACause
SYMMETRY StreamSymmetry
