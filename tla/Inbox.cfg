CONSTANTS
  Capacity = 2
  Items <- MCItems
  Exp <- MCExp
  MaxTime = 4
  MaxPushes = 5
SPECIFICATION MCSpec
PROPERTIES LossIsJustified ImplementsMailbox
