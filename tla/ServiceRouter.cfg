SPECIFICATION Spec
CONSTANTS
  Endpoints = {a, b}
  Protocols <- MCProtocols
  Norm <- MCNorm
  Conns = {c1, c2}
  NoConn = NoConn
  Boxes = {b1, b2, b3}
  NoBox = NoBox
  Outboxes = {o1}
  MaxStreams = 1
INVARIANTS
  TypeOK
  RightInbox
  AcceptedFeedsCurrent
  SettledIsServed
PROPERTIES
  ReopenHeals
SYMMETRY Alike
CHECK_DEADLOCK FALSE
