SPECIFICATION FairSpec
CONSTANTS
  Keys = {k1, k2}
  DialIn = {k2}
  Prompt = {k1}
  Callers = {a, b}
  Conns = {c1, c2}
  NoConn = NoConn
INVARIANTS
  SharedConnection
  ClosedIsEmpty
PROPERTIES
  SendersEvictOnlyStale
  CallersReturn
  CloseReturns
