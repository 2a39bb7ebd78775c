SPECIFICATION Spec
CONSTANTS
  Keys = {k1}
  DialIn = {k1}
  Prompt = {k1}
  Callers = {a}
  Conns = {c1, c2}
  NoConn = NoConn
PROPERTY OnlyStaleIsEvicted
