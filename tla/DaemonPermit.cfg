SPECIFICATION Spec
CONSTANTS
  Conns = {c1, c2}
  Hvs = {h1}
  w1 = w1  w2 = w2
  Frames <- OneFrame  Daemons <- OneDaemon
  MaxEntries = 1
  MaxEngines = 1
  NoHv = NoHv
INVARIANTS PermitImpliesInstance
CHECK_DEADLOCK FALSE
